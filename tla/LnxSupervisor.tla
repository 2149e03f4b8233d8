---------------------------- MODULE LnxSupervisor ----------------------------
(***************************************************************************)
(* The Linux command on a live console (src/lnx.c, supervise_pty): it      *)
(* gives a Linux program a PTY, relays keys and breaks to it and output    *)
(* from it, keeps the PTY's size that of the console, and ends with the    *)
(* program or ends the program with the console.                           *)
(*                                                                         *)
(* The console's bytes are units: <<"key", n>>, <<"reply", size>> (the     *)
(* answer to a bounds query) and <<"report", 0>> (a resize).  The          *)
(* translators are TerminalTranslate's; here a key is one unit on either   *)
(* side.  Output is counted.  The loop is three actions, with the world    *)
(* moving between them: waitpid and its decisions, the relay of output,    *)
(* and poll with what it serves.  The program may leave a job behind that  *)
(* holds its terminal.                                                     *)
(***************************************************************************)
EXTENDS Integers, Sequences, FiniteSets, SequencesExt

CONSTANTS
    Sizes,          \* the sizes of the console's window
    Fallback,       \* ACE_GEOMETRY_FALLBACK_ROWS and COLS
    Room,           \* the size of a relay buffer
    PtyRoom,        \* how much input a PTY takes from its master
    HoldRoom,       \* the size of the output hold
    MaxEvents       \* keys, resizes, signals, pieces of output and the close

VARIABLES
    console, window, tty,   \* the console: open, its size, its unread bytes
    asked, reports,         \* queries it has not answered; it reports resizes
    child, job,             \* the program, and a job of its session
    wrote, pty,             \* the output there has been, and what the PTY holds of it
    got, taken,             \* what was written to the PTY, and how much was read
    pipe,                   \* lnx_signal_pipe
    pc,
    received, attempt,      \* query_console_geometry
    geometry, resize_pending,
    input, hold, output, shown,
    input_open, output_open, master_read_open, master_write_open,
    input_flushed, console_hup, shutdown_requested,
    hup_due, eof_due,       \* the deadlines have passed
    typed, resizes, signals,
    missed,                 \* the console's size could not be learnt
    dropped                 \* a key found no room when it was given back

world == <<console, window, tty, asked, reports, child, job, wrote, pty, got, taken, pipe,
           typed, resizes, signals>>
query == <<received, attempt, geometry, resize_pending, missed, dropped>>
relay == <<input, hold, output, shown>>
flags == <<input_open, output_open, master_read_open, master_write_open, input_flushed,
           console_hup, shutdown_requested, hup_due, eof_due>>
vars == <<world, pc, query, relay, flags>>

Init ==
    /\ console = "open" /\ window = (CHOOSE s \in Sizes : TRUE) /\ tty = <<>> /\ asked = 1 /\ reports = FALSE
    /\ child = "none" /\ job = FALSE
    /\ wrote = 0 /\ pty = 0 /\ got = <<>> /\ taken = 0 /\ pipe = <<>>
    /\ pc = "query"
    /\ received = <<>> /\ attempt = 0 /\ geometry = Fallback /\ resize_pending = FALSE
    /\ input = <<>> /\ hold = 0 /\ output = 0 /\ shown = 0
    /\ input_open = TRUE /\ output_open = TRUE
    /\ master_read_open = TRUE /\ master_write_open = TRUE
    /\ input_flushed = FALSE /\ console_hup = FALSE /\ shutdown_requested = FALSE
    /\ hup_due = FALSE /\ eof_due = FALSE
    /\ typed = 0 /\ resizes = 0 /\ signals = 0
    /\ missed = FALSE /\ dropped = FALSE

-----------------------------------------------------------------------------
(* The console, the program and time. *)

Events == typed + wrote + resizes + signals + (IF console = "closed" THEN 1 ELSE 0)

Key ==
    /\ console = "open" /\ Events < MaxEvents
    /\ typed' = typed + 1 /\ tty' = Append(tty, <<"key", typed + 1>>)
    /\ UNCHANGED <<console, window, asked, reports, child, job, wrote, pty, got, taken, pipe,
                   resizes, signals, pc, query, relay, flags>>

Answer ==
    /\ console = "open" /\ asked > 0
    /\ asked' = asked - 1 /\ tty' = Append(tty, <<"reply", window>>)
    /\ UNCHANGED <<console, window, reports, child, job, wrote, pty, got, taken, pipe, typed,
                   resizes, signals, pc, query, relay, flags>>

\* A resize while reports are off is missed unless a query is still to be
\* answered.
Resize(s) ==
    /\ console = "open" /\ s # window /\ Events < MaxEvents
    /\ window' = s /\ resizes' = resizes + 1
    /\ tty' = IF reports THEN Append(tty, <<"report", 0>>) ELSE tty
    /\ missed' = (missed \/ (~reports /\ asked = 0))
    /\ UNCHANGED <<console, asked, reports, child, job, wrote, pty, got, taken, pipe, typed,
                   signals, pc, received, attempt, geometry, resize_pending, dropped,
                   relay, flags>>

\* The window is closed.
Close ==
    /\ console = "open" /\ Events < MaxEvents
    /\ console' = "closed" /\ asked' = 0
    /\ UNCHANGED <<window, tty, reports, child, job, wrote, pty, got, taken, pipe, typed,
                   resizes, signals, pc, query, relay, flags>>

\* lnx_signal_handler: a break, or a request to end.
Signal(e) ==
    /\ child # "none" /\ pc # "done" /\ Events < MaxEvents
    /\ signals' = signals + 1 /\ pipe' = Append(pipe, e)
    /\ UNCHANGED <<console, window, tty, asked, reports, child, job, wrote, pty, got, taken,
                   typed, resizes, pc, query, relay, flags>>

Running == child = "running"
Holds == Running \/ job

\* The program or the job writes; the program reads, leaves a job, exits; the
\* job ends.
Output ==
    /\ Holds /\ Events < MaxEvents /\ pc # "done"
    /\ wrote' = wrote + 1 /\ pty' = pty + 1
    /\ UNCHANGED <<console, window, tty, asked, reports, child, job, got, taken, pipe, typed,
                   resizes, signals, pc, query, relay, flags>>

Reads ==
    /\ Running /\ taken < Len(got)
    /\ taken' = Len(got)
    /\ UNCHANGED <<console, window, tty, asked, reports, child, job, wrote, pty, got, pipe,
                   typed, resizes, signals, pc, query, relay, flags>>

Exit(leaves) ==
    /\ Running
    /\ child' = "exited" /\ job' = leaves
    /\ UNCHANGED <<console, window, tty, asked, reports, wrote, pty, got, taken, pipe, typed,
                   resizes, signals, pc, query, relay, flags>>

JobEnds ==
    /\ job
    /\ job' = FALSE
    /\ UNCHANGED <<console, window, tty, asked, reports, child, wrote, pty, got, taken, pipe,
                   typed, resizes, signals, pc, query, relay, flags>>

\* 250 milliseconds after the console hung up, or the PTY ended.
HupDeadline ==
    /\ console_hup /\ ~hup_due
    /\ hup_due' = TRUE
    /\ UNCHANGED <<world, pc, query, relay, input_open, output_open, master_read_open,
                   master_write_open, input_flushed, console_hup, shutdown_requested, eof_due>>

EofDeadline ==
    /\ ~master_read_open /\ child # "reaped" /\ ~eof_due
    /\ eof_due' = TRUE
    /\ UNCHANGED <<world, pc, query, relay, input_open, output_open, master_read_open,
                   master_write_open, input_flushed, console_hup, shutdown_requested, hup_due>>

-----------------------------------------------------------------------------
(* Input on its way to the program. *)

Least(a, b) == IF a < b THEN a ELSE b

\* ace_amiga_to_xterm_feed: a report is noted, anything else is passed on
\* while there is room.
FeedUnit(f, u) ==
    CASE f.full -> f
      [] ~f.full /\ u[1] = "report" -> [f EXCEPT !.resize = TRUE]
      [] ~f.full /\ u[1] # "report" /\ Len(f.buffer) = Room -> [f EXCEPT !.full = TRUE]
      [] ~f.full /\ u[1] # "report" /\ Len(f.buffer) < Room -> [f EXCEPT !.buffer = Append(@, u)]

Feed(units) ==
    FoldLeft(FeedUnit, [buffer |-> input, resize |-> resize_pending, full |-> FALSE], units)

\* What came with a reply is given back to the stream, on both sides of it.
AfterReply(all, i) == SubSeq(all, i + 1, Len(all))
KeysOnly(all, i) == SelectSeq(all, LAMBDA u : u[1] = "key")
GivenBack(all, i) == SubSeq(all, 1, i - 1) \o SubSeq(all, i + 1, Len(all))

Replies(all) == {i \in DOMAIN all : all[i][1] = "reply"}

\* find_bounds_reply: the first one.
find_bounds_reply(all) == CHOOSE i \in Replies(all) : \A j \in Replies(all) : i <= j

QueryEnds(units, size, unknown) ==
    LET f == Feed(units)
    IN /\ geometry' = size /\ missed' = (unknown \/ (child = "none" /\ missed))
       /\ input' = f.buffer /\ resize_pending' = f.resize
       /\ dropped' = (dropped \/ f.full)
       /\ received' = <<>> /\ attempt' = 0
       /\ pc' = IF child # "none" THEN "relay" ELSE IF f.full THEN "failed" ELSE "enable"

\* Up to three polls; whatever has come is taken.
query_console_geometry ==
    /\ pc = "query"
    /\ LET all == received \o tty
       IN IF Replies(all) # {}
          THEN LET i == find_bounds_reply(all)
               IN QueryEnds(GivenBack(all, i), all[i][2], FALSE)
          ELSE IF attempt = 2 THEN QueryEnds(all, Fallback, TRUE)
          ELSE /\ received' = all /\ attempt' = attempt + 1
               /\ UNCHANGED <<pc, input, geometry, resize_pending, missed, dropped>>
    /\ tty' = <<>>
    /\ UNCHANGED <<console, window, asked, reports, child, job, wrote, pty, got, taken, pipe,
                   typed, resizes, signals, hold, output, shown, flags>>

\* Reports are asked for, and the program is started.
Start(forks) ==
    /\ pc = "enable"
    /\ reports' = (console = "open")
    /\ child' = IF forks THEN "running" ELSE child
    /\ pc' = IF forks THEN "top" ELSE "failed"
    /\ UNCHANGED <<console, window, tty, asked, job, wrote, pty, got, taken, pipe, typed,
                   resizes, signals, query, relay, flags>>

\* A console that hung up is not told from one that has nothing more to say.
EndOfInputOnly(s) == [s EXCEPT !.open = FALSE]

HungUp(s) == [s EXCEPT !.open = FALSE, !.hup = TRUE]

\* Where input stands: what the console has sent, the relay buffer, the
\* signal pipe and what is known of them.
Standing == [tty |-> tty, buffer |-> input, pipe |-> pipe, resize |-> resize_pending,
             open |-> input_open, hup |-> console_hup, ends |-> shutdown_requested]

relay_read_input(s) ==
    LET n == Least(Len(s.tty), Room - Len(s.buffer))
        f == Feed(SubSeq(s.tty, 1, n))
    IN IF n = 0 THEN HungUp(s)
       ELSE [s EXCEPT !.tty = SubSeq(@, n + 1, Len(@)), !.buffer = f.buffer, !.resize = f.resize]

\* A break becomes its control character, as long as there is room.
SignalEvent(s, e) ==
    CASE Len(s.buffer) = Room -> [s EXCEPT !.pipe = Append(@, e)]
      [] Len(s.buffer) < Room /\ e = "hup" -> [s EXCEPT !.ends = TRUE]
      [] Len(s.buffer) < Room /\ e # "hup" -> [s EXCEPT !.buffer = Append(@, <<"break", 0>>)]

relay_read_signal_events(s) == FoldLeft(SignalEvent, [s EXCEPT !.pipe = <<>>], s.pipe)

-----------------------------------------------------------------------------
(* Output on its way to the console. *)

\* More is read only when what was read has been translated; the end is the
\* end when nobody holds the PTY.
relay_read_master ==
    LET more == IF hold = 0 THEN Least(pty, HoldRoom) ELSE 0
        moved == Least(hold + more, Room - output)
    IN IF master_read_open /\ output_open /\ output < Room
       THEN [pty |-> pty - more, hold |-> hold + more - moved, output |-> output + moved,
             open |-> Holds \/ pty > 0 \/ hold > 0]
       ELSE [pty |-> pty, hold |-> hold, output |-> output, open |-> master_read_open]

Unread == [pty |-> pty, hold |-> hold, output |-> output, open |-> master_read_open]

\* The PTY takes what it has room for; without a program a write may fail.
relay_write_master(s) ==
    LET n == Least(Len(s.buffer), PtyRoom - (Len(got) - taken))
    IN \/ /\ got' = got \o SubSeq(s.buffer, 1, n)
          /\ input' = SubSeq(s.buffer, n + 1, Len(s.buffer))
          /\ shutdown_requested' = s.ends
          /\ UNCHANGED master_write_open
       \/ /\ ~Holds
          /\ master_write_open' = FALSE
          /\ shutdown_requested' = (s.ends \/ child # "reaped")
          /\ input' = s.buffer
          /\ UNCHANGED got

\* A failed write is tried again.
KeepsTrying(left, n) ==
    IF console = "open" THEN shown' = shown + n /\ output' = left - n /\ UNCHANGED output_open
    ELSE output' = left /\ UNCHANGED <<shown, output_open>>

relay_write_output(left, n) ==
    IF console = "open" THEN shown' = shown + n /\ output' = left - n /\ UNCHANGED output_open
    ELSE output' = left /\ output_open' = FALSE /\ UNCHANGED shown

-----------------------------------------------------------------------------
(* supervise_pty's loop. *)

Gone == child \in {"exited", "reaped"}

\* waitpid, and the reasons to end the program.  The end of the input is the
\* terminal's end-of-file character; a resize is followed by a query.
Top ==
    /\ pc = "top"
    /\ child' = IF child = "exited" THEN "reaped" ELSE child
    /\ shutdown_requested' = \/ shutdown_requested
                             \/ console_hup /\ ~Gone /\ hup_due
                             \/ ~Gone /\ ~master_read_open /\ eof_due
    /\ input_open' = (input_open /\ ~Gone)
    /\ master_write_open' = (master_write_open /\ ~Gone)
    /\ LET ends == /\ ~input_open /\ ~input_flushed /\ ~shutdown_requested'
                   /\ ~master_write_open \/ Len(input) < Room
       IN /\ input_flushed' = (input_flushed \/ Gone \/ ends)
          /\ input' = CASE Gone -> <<>>
                        [] ~Gone /\ ends /\ master_write_open -> Append(input, <<"eof", 0>>)
                        [] OTHER -> input
    /\ LET asks == resize_pending /\ ~shutdown_requested'
       IN /\ resize_pending' = (resize_pending /\ ~asks)
          /\ asked' = IF asks /\ console = "open" THEN asked + 1 ELSE asked
          /\ pc' = IF shutdown_requested' THEN "hup" ELSE IF asks THEN "query" ELSE "relay"
    /\ UNCHANGED <<console, window, tty, reports, job, wrote, pty, got, taken, pipe, typed,
                   resizes, signals, received, attempt, geometry, missed, dropped, hold, output,
                   shown, output_open, master_read_open, console_hup, hup_due, eof_due>>

\* Whether everything has been said once the program is gone.
LeavesAtExit(open, left) == child = "reaped" /\ left = 0
MayLeave(open, left) == child = "reaped" /\ ~open /\ left = 0

Relay ==
    /\ pc = "relay"
    /\ \E m \in {relay_read_master} :
          /\ pty' = m.pty /\ hold' = m.hold
          /\ output' = IF output_open THEN m.output ELSE 0
          /\ master_read_open' = (output_open /\ m.open)
          /\ shutdown_requested' = (shutdown_requested \/ ~output_open)
    /\ pc' = IF MayLeave(master_read_open', output') THEN "end" ELSE "poll"
    /\ UNCHANGED <<console, window, tty, asked, reports, child, job, wrote, got, taken, pipe,
                   typed, resizes, signals, query, input, shown, input_open, output_open,
                   master_write_open, input_flushed, console_hup, hup_due, eof_due>>

Interest ==
    (IF input_open /\ Len(input) < Room THEN {"input"} ELSE {})
    \cup (IF child # "reaped" /\ Len(input) < Room THEN {"signal"} ELSE {})
    \cup (IF master_read_open THEN {"read"} ELSE {})
    \cup (IF master_write_open /\ input # <<>> THEN {"write"} ELSE {})
    \cup (IF output_open /\ output > 0 THEN {"output"} ELSE {})

IsReady(d) ==
    CASE d = "input" -> tty # <<>> \/ console = "closed"
      [] d = "signal" -> pipe # <<>>
      [] d = "read" -> pty > 0 \/ ~Holds
      [] d = "write" -> ~Holds \/ Len(got) - taken < PtyRoom
      [] d = "output" -> TRUE

\* Everything that is ready is served: input, breaks, the PTY, output.
Serve(ready) ==
    /\ \E read \in {IF "input" \in ready THEN relay_read_input(Standing) ELSE Standing} :
       \E s \in {IF "signal" \in ready THEN relay_read_signal_events(read) ELSE read} :
          /\ tty' = s.tty /\ pipe' = s.pipe /\ resize_pending' = s.resize
          /\ input_open' = s.open /\ console_hup' = s.hup
          /\ IF "write" \in ready THEN relay_write_master(s)
             ELSE /\ input' = s.buffer /\ shutdown_requested' = s.ends
                  /\ UNCHANGED <<got, master_write_open>>
    /\ \E m \in {IF "read" \in ready THEN relay_read_master ELSE Unread} :
          /\ pty' = m.pty /\ hold' = m.hold /\ master_read_open' = m.open
          /\ IF "output" \in ready THEN \E n \in 1..m.output : relay_write_output(m.output, n)
             ELSE output' = m.output /\ UNCHANGED <<shown, output_open>>

Poll ==
    /\ pc = "poll"
    /\ pc' = IF Interest = {} /\ child = "reaped" THEN "end" ELSE "top"
    /\ IF Interest = {}
       THEN /\ shutdown_requested' = (child # "reaped")
            /\ UNCHANGED <<tty, pipe, resize_pending, input_open, console_hup, input, got,
                           master_write_open, pty, hold, output, master_read_open, shown,
                           output_open>>
       ELSE Serve({d \in Interest : IsReady(d)})
    /\ UNCHANGED <<console, window, asked, reports, child, job, wrote, taken, typed, resizes,
                   signals, received, attempt, geometry, missed, dropped, input_flushed,
                   hup_due, eof_due>>

\* signal_pty_target and reap_child_for: the program, its foreground group and
\* its session are signalled, and the program is waited for.  HUP and TERM may
\* be ignored.
Signalled(dies, jobdies, next) ==
    /\ child' = IF dies \/ child = "exited" THEN "reaped" ELSE child
    /\ job' = (job /\ ~jobdies)
    /\ pc' = IF child' = "reaped" THEN "end" ELSE next
    /\ UNCHANGED <<console, window, tty, asked, reports, wrote, got, taken, pipe, typed,
                   resizes, signals, query, input, hold, output, shown, input_open,
                   output_open, master_read_open, master_write_open, input_flushed, console_hup,
                   shutdown_requested, hup_due, eof_due>>

\* The PTY is closed after the first signal.  What is left of a program that
\* is already gone is killed.
ShutdownHup(dies, jobdies) ==
    /\ pc = "hup"
    /\ pty' = 0
    /\ Signalled(dies, jobdies \/ child = "reaped", "term")

GivesUp(dies, jobdies) ==
    /\ pc = "term"
    /\ UNCHANGED pty
    /\ Signalled(dies, jobdies, "end")

ShutdownTerm(dies, jobdies) ==
    /\ pc = "term"
    /\ UNCHANGED pty
    /\ Signalled(dies, jobdies, "kill")

ShutdownKill ==
    /\ pc = "kill"
    /\ UNCHANGED pty
    /\ Signalled(TRUE, TRUE, "end")

\* Reports are turned off again.
End ==
    /\ pc = "end"
    /\ pc' = "done"
    /\ reports' = FALSE
    /\ output' = IF shutdown_requested THEN 0 ELSE output
    /\ UNCHANGED <<console, window, tty, asked, child, job, wrote, pty, got, taken, pipe, typed,
                   resizes, signals, query, input, hold, shown, flags>>

Supervise ==
    \/ query_console_geometry
    \/ Start(TRUE)
    \/ Top
    \/ Relay
    \/ Poll
    \/ \E dies \in BOOLEAN, jobdies \in BOOLEAN : ShutdownHup(dies, jobdies)
    \/ \E dies \in BOOLEAN, jobdies \in BOOLEAN : ShutdownTerm(dies, jobdies)
    \/ ShutdownKill
    \/ End

Deadlines == HupDeadline \/ EofDeadline

Next ==
    \/ Supervise
    \/ Start(FALSE)
    \/ Deadlines
    \/ Key
    \/ Answer
    \/ \E s \in Sizes : Resize(s)
    \/ Close
    \/ \E e \in {"break", "hup"} : Signal(e)
    \/ Output
    \/ Reads
    \/ \E leaves \in BOOLEAN : Exit(leaves)
    \/ JobEnds

Spec == Init /\ [][Next]_vars

\* The supervisor runs, and time passes.  Nothing is assumed of the program,
\* the job or the user.
FairSpec == Spec /\ WF_vars(Supervise) /\ WF_vars(Deadlines)

-----------------------------------------------------------------------------
TypeOK ==
    /\ console \in {"open", "closed"} /\ window \in Sizes /\ geometry \in Sizes \cup {Fallback}
    /\ child \in {"none", "running", "exited", "reaped"}
    /\ Len(input) <= Room /\ output \in 0..Room /\ hold \in 0..HoldRoom
    /\ shown + output + hold + pty <= wrote

KeysOf(units) == SelectSeq(units, LAMBDA u : u[1] = "key")

\* While the program runs, every key is on its way to it or has reached it, in
\* the order it was typed, whatever queries and reports the keys are mixed
\* with, unless a full buffer had no room for what a query gave back.
KeysKept ==
    child \in {"none", "running"} /\ pc \notin {"hup", "term", "kill", "end", "done", "failed"}
        /\ ~dropped
    => KeysOf(got \o input \o received \o tty) = [n \in 1..typed |-> <<"key", n>>]

\* Once the console has nothing more to say, the PTY has its size, unless the
\* console did not answer in time or was resized before it was asked to report.
GeometryFollows ==
    pc = "poll" /\ child = "running" /\ console = "open" /\ tty = <<>> /\ ~resize_pending
        /\ ~missed
    => geometry = window

\* When the program has ended by itself, all it wrote has been shown.
EverythingShown == pc = "done" /\ ~shutdown_requested => shown = wrote

\* The program does not outlive the Linux command, however it takes a request
\* to end, and is never left unreaped.
TargetIsReaped == pc = "done" => child = "reaped"

TargetEnded == child = "exited" /\ ~job
Done == pc = "done"

\* When the program has ended and nobody holds its terminal, the command ends,
\* with an open console or without.
EndsWithItsTarget == TargetEnded ~> Done

ConsoleGone == console = "closed" /\ child = "running"
HangUpHeard == child # "running" \/ Len(input) = Room

\* A program whose console is gone is ended, unless it has left its input
\* unread until the relay is full.
HangUpReachesTarget == ConsoleGone ~> HangUpHeard

\* "No process may survive with a dead ACE console."
NoneSurvives == console = "closed" /\ child # "none" ~> pc = "done"

=============================================================================
