----------------------------- MODULE EditLines -----------------------------
(***************************************************************************)
(* Edit (src/edit.c): the lines of a file on their way through the editor. *)
(*                                                                         *)
(* A source is read a line at a time.  Moving forward puts the line left   *)
(* behind in a queue of previous lines, whose oldest is written to the     *)
(* destination when the queue is full; moving back puts it on the `ahead'  *)
(* stack, which is emptied before the source is read again.  REWIND passes *)
(* everything through and starts again on what was written; W passes       *)
(* everything through, keeps the source as a backup and moves the work     *)
(* file into its place.                                                    *)
(*                                                                         *)
(* The editor is a record, so that a command that moves by calling another *)
(* (M, D, F, T) is a composition of functions on it.  A line is an         *)
(* identity with its number and the global changes made to it; its text,   *)
(* and what is printed, is abstracted (EditText has the text).             *)
(***************************************************************************)
EXTENDS Integers, Sequences, SequencesExt

CONSTANTS
    Original, Second,  \* the lines of the FROM file, and of another file
    Match,             \* the lines a search finds
    To,                \* may a TO file be named?  a set of Booleans
    Depth,             \* depth_limit
    CommandDepth,      \* COMMAND_DEPTH - 1
    MaxCommands, MaxGlobals

Work == {"w1", "w2"}                  \* T:E<nn>-WK1 and -WK2
Name == {"from", "to", "second", "other", "backup", "beside"} \cup Work
Gone == <<0>>
NoLine == [id |-> 0, num |-> 0, ph |-> FALSE, done |-> FALSE, g |-> <<>>]
Nothing(line) == line.id = 0 /\ ~line.ph

VARIABLES e, cmd, single, renumbered, saved, commands
vars == <<e, cmd, single, renumbered, saved, commands>>

\* ---- The queue, the stack and the source

sink_write(ed, line) ==
    IF line.ph THEN ed
    ELSE [ed EXCEPT !.disk[ed.sink] = Append(@, line.id),
                    !.out = Append(@, line.id)]

queue_push(ed, line) ==
    IF Len(ed.queue) < Depth THEN [ed EXCEPT !.queue = Append(@, line)]
    ELSE [sink_write(ed, Head(ed.queue))
            EXCEPT !.queue = Append(Tail(ed.queue), line)]

RECURSIVE queue_flush(_)
queue_flush(ed) ==
    IF ed.queue = <<>> THEN ed
    ELSE queue_flush([sink_write(ed, Head(ed.queue)) EXCEPT !.queue = Tail(@)])

\* The extra line past the end is made once for each source.
source_line(ed) ==
    LET s == ed.source
        line == [NoLine EXCEPT !.num = ed.nextno[s]]
    IN IF ed.pos[s] < Len(ed.disk[s])
       THEN [ed EXCEPT !.pos[s] = @ + 1, !.nextno[s] = @ + 1,
                       !.got = [line EXCEPT !.id = ed.disk[s][ed.pos[s] + 1]]]
       ELSE IF ed.ended[s] THEN [ed EXCEPT !.got = NoLine]
       ELSE [ed EXCEPT !.ended[s] = TRUE, !.nextno[s] = @ + 1,
                       !.got = [line EXCEPT !.ph = TRUE]]

pull_line(ed) ==
    IF ed.ahead = <<>> THEN source_line(ed)
    ELSE [ed EXCEPT !.got = Head(ed.ahead), !.ahead = Tail(@)]

Enabled(globals) == SelectSeq(globals, LAMBDA x : x.on)
apply_globals(line, globals) ==
    [line EXCEPT !.g = @ \o [i \in DOMAIN Enabled(globals)
                               |-> Enabled(globals)[i].id]]

EveryTime(ed) ==
    LET renumber == ed.renum > 0 /\ ~ed.got.done
        line == IF renumber THEN [ed.got EXCEPT !.num = ed.renum] ELSE ed.got
    IN [ed EXCEPT !.renum = IF renumber THEN @ + 1 ELSE @,
                  !.got = apply_globals([line EXCEPT !.done = TRUE], ed.globals)]
line_arrive(ed) ==
    IF ed.got.done THEN ed ELSE
    LET line == IF ed.renum > 0 THEN [ed.got EXCEPT !.num = ed.renum]
                ELSE ed.got
    IN [ed EXCEPT !.renum = IF @ > 0 THEN @ + 1 ELSE @,
                  !.got = apply_globals([line EXCEPT !.done = TRUE], ed.globals)]

\* ---- Movement.  `ok' is what the function returned.

Failed(ed) == [ed EXCEPT !.ok = FALSE]
AtCeiling(ed) == /\ ed.ceiling > 0 /\ ~Nothing(ed.cur)
                 /\ ed.cur.num > 0 /\ ed.cur.num >= ed.ceiling
next_line(ed) ==
    IF AtCeiling(ed) THEN Failed(ed) ELSE
    LET onto(a) == [(IF Nothing(a.cur) THEN a ELSE queue_push(a, a.cur))
                      EXCEPT !.cur = a.got]
        took(p) == IF Nothing(p.got) THEN Failed(p) ELSE onto(line_arrive(p))
    IN took(pull_line(ed))

Behind(ed) == [ed EXCEPT !.cur = Last(ed.queue), !.queue = Front(@),
                         !.ahead = Append(@, ed.cur)]
BackOne(ed) == [ed EXCEPT !.cur = Last(ed.queue), !.queue = Front(@),
                          !.ahead = IF Nothing(ed.cur) THEN @
                                    ELSE <<ed.cur>> \o @]
previous_line(ed) == IF ed.queue = <<>> THEN Failed(ed) ELSE BackOne(ed)

delete_current(ed) ==
    IF Nothing(ed.cur) \/ ed.cur.ph THEN Failed(ed) ELSE
    LET onto(a) == [a EXCEPT !.cur = a.got]
        took(p) == IF Nothing(p.got) THEN Failed(p) ELSE onto(line_arrive(p))
    IN took(pull_line(ed))

RECURSIVE move_to_end(_), DeleteToEnd(_), Walk(_, _, _), DeleteRange(_, _)
move_to_end(ed) ==
    LET on(n) == IF n.ok THEN move_to_end(n) ELSE n
    IN IF ed.cur.ph THEN ed ELSE on(next_line(ed))
DeleteToEnd(ed) ==
    LET on(d) == IF d.ok THEN DeleteToEnd(d) ELSE d
    IN IF ed.cur.ph THEN ed ELSE on(delete_current(ed))

\* The direction is decided once, by the last line that has a number.
StrictlyPast(ed, number) ==
    LET numbered == SelectSeq(ed.queue, LAMBDA l : l.num > 0)
    IN IF ed.cur.num > 0 THEN ed.cur.num > number
       ELSE numbered # <<>> /\ Last(numbered).num > number
IsBackward(ed, number) ==
    LET numbered == SelectSeq(ed.queue, LAMBDA l : l.num > 0)
    IN IF ed.cur.num > 0 THEN ed.cur.num > number
       ELSE numbered # <<>> /\ Last(numbered).num >= number

Walk(ed, number, backward) ==
    LET on(step) == IF step.ok THEN Walk(step, number, backward) ELSE step
    IN IF ed.cur.num = number THEN ed
       ELSE IF ~backward /\ ed.cur.num > number THEN Failed(ed)
       ELSE on(IF backward THEN previous_line(ed) ELSE next_line(ed))
move_to_number(ed, number) ==
    IF Nothing(ed.cur) THEN Failed(ed)
    ELSE Walk(ed, number, IsBackward(ed, number))

\* while (first <= last && delete_current(edit)) first++;
DeleteRange(ed, count) ==
    LET on(d) == IF d.ok THEN DeleteRange(d, count - 1) ELSE d
    IN IF count = 0 THEN ed ELSE on(delete_current(ed))

RECURSIVE Search(_, _), DeleteUntil(_)
Search(ed, backward) ==
    LET on(step) == IF ~step.ok \/ (~backward /\ step.cur.ph) THEN step
                    ELSE Search(step, backward)
    IN IF ed.cur.id \in Match THEN ed
       ELSE on(IF backward THEN previous_line(ed) ELSE next_line(ed))
DeleteUntil(ed) ==
    LET on(d) == IF d.ok THEN DeleteUntil(d) ELSE d
    IN IF ed.cur.id \in Match \/ ed.cur.ph THEN ed ELSE on(delete_current(ed))

\* Inserted text goes before the current line: straight into the queue.
insert_line(ed) ==
    [queue_push(ed, [NoLine EXCEPT !.id = ed.nextid, !.done = TRUE])
       EXCEPT !.nextid = @ + 1]

command_split(ed) ==
    IF ed.cur.id \notin Match THEN Failed(ed)
    ELSE [queue_push(ed, ed.cur)
            EXCEPT !.cur = [ed.cur EXCEPT !.id = ed.nextid, !.num = 0],
                   !.nextid = @ + 1]

command_join(ed) ==
    IF Nothing(ed.cur) \/ ed.cur.ph THEN Failed(ed) ELSE
    LET took(p) == IF Nothing(p.got) THEN Failed(p)
                   ELSE IF p.got.ph THEN p ELSE line_arrive(p)
    IN took(pull_line(ed))

\* ---- Passing the rest through, and rewinding

RECURSIVE Drain(_)
Drain(ed) ==
    LET on(a) == Drain(queue_push(a, a.got))
        took(p) == IF Nothing(p.got) \/ p.got.ph THEN p ELSE on(line_arrive(p))
    IN took(pull_line(ed))
drain_source(ed) ==
    queue_flush(Drain(IF Nothing(ed.cur) THEN ed
                      ELSE [queue_push(ed, ed.cur) EXCEPT !.cur = NoLine]))

NextWork(ed) == IF ed.serial = 1 THEN 2 ELSE 1
WorkName(serial) == IF serial = 1 THEN "w1" ELSE "w2"    \* work_file_name

DeleteStale(ed) ==
    IF ed.psource \in Work THEN [ed.disk EXCEPT ![ed.psource] = Gone] ELSE ed.disk

rewind_file(ed) ==
    LET again(d, name, work) ==
          [d EXCEPT
             !.disk = [DeleteStale(d) EXCEPT ![work] = <<>>],
             !.sources = <<name>>, !.source = name, !.psource = name,
             !.sinks = <<work>>, !.sink = work, !.psink = work,
             !.pos[name] = 0, !.ended[name] = FALSE, !.nextno[name] = 1,
             !.cur = NoLine, !.renum = 0, !.out = <<>>, !.serial = NextWork(d)]
    IN IF ed.sink # ed.psink \/ ed.source # ed.psource THEN Failed(ed)
       ELSE next_line(again(drain_source(ed), ed.psink, WorkName(NextWork(ed))))

\* ---- Commands

Start(to) ==
    LET sink == IF to THEN "to" ELSE "w1" IN
    next_line(
      [disk |-> [n \in Name |-> IF n = "from" THEN Original
                                ELSE IF n = "second" THEN Second
                                ELSE IF n = sink THEN <<>> ELSE Gone],
       pos |-> [n \in Name |-> 0], ended |-> [n \in Name |-> FALSE],
       nextno |-> [n \in Name |-> 1],
       sources |-> <<"from">>, source |-> "from", psource |-> "from",
       sinks |-> <<sink>>, sink |-> sink, psink |-> sink,
       to |-> to, serial |-> IF to THEN 0 ELSE 1, out |-> <<>>,
       cur |-> NoLine, queue |-> <<>>, ahead |-> <<>>, got |-> NoLine,
       renum |-> 0, ceiling |-> 0, globals |-> <<>>, nextg |-> 1,
       nextid |-> 20, level |-> 0, phase |-> "edit", ok |-> TRUE])

Init == /\ e \in {Start(to) : to \in To} /\ cmd = [do |-> "start", n |-> 0] /\ single = TRUE
        /\ renumbered = FALSE /\ saved = <<>> /\ commands = 0

Tidy(ed) == [ed EXCEPT !.got = NoLine, !.ok = TRUE]
Run(do, n, ed) ==
    /\ e.phase = "edit" /\ commands < MaxCommands
    /\ commands' = commands + 1
    /\ cmd' = [do |-> do, n |-> n] /\ e' = Tidy(ed)
Quiet == UNCHANGED <<single, renumbered, saved>>
Numbers == 1..Len(Original)

RECURSIVE ToTop(_), ToBottom(_)
ToTop(ed) == IF ed.ahead = <<>> THEN ed
             ELSE LET on(n) == IF n.ok THEN ToTop(n) ELSE n IN on(next_line(ed))
ToBottom(ed) == IF ed.queue = <<>> THEN ed ELSE ToBottom(previous_line(ed))

N == Run("move", 0, next_line(e)) /\ Quiet
P == Run("move", 0, previous_line(e)) /\ Quiet
command_move ==
    /\ \/ \E n \in Numbers : Run("goto", n, move_to_number(e, n))
       \/ Run("move", 0, move_to_end(e))        \* M*, and T to the end
       \/ Run("move", 0, ToTop(e)) \/ Run("move", 0, ToBottom(e))
    /\ Quiet
command_find == \E backward \in BOOLEAN : Run("move", 0, Search(e, backward)) /\ Quiet
command_delete ==
    /\ \/ Run("delete", 0, delete_current(e))
       \/ Run("delete", 0, DeleteToEnd(e))
       \/ \E n \in Numbers, count \in 1..2 :
            \E m \in {move_to_number(e, n)} :
              Run("delete", 0, IF m.ok THEN DeleteRange(m, count) ELSE m)
       \/ Run("delete", 0, DeleteUntil(e))      \* DF
    /\ Quiet
Insert ==                                        \* I and R, one line each
    /\ \/ Run("insert", 0, insert_line(e))
       \/ Run("insert", 0, insert_line(move_to_end(e)))
       \/ \E n \in Numbers : \E m \in {move_to_number(e, n)} :
            m.ok /\ Run("insert", 0, insert_line(m))
       \/ \E d \in {delete_current(e)} :
            d.ok /\ Run("replace", 0, insert_line(d))
    /\ Quiet
Split == Run("split", 0, command_split(e)) /\ command_split(e).ok /\ Quiet
Join == Run("join", 0, command_join(e)) /\ Quiet
Halt == \E n \in {0, 2} : Run("halt", n, [e EXCEPT !.ceiling = n]) /\ Quiet
Renumber ==
    /\ \E n \in {2} : Run("renumber", n, [e EXCEPT !.cur.num = n, !.renum = n + 1])
    /\ renumbered' = TRUE /\ UNCHANGED <<single, saved>>
command_global ==
    /\ e.nextg <= MaxGlobals
    /\ LET new == [id |-> e.nextg, on |-> TRUE]
       IN Run("global", e.nextg, [e EXCEPT !.globals = Append(@, new),
                !.nextg = @ + 1, !.cur = apply_globals(@, <<new>>)])
    /\ Quiet
command_global_state ==
    /\ e.globals # <<>>
    /\ \/ Run("global", 0, [e EXCEPT !.globals = <<>>])
       \/ \E on \in BOOLEAN : Run("global", 0, [e EXCEPT !.globals =
             [i \in DOMAIN @ |-> [@[i] EXCEPT !.on = on]]])
    /\ Quiet
Rewind == Run("rewind", 0, rewind_file(e)) /\ Quiet

\* FROM and TO, with a name or without (the first file of the list).
Opened(list, name) == IF \E i \in DOMAIN list : list[i] = name THEN list
                      ELSE <<name>> \o list
command_from ==
    /\ \/ Run("from", 0, [e EXCEPT !.source = Last(e.sources)])
       \/ LET fresh == ~\E i \in DOMAIN e.sources : e.sources[i] = "second"
          IN Run("from", 0, [e EXCEPT !.sources = Opened(@, "second"),
                   !.source = "second",
                   !.pos["second"] = IF fresh THEN 0 ELSE @,
                   !.ended["second"] = IF fresh THEN FALSE ELSE @,
                   !.nextno["second"] = IF fresh THEN 1 ELSE @])
    /\ single' = (single /\ e'.source = e.psource)
    /\ UNCHANGED <<renumbered, saved>>
command_to ==
    /\ \/ Run("to", 0, queue_flush([e EXCEPT !.sink = Last(e.sinks)]))
       \/ LET fresh == ~\E i \in DOMAIN e.sinks : e.sinks[i] = "other"
          IN Run("to", 0, queue_flush([e EXCEPT !.sinks = Opened(@, "other"),
                   !.sink = "other",
                   !.disk["other"] = IF fresh THEN <<>> ELSE @]))
    /\ single' = (single /\ e'.sink = e.psink)
    /\ UNCHANGED <<renumbered, saved>>
close_named_file ==                              \* CF, of a file not in use
    /\ \/ e.sink # "other"
          /\ Run("close", 0, [e EXCEPT !.sinks = SelectSeq(@, LAMBDA n : n # "other")])
       \/ e.source # "second"
          /\ Run("close", 0, [e EXCEPT !.sources = SelectSeq(@, LAMBDA n : n # "second")])
    /\ Quiet
push_command_file == e.level < CommandDepth
    /\ Run("command", 0, [e EXCEPT !.level = @ + 1]) /\ Quiet

\* ---- Ending.  Q inside a command file only ends that file.

Q == e.level > 0 /\ Run("command", 0, [e EXCEPT !.level = @ - 1]) /\ Quiet

Text(ed) ==
    LET ids(lines) == [i \in DOMAIN lines |-> lines[i].id]
        hand == ids(ed.queue) \o <<ed.cur.id>> \o ids(ed.ahead)
        unread == SubSeq(ed.disk[ed.source], ed.pos[ed.source] + 1,
                         Len(ed.disk[ed.source]))
    IN IF ed.phase # "edit" THEN ed.out
       ELSE ed.out \o SelectSeq(hand, LAMBDA id : id # 0) \o unread

W == /\ e.phase = "edit"
     /\ \E d \in {drain_source(e)} :
           e' = Tidy([d EXCEPT !.phase = IF d.psink \notin Work THEN "saved"
                                         ELSE IF d.to THEN "move" ELSE "backup",
                               !.disk["backup"] = IF d.psink \in Work /\ ~d.to
                                                  THEN Gone ELSE @,
                               !.disk["to"] = IF d.psink \in Work /\ d.to
                                              THEN Gone ELSE @])
     /\ cmd' = [do |-> "save", n |-> 0] /\ saved' = Text(e)
     /\ UNCHANGED <<single, renumbered, commands>>
STOP == /\ e.phase = "edit"
        /\ e' = Tidy([queue_flush(e) EXCEPT !.phase = "stopped"])
        /\ cmd' = [do |-> "stop", n |-> 0]
        /\ UNCHANGED <<single, renumbered, saved, commands>>

\* What move_file can leave: moved, or the copy failed with part of it made.
DeletesAnyway(disk, from, to) ==
    {[disk EXCEPT ![to] = disk[from], ![from] = Gone],
     [disk EXCEPT ![to] = <<>>, ![from] = Gone]}
move_file(disk, from, to) ==
    {[disk EXCEPT ![to] = disk[from], ![from] = Gone],
     [disk EXCEPT ![to] = <<>>], disk}
Finishing(from, to, next, failed) ==
    /\ \E disk \in move_file(e.disk, from, to) :
         e' = [e EXCEPT !.disk = disk,
                        !.phase = IF disk[from] = Gone THEN next ELSE failed]
    /\ UNCHANGED <<cmd, single, renumbered, saved, commands>>
make_backup ==
    \/ e.phase = "backup" /\ Finishing("from", "backup", "move", "beside")
    \/ e.phase = "beside" /\ Finishing("from", "beside", "move", "unkept")
    \/ /\ e.phase = "unkept"                     \* DeleteFile(source_name)
       /\ e' = [e EXCEPT !.disk["from"] = Gone, !.phase = "move"]
       /\ UNCHANGED <<cmd, single, renumbered, saved, commands>>
finish_saving ==
    e.phase = "move"
    /\ Finishing(e.psink, IF e.to THEN "to" ELSE "from", "saved", "unsaved")

Next ==
    \/ N \/ P \/ command_move \/ command_find \/ command_delete \/ Insert
    \/ Split \/ Join \/ Halt \/ Renumber \/ command_global
    \/ command_global_state \/ Rewind \/ command_from \/ command_to
    \/ close_named_file \/ push_command_file \/ Q \/ W \/ STOP
    \/ make_backup \/ finish_saving
Spec == Init /\ [][Next]_vars

\* ---- Properties

InHand == {e.queue[i] : i \in DOMAIN e.queue} \cup {e.cur}
            \cup {e.ahead[i] : i \in DOMAIN e.ahead}

TypeOK ==
    /\ Len(e.queue) <= Depth /\ e.level \in 0..CommandDepth
    /\ e.source \in Name /\ e.sink \in Name
    /\ \A l \in InHand : l.id \in Nat /\ l.num \in Nat /\ l.ph \in BOOLEAN
    /\ e.phase \in {"edit", "backup", "beside", "unkept", "move",
                    "saved", "unsaved", "stopped"}
    /\ {single, renumbered} \subseteq BOOLEAN

Without(s, i) == SubSeq(s, 1, i - 1) \o SubSeq(s, i + 1, Len(s))
Before(ed) == Len(ed.out) + Len(SelectSeq(ed.queue, LAMBDA l : ~l.ph))
Cut(s, at, k) == SubSeq(s, 1, at) \o SubSeq(s, at + k + 1, Len(s))

\* What each command does to the text as a whole.
ChangesItsLines ==
    e.phase = "edit" /\ single' /\ cmd'.do # "stop" =>
      LET T == Text(e)
          TT == Text(e')
          b == Before(e')
          cut == {Cut(T, b, k) : k \in 0..Len(T)}
      IN CASE cmd'.do = "insert" -> Without(TT, b) = T
           [] cmd'.do = "split" -> Without(TT, b + 1) = T
           [] cmd'.do = "join" -> TT = T \/ TT = Without(T, b + 2)
           [] cmd'.do = "delete" -> TT \in cut
           [] cmd'.do = "replace" -> Without(TT, b) = Cut(T, b - 1, 1)
           [] OTHER -> TT = T

\* The text is what was written, what the queue holds, the current line, what
\* was moved back over and what has not been read.  However queue and stack
\* turn lines over, a command that moves, searches, types, rewinds or saves
\* leaves that text alone, and one that changes it does so at the current line
\* only: I puts its line just before it, D takes lines away from there on, SA
\* and SB part it, C,L takes the next one in.
EditsTheText == [][ChangesItsLines]_vars

\* What a command that goes to a numbered line must do.
FindsIt ==
    /\ cmd'.do = "goto" /\ single /\ ~renumbered /\ e.ceiling = 0
    /\ commands' # commands
    /\ \/ \E l \in InHand : l.num = cmd'.n
       \/ cmd'.n \in
            e.nextno[e.source]..(e.nextno[e.source] + Len(e.disk[e.source])
                                   - e.pos[e.source] - 1)
    => e'.cur.num = cmd'.n

\* M finds the line it is told: a line with that number that is still in the
\* buffer or yet to be read becomes current, from wherever the editor stands
\* and however many lines without a number it stands among.
FindsNumberedLine == [][FindsIt]_vars

\* A global change is made once to a line, however often the editor moves back
\* over it and forward again.
GlobalsOnce == \A l \in InHand : IsInjective(l.g)

\* Until the work is finished the file being edited is as it was, whatever was
\* rewound, and what W was told to save is in some file at every step after.
WorkNeverLost ==
    /\ e.phase \in {"edit", "stopped"} => e.disk["from"] = Original
    /\ e.phase \notin {"edit", "stopped"} /\ single =>
           \E n \in Name : e.disk[n] = saved

\* "losing the original would be worse than keeping it elsewhere": when Edit
\* ends, the file it started from is still in some file.
OriginalKept ==
    e.phase \in {"saved", "unsaved", "stopped"} =>
        \E n \in Name : e.disk[n] = Original

\* A new global applies "to every line reached afterwards".
GlobalsReachLines ==
    /\ e.phase = "edit" /\ ~Nothing(e.cur) /\ ~e.cur.ph /\ e.cur.id < 20 =>
        \A i \in DOMAIN e.globals :
            e.globals[i].on => \E j \in DOMAIN e.cur.g : e.cur.g[j] = e.globals[i].id
=============================================================================
