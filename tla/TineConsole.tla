----------------------------- MODULE TineConsole -----------------------------
(***************************************************************************)
(* TINE's terminal layer (tools/tine/tine_console.c): the keys it decodes  *)
(* from the bytes of the console, the size it asks the console for, and    *)
(* the screen it keeps a copy of so that it only writes what changed.      *)
(*                                                                         *)
(* The same byte stream carries what is typed, the console's resize        *)
(* reports and its answers to the size query, in the order the console     *)
(* produced them.  The console writes each of them whole; a read that      *)
(* times out is one that finds the stream empty.  On a host terminal a     *)
(* resize is a signal instead and the size is read from the terminal.      *)
(* A byte is a token, a size is one digit token ("9" stands for the 24 by  *)
(* 80 the code falls back to), and the screen is the document's row and    *)
(* the command row of Cols cells each.                                     *)
(***************************************************************************)
EXTENDS Integers, Sequences, FiniteSets, SequencesExt

CONSTANTS
    Sizes,      \* the sizes the window may take, as digit tokens
    Keys,       \* the keys that may be pressed
    Cols,
    MaxKeys, MaxResizes

VARIABLES
    ace,        \* an ACE console, or a host terminal
    console,    \* the size of the window
    inq,        \* the bytes waiting to be read
    asked,      \* how many size queries the console has not answered
    events,     \* the console reports resizes
    resized,    \* the flag the signal handler sets
    pc,         \* "asked": update_size reads; "top", "select": wget_wch
    up,         \* tine_init has finished
    size,       \* the size the editor draws for
    pending,    \* pending_byte, or "none"
    keys, got,  \* the keys pressed, and the keys decoded
    swallowed,  \* update_size took something else for its answer
    unreported, \* the window was resized while its reports were off
    cells, shown, force,   \* a window's cells, the copy of the screen, redraw it all
    screen,     \* what the terminal shows
    fouled,     \* something else has written on the screen
    resizes,
    draws       \* how many keys have been acted on

input == <<ace, console, inq, asked, events, resized, pc, up, size, pending, keys, got,
           swallowed, unreported>>
output == <<cells, shown, force, screen, fouled>>
vars == <<input, output, resizes, draws>>

-----------------------------------------------------------------------------
(* The bytes of the console. *)

Standard == "9"
Digits == Sizes \cup {"0", "1", "2", "4", Standard}

Report == <<"CSI", "1", "2", ";", "0", "|">>
Reply(s) == <<"CSI", "1", ";", "1", ";", s, ";", s, " ", "r">>

\* A function key is a number without an end; insert is 40; the arrows end in
\* a letter; a host terminal spells insert with a tilde.
Bytes(k) ==
    CASE k = "up"     -> <<"CSI", "A">>
      [] k = "f1"     -> <<"CSI", "0">>
      [] k = "insert" -> IF ace THEN <<"CSI", "4", "0">> ELSE <<"ESC", "[", "2", "~">>
      [] k = "escape" -> <<"ESC">>
      [] OTHER        -> <<k>>

special_sequence(s) ==
    CASE s = <<"A">>                              -> "up"
      [] s = <<"0">>                              -> "f1"
      [] s \in {<<"4", "0">>, <<"2", "~">>}       -> "insert"
      [] OTHER                                    -> "escape"

\* How many bytes of q, whose first is a digit, belong to the report: digits
\* and semicolons, up to a tilde or bar; and, when it may be a late answer to
\* the size query, blanks, up to its r.
Inside(q, i) ==
    \/ q[i] \in Digits \cup {";"}
    \/ q[1] = "1" /\ q[i] = " "
Ends(q, i) ==
    \/ q[1] = "1" /\ q[i] = "r"
    \/ q[i] = "~"
    \/ q[i] = "|" /\ \E k \in 1..(i - 1) : q[k] = ";"

NumberLength(q) ==
    LET whole == {n \in 1..Len(q) : \A i \in 2..n : Inside(q, i) \/ (i = n /\ Ends(q, i))}
    IN CHOOSE n \in whole : \A m \in whole : m <= n

\* read_special: the bytes after the introducer, what they mean, what is left,
\* and the byte read too far.  The ordinary character that ended a number is
\* the next read's.
Decoded(key, rest, kept) == [key |-> key, rest |-> rest, pending |-> kept]

read_sequence(q) ==
    IF q = <<>>
    THEN Decoded("escape", q, "none")
    ELSE IF q[1] \notin Digits
    THEN Decoded(special_sequence(<<q[1]>>), Tail(q), "none")
    ELSE LET n    == NumberLength(q)
             seq  == SubSeq(q, 1, n)
             over == n < Len(q) /\ ~(n > 1 /\ Ends(q, n))
             rest == SubSeq(q, n + 1 + (IF over THEN 1 ELSE 0), Len(q))
             kept == IF over THEN q[n + 1] ELSE "none"
         IN CASE \E s \in Digits : seq = Tail(Reply(s)) -> Decoded("none", rest, kept)
              [] seq = Tail(Report)                     -> Decoded("resize", rest, kept)
              [] OTHER                                  -> Decoded(special_sequence(seq), rest, kept)


read_special(first, q) ==
    IF first = "ESC" /\ (q = <<>> \/ q[1] # "[")
    THEN Decoded("escape", IF q = <<>> THEN q ELSE Tail(q), IF q = <<>> THEN "none" ELSE q[1])
    ELSE read_sequence(IF first = "ESC" THEN Tail(q) ELSE q)

\* One key off the stream, the byte read too far last time first.
wget_wch ==
    LET q     == (IF pending = "none" THEN <<>> ELSE <<pending>>) \o inq
        first == Head(q)
    IN IF first \in {"CSI", "ESC"} THEN read_special(first, Tail(q)) ELSE Decoded(first, Tail(q), "none")

-----------------------------------------------------------------------------
(* The screen. *)

Window == {"document", "command"}
Cell == {" ", "a"}
Row == [1..Cols -> Cell]
Empty == [c \in 1..Cols |-> " "]

\* A row is rewritten from its start to its last cell that differs from the
\* copy; the copy then is the row.
Differs(w, row, sh, f) == {c \in 1..Cols : f[w] \/ row[c] # sh[w][c]}

flush_window_row(w, row, sc, sh, f) ==
    LET D == Differs(w, row, sh, f)
    IN [c \in 1..Cols |-> IF \E x \in D : c <= x THEN row[c] ELSE sc[w][c]]

\* Redisplay the windows of W, whose cells are now those of "new".
Refreshed(W, new, sc, sh, f) ==
    /\ cells' = new
    /\ screen' = [w \in Window |-> IF w \in W THEN flush_window_row(w, new[w], sc, sh, f) ELSE sc[w]]
    /\ shown' = [w \in Window |-> IF w \in W THEN new[w] ELSE sh[w]]
    /\ force' = [w \in Window |-> f[w] /\ w \notin W]

Blank == [w \in Window |-> Empty]
All == [w \in Window |-> TRUE]
Unforced == [w \in Window |-> FALSE]

\* What forgetting the copy but not asking for a full redraw would do.
ForgetsOnly == Unforced

\* resize_window_storage: the copy is forgotten and all is to be redrawn.
resize_window_storage == All

-----------------------------------------------------------------------------
(* The console and its user. *)

Press(k) ==
    /\ Len(keys) < MaxKeys
    /\ keys' = Append(keys, k)
    /\ inq' = inq \o Bytes(k)
    /\ UNCHANGED <<ace, console, asked, events, resized, pc, up, size, pending, got, swallowed, unreported,
                   output, resizes, draws>>

\* The window changes size, by at least a character: the console may lay its
\* contents out anew, and reports it if it was asked to; a host terminal sends
\* a signal, which ends a select.
Resize(s) ==
    /\ resizes < MaxResizes
    /\ s # console
    /\ resizes' = resizes + 1
    /\ console' = s
    /\ inq' = IF ace /\ events THEN inq \o Report ELSE inq
    /\ resized' = (resized \/ ~ace)
    /\ pc' = IF ~ace /\ pc = "select" THEN "top" ELSE pc
    /\ screen' \in {screen, Blank}
    /\ fouled' = (fouled \/ screen' # screen)
    /\ unreported' = (unreported \/ (ace /\ ~events))
    /\ UNCHANGED <<ace, asked, events, up, size, pending, keys, got, swallowed,
                   cells, shown, force, draws>>

Answer ==
    /\ asked > 0
    /\ asked' = asked - 1
    /\ inq' = inq \o Reply(console)
    /\ UNCHANGED <<ace, console, events, resized, pc, up, size, pending, keys, got, swallowed, unreported,
                   output, resizes, draws>>

-----------------------------------------------------------------------------
(* The editor. *)

Init ==
    /\ ace \in BOOLEAN
    /\ console \in Sizes
    /\ inq = <<>> /\ pending = "none" /\ keys = <<>> /\ got = <<>>
    /\ asked = (IF ace THEN 1 ELSE 0) /\ up = ~ace /\ events = FALSE /\ resized = FALSE
    /\ pc = IF ace THEN "asked" ELSE "top"
    /\ size = IF ace THEN Standard ELSE console
    /\ swallowed = FALSE /\ unreported = FALSE
    /\ cells = Blank /\ shown = Blank /\ force = Unforced /\ screen = Blank
    /\ fouled = FALSE
    /\ resizes = 0 /\ draws = 0

\* The storage is made anew and the key handler redraws both windows; when the
\* editor starts it turns the reports on, asks for the size twice more without
\* waiting for the answers, and clears the screen.
Resized ==
    /\ up' = TRUE
    /\ pc' = "top"
    /\ events' = (events \/ (ace /\ ~up))
    /\ asked' = IF ace /\ ~up THEN asked + 2 ELSE asked
    /\ fouled' = FALSE
    /\ IF up
       THEN \E row \in Row : Refreshed(Window, [Blank EXCEPT !["document"] = row],
                                       screen, Blank, resize_window_storage)
       ELSE cells' = Blank /\ shown' = Blank /\ force' = Unforced /\ screen' = Blank
    /\ UNCHANGED <<ace, console, keys, got, unreported, resizes, draws>>

\* The bytes up to the next r, which update_size takes for the answer to its
\* query if the first introduces a sequence.
UpToR == CHOOSE n \in 1..Len(inq) : inq[n] = "r" /\ \A m \in 1..(n - 1) : inq[m] # "r"

\* What taking the size only when the editor starts would do.
SizeOnce(fit) == IF up \/ fit = {} THEN size ELSE CHOOSE s \in fit : TRUE

SizeSaid(fit) == IF fit = {} THEN Standard ELSE CHOOSE s \in fit : TRUE

ReadReply ==
    /\ pc = "asked" /\ inq # <<>> /\ inq[1] = "CSI"
    /\ \E i \in 1..Len(inq) : inq[i] = "r"
    /\ LET said == SubSeq(inq, 1, UpToR)
           fit  == {s \in Sizes : said = Reply(s)}
       IN /\ size' = SizeSaid(fit)
          /\ swallowed' = (swallowed \/ fit = {})
    /\ inq' = SubSeq(inq, UpToR + 1, Len(inq))
    /\ Resized
    /\ UNCHANGED <<resized, pending>>

\* Anything else ends the read, and is lost: two bytes if it was an escape.
ReadOther ==
    /\ pc = "asked" /\ inq # <<>> /\ inq[1] # "CSI"
    /\ inq[1] = "ESC" => Len(inq) > 1
    /\ inq' = IF inq[1] = "ESC" THEN Tail(Tail(inq)) ELSE Tail(inq)
    /\ size' = Standard
    /\ swallowed' = TRUE
    /\ Resized
    /\ UNCHANGED <<resized, pending>>

\* On a host terminal the flag of the signal handler is looked at before the
\* editor waits for a byte.
SeeResized ==
    /\ pc = "top" /\ resized
    /\ resized' = FALSE
    /\ size' = console
    /\ Resized
    /\ UNCHANGED <<inq, pending, swallowed>>

Select ==
    /\ pc = "top" /\ ~resized
    /\ pc' = "select"
    /\ UNCHANGED <<ace, console, inq, asked, events, resized, up, size, pending, keys, got, swallowed, unreported,
                   output, resizes, draws>>

\* A key is read.  A resize report makes update_size ask for the size; an
\* answer that comes too late is dropped.
GetKey ==
    /\ pc = "select" /\ (inq # <<>> \/ pending # "none")
    /\ \E k \in {wget_wch} :
          /\ inq' = k.rest
          /\ pending' = k.pending
          /\ asked' = IF k.key = "resize" THEN asked + 1 ELSE asked
          /\ pc' = IF k.key = "resize" THEN "asked" ELSE "top"
          /\ got' = IF k.key \in {"resize", "none"} THEN got ELSE Append(got, k.key)
    /\ UNCHANGED <<ace, console, events, resized, up, size, keys, swallowed, unreported,
                   output, resizes, draws>>

\* A command changed what a window shows.
Redisplay(w, row) ==
    /\ pc = "top" /\ draws < Len(got)
    /\ draws' = draws + 1
    /\ Refreshed({w}, [cells EXCEPT ![w] = row], screen, shown, force)
    /\ UNCHANGED <<input, fouled, resizes>>

\* VW redraws both windows whole.
redrawwin ==
    /\ pc = "top" /\ draws < Len(got)
    /\ draws' = draws + 1
    /\ Refreshed(Window, cells, screen, shown, All)
    /\ fouled' = FALSE
    /\ UNCHANGED <<input, resizes>>

\* DO: endwin turns the reports off, the command writes over the screen, and
\* refresh goes back to raw mode and redisplays what differs from the copy.
endwin ==
    /\ pc = "top" /\ draws < Len(got)
    /\ draws' = draws + 1
    /\ events' = FALSE
    /\ \E sc \in {Blank, [w \in Window |-> [c \in 1..Cols |-> "a"]]} :
          Refreshed({"document"}, cells, sc, shown, force)
    /\ fouled' = TRUE
    /\ UNCHANGED <<ace, console, inq, asked, resized, pc, up, size, pending, keys, got, swallowed,
                   unreported, resizes>>

Next ==
    \/ \E k \in Keys : Press(k)
    \/ \E s \in Sizes : Resize(s)
    \/ Answer
    \/ ReadReply
    \/ ReadOther
    \/ SeeResized
    \/ Select
    \/ GetKey
    \/ \E w \in Window, row \in Row : Redisplay(w, row)
    \/ redrawwin
    \/ endwin

Spec == Init /\ [][Next]_vars

FairSpec ==
    /\ Spec
    /\ WF_vars(Answer)
    /\ WF_vars(ReadReply \/ ReadOther \/ SeeResized \/ Select \/ GetKey)

-----------------------------------------------------------------------------
(* Properties. *)

TypeOK ==
    /\ pc \in {"asked", "top", "select"}
    /\ console \in Sizes /\ size \in Sizes \cup {Standard}
    /\ ace \in BOOLEAN /\ asked \in 0..(3 + MaxResizes) /\ events \in BOOLEAN /\ resized \in BOOLEAN
    /\ up \in BOOLEAN /\ swallowed \in BOOLEAN /\ unreported \in BOOLEAN /\ fouled \in BOOLEAN
    /\ cells \in [Window -> Row] /\ shown \in [Window -> Row] /\ screen \in [Window -> Row]
    /\ resizes \in 0..MaxResizes /\ draws \in 0..MaxKeys

\* The editor gets the keys that were pressed, in that order: a report of
\* any length, a late answer to the size query and the character typed right
\* after a function key neither swallow nor invent one.  A key taken for the
\* answer to the size query is the one exception.
KeysInOrder == swallowed \/ IsPrefix(got, keys)

\* Where the copy says nothing changed, the screen shows the copy: a cell that
\* is not written again is already right.  After a resize or a command that
\* wrote on the screen it holds from the next full redraw.
CopyIsTheScreen == \A w \in Window : fouled \/ force[w] \/ screen[w] = shown[w]

\* Once the console is quiet, and was never resized unreported, the editor draws for the
\* size the window has, unless something else was taken for the answer.
Quiet == pc # "asked" /\ asked = 0 /\ inq = <<>> /\ pending = "none" /\ ~resized
SizeIsTheConsoles == Quiet /\ up /\ ~swallowed /\ ~unreported => size = console

\* The same whatever comes while update_size asks.  The console reports a
\* resize once per character grid to keep a second report from landing in the
\* answer's place.
ConsoleIsTheTruth == Quiet /\ up /\ ~unreported => size = console
=============================================================================
