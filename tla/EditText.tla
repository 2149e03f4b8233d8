------------------------------ MODULE EditText ------------------------------
(***************************************************************************)
(* Edit (src/edit.c): the text of the current line, the line window whose  *)
(* start is `pointer', and the commands that search and change it, alone,  *)
(* repeated with ' and as global changes.  A character is a letter with a  *)
(* case; offsets count from 0 as in the code.                              *)
(***************************************************************************)
EXTENDS Integers, Sequences, SequencesExt, FiniteSetsExt

CONSTANTS Texts,      \* lines to edit
          Finds,      \* strings to search for
          Withs,      \* strings to put in
          Capacity,   \* the longest line
          MaxSteps

Lower == <<"a", "b", "_">>
Upper == <<"A", "B", "_">>
upper_case(c) == IF \E i \in 1..3 : Lower[i] = c
                 THEN Upper[CHOOSE i \in 1..3 : Lower[i] = c] ELSE c
lower_case(c) == IF \E i \in 1..3 : Upper[i] = c
                 THEN Lower[CHOOSE i \in 1..3 : Upper[i] = c] ELSE c

\* ---- The line

\* A mutated Fits: one character too many.
FitsOneMore(line, text) == Len(line) + Len(text) <= Capacity + 1
Fits(line, text) == Len(line) + Len(text) <= Capacity
line_insert(line, at, text) == SubSeq(line, 1, at) \o text
                                 \o SubSeq(line, at + 1, Len(line))
line_delete(line, at, count) ==
    IF at >= Len(line) \/ count <= 0 THEN line
    ELSE SubSeq(line, 1, at) \o SubSeq(line, at + count + 1, Len(line))

text_at(line, at, text, q) ==
    \A i \in DOMAIN text :
        IF "U" \in q THEN upper_case(line[at + i]) = upper_case(text[i])
        ELSE line[at + i] = text[i]

\* The loop of line_find, from `index' on; `found' is the last match so far.
RECURSIVE KeepsLooking(_, _, _, _, _, _), FindFrom(_, _, _, _, _, _)
KeepsLooking(line, from, index, text, q, found) ==
    IF index + Len(text) > Len(line) THEN found
    ELSE IF \/ ~text_at(line, index, text, q)
            \/ "B" \in q /\ index # from
            \/ "E" \in q /\ index + Len(text) # Len(line) /\ "L" \notin q
    THEN KeepsLooking(line, from, index + 1, text, q, found)
    ELSE IF "L" \notin q THEN index
    ELSE KeepsLooking(line, from, index + 1, text, q, index)
FindFrom(line, from, index, text, q, found) ==
    IF index + Len(text) > Len(line) THEN found
    ELSE IF ~text_at(line, index, text, q)
    THEN FindFrom(line, from, index + 1, text, q, found)
    ELSE IF "B" \in q /\ index # from THEN found
    ELSE IF "E" \in q /\ index + Len(text) # Len(line)
    THEN FindFrom(line, from, index + 1, text, q, found)
    ELSE IF "L" \notin q THEN index
    ELSE FindFrom(line, from, index + 1, text, q, index)
line_find(line, from, text, q) ==
    IF text = <<>> \/ from < 0 THEN -1 ELSE FindFrom(line, from, from, text, q, -1)

\* One change at `at': the new line, and where the window or the scan goes on.
Change(type, line, at, find, with) ==
    CASE type = "A" -> [line |-> line_insert(line, at + Len(find), with),
                        next |-> at + Len(find) + Len(with)]
      [] type = "B" -> [line |-> line_insert(line, at, with),
                        next |-> at + Len(with) + Len(find)]
      [] type = "E" -> [line |-> line_insert(line_delete(line, at, Len(find)), at, with),
                        next |-> at + Len(with)]

\* apply_globals, for one global change.  E has taken its string out already
\* when the new one does not fit.
RECURSIVE Rescans(_, _, _, _, _), apply_global(_, _, _, _, _)
Rescans(type, line, at, find, with) ==
    LET m == line_find(line, at, find, {})
    IN IF m < 0 \/ ~Fits(line, with) THEN line
       ELSE Rescans(type, Change(type, line, m, find, with).line, m + 1, find, with)
apply_global(type, line, at, find, with) ==
    LET m == line_find(line, at, find, {})
        base == IF type = "E" THEN line_delete(line, m, Len(find)) ELSE line
        c == Change(type, line, m, find, with)
    IN IF m < 0 THEN line
       ELSE IF ~Fits(base, with) THEN base
       ELSE apply_global(type, c.line, c.next, find, with)

\* ---- The window and the commands on it

VARIABLES line, pointer, steps, saved, original, global
vars == <<line, pointer, steps, saved, original, global>>

NoChange == [type |-> "none", find |-> <<>>, with |-> <<>>, move |-> FALSE]
Init == /\ line \in Texts /\ original = line /\ pointer = 0 /\ steps = 0
        /\ saved = NoChange /\ global = NoChange

Step == steps < MaxSteps /\ steps' = steps + 1
Kept == UNCHANGED <<saved, original, global>>

\* A, B and E, with and without ,P; ' runs the saved one again.
Changed(c) ==
    LET m == line_find(line, pointer, c.find, {})
        base == IF c.type = "E" THEN line_delete(line, m, Len(c.find)) ELSE line
        done == Change(c.type, line, m, c.find, c.with)
    IN IF m < 0 THEN UNCHANGED <<line, pointer>>
       ELSE IF ~Fits(base, c.with) THEN line' = base /\ UNCHANGED pointer
       ELSE line' = done.line /\ pointer' = IF c.move THEN done.next ELSE pointer
command_change ==
    /\ Step
    /\ \E type \in {"A", "B", "E"}, find \in Finds, with \in Withs, move \in BOOLEAN :
         LET c == [type |-> type, find |-> find, with |-> with, move |-> move]
         IN Changed(c) /\ saved' = c
    /\ UNCHANGED <<original, global>>
repeat_saved == Step /\ saved # NoChange /\ Changed(saved) /\ Kept

FromTheLineStart(at, from) == IF from THEN line_delete(line, at, Len(line))
                              ELSE line_delete(line, 0, at)
Cleared(at, from) == IF from THEN line_delete(line, at, Len(line))
                     ELSE line_delete(line, pointer, at - pointer)
command_delete_window ==                           \* D,T,A D,T,B D,F,A D,F,B
    /\ Step /\ Kept
    /\ \E find \in Finds, from \in BOOLEAN, after \in BOOLEAN :
         LET m == line_find(line, pointer, find, {})
             at == IF after THEN m + Len(find) ELSE m
         IN /\ m >= 0
            /\ line' = Cleared(at, from)
    /\ UNCHANGED pointer
command_pointer_string ==                          \* P,A and P,B; P,R
    /\ Step /\ Kept /\ UNCHANGED line
    /\ \/ \E find \in Finds, after \in BOOLEAN :
            LET m == line_find(line, pointer, find, {})
            IN /\ m >= 0
               /\ pointer' = IF after THEN m + Len(find) ELSE m
       \/ pointer' = 0

\* > < $ % _ and #: the window moves, or what is under it changes.
Shift == /\ Step /\ Kept /\ UNCHANGED line
         /\ \/ pointer < Capacity + 1 /\ pointer' = pointer + 1
            \/ pointer' = IF pointer = 0 THEN 0 ELSE pointer - 1
Recase ==
    /\ Step /\ Kept
    /\ IF pointer >= Len(line) THEN UNCHANGED <<line, pointer>>
       ELSE /\ \E c \in {lower_case(line[pointer + 1]), upper_case(line[pointer + 1]),
                         "_"} :
                 line' = [line EXCEPT ![pointer + 1] = c]
            /\ pointer' = pointer + 1
Hash == /\ Step /\ Kept /\ UNCHANGED pointer
        /\ line' = line_delete(line, pointer, 1)

\* S,A and S,B leave the tail current; C,L puts the next line on the end.
command_split ==
    /\ Step /\ Kept
    /\ \E find \in Finds, after \in BOOLEAN :
         LET m == line_find(line, pointer, find, {})
             at == IF after THEN m + Len(find) ELSE m
         IN m >= 0 /\ line' = SubSeq(line, at + 1, Len(line))
    /\ pointer' = 0
command_join ==
    /\ Step /\ Kept
    /\ \E next \in Texts : Fits(line, next) /\ line' = line \o next
    /\ pointer' = 0

\* A line arrives and the globals see it.
Arrive ==
    /\ Step /\ pointer' = 0 /\ UNCHANGED saved
    /\ \E next \in Texts, type \in {"A", "B", "E"}, find \in Finds, with \in Withs :
         /\ original' = next
         /\ global' = [type |-> type, find |-> find, with |-> with, move |-> FALSE]
         /\ line' = apply_global(type, next, 0, find, with)

Next == \/ command_change \/ repeat_saved \/ command_delete_window
        \/ command_pointer_string \/ Shift \/ Recase \/ Hash
        \/ command_split \/ command_join \/ Arrive
Spec == Init /\ [][Next]_vars

\* ---- Properties

TypeOK == /\ Len(line) <= Capacity /\ pointer \in Nat /\ steps \in 0..MaxSteps

Qualifiers == SUBSET {"B", "E", "L", "U"}
Matches(text, from, find, q) ==
    {i \in from..(Len(text) - Len(find)) :
        /\ text_at(text, i, find, q)
        /\ "B" \in q => i = from
        /\ "E" \in q => i + Len(find) = Len(text)}

\* A qualified string finds what the qualifiers say: among the places where
\* the text stands that satisfy B and E, the first, or with L the last.
QualifiersMeanWhatTheySay ==
    \A find \in Finds, q \in Qualifiers :
        line_find(line, pointer, find, q) =
            LET m == Matches(line, pointer, find, q)
            IN IF m = {} THEN -1 ELSE IF "L" \in q THEN Max(m) ELSE Min(m)

\* The occurrences a scan from the left meets, none inside an earlier one.
Occurrences(text, find) ==
    LET all == Matches(text, 0, find, {})
        taken[i \in -1..Len(text)] ==
            IF i < 0 THEN {}
            ELSE LET before == taken[i - 1]
                 IN IF i \in all /\ \A j \in before : j + Len(find) <= i
                    THEN before \cup {i} ELSE before
    IN taken[Len(text)]
\* A global change made at every occurrence of the line that arrived, read
\* from the back so that no offset moves.
AtEvery(text, g) ==
    FoldSeq(LAMBDA at, acc : Change(g.type, acc, at, g.find, g.with).line, text,
            SetToSortSeq(Occurrences(text, g.find), LAMBDA x, y : x < y))

\* A line reached under a global is the line with every occurrence changed.
ReachesEveryOccurrence ==
    global' # NoChange /\ steps' # steps /\ global' # global =>
      LET room == Len(original') + Cardinality(Occurrences(original', global'.find))
                                     * Len(global'.with)
      IN room <= Capacity => line' = AtEvery(original', global')

\* A global change reaches every occurrence in the line that arrived once, and
\* never the text it put in itself, so it ends whatever it puts in.
GlobalsReachEveryOccurrence == [][ReachesEveryOccurrence]_vars

\* A change leaves what is before the window as it was.
KeepsBefore ==
    line' # line /\ original' = original /\ pointer' >= pointer =>
      LET before == SubSeq(line, 1, pointer)
      IN pointer <= Len(line) =>
             pointer <= Len(line') /\ SubSeq(line', 1, pointer) = before

\* What lies before the line window is out of the reach of every command that
\* works in the window, a repeated one included.
BeforeTheWindowIsKept == [][KeepsBefore]_vars
=============================================================================
