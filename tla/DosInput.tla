------------------------------ MODULE DosInput ------------------------------
(***************************************************************************)
(* Where the bytes a program reads from its console come from (native_dos.c,*)
(* con_handler.c, native_console_endpoint.c, aros_console_editor.c).  One   *)
(* Input() stream is fed from four places: the argument line of the command *)
(* (`prefix'), the line the cooked editor has finished (`line'), the buffer *)
(* of the raw console handler (`held'), a character pushed back with        *)
(* ungetc() (`pushed'), and behind them the descriptor (`fd').  Which one a *)
(* read takes from depends on the mode the program has set.                 *)
(*                                                                         *)
(* A character is a pair <<number, kind>>: typed characters are numbered in *)
(* the order in which the user typed them, those of the argument line are   *)
(* numbered from ArgBase.                                                   *)
(***************************************************************************)
EXTENDS Integers, Sequences, FiniteSets, SequencesExt

CONSTANTS MaxTyped,      \* characters the user types
          Arguments,     \* characters of the argument line, its newline included
          MaxHeld,       \* sizeof(device_input): what one device read may bring
          Blocks,        \* sizes and counts of the blocks FRead() asks for
          Buffers,       \* sizes of the buffers FGets() fills
          Careful        \* TRUE: the program changes mode, or puts a character
                         \* back, only where no part of a line is waiting

VARIABLES typed, fd, prefix, line, held, pushed, raw, last, back, got

vars == <<typed, fd, prefix, line, held, pushed, raw, last, back, got>>

-----------------------------------------------------------------------------
ArgBase == 100
Nothing == <<0, "none">>
IsNewline(c) == c[2] = "newline"
Typed(n, k) == <<n, k>>
ArgumentLine ==
    [i \in 1 .. Arguments |->
        <<ArgBase + i, IF i = Arguments THEN "newline" ELSE "plain">>]

\* native_load_input_prefix: a command with no arguments still finds the newline
Init ==
    /\ typed = 0 /\ fd = <<>>
    /\ prefix = ArgumentLine
    /\ line = <<>> /\ held = <<>> /\ pushed = <<>>
    /\ raw = FALSE /\ last = Nothing /\ back = Nothing /\ got = <<>>

-----------------------------------------------------------------------------
(* The user at the keyboard; the GUI writes into the console's socket.      *)
Type(k) ==
    /\ typed < MaxTyped
    /\ typed' = typed + 1
    /\ fd' = Append(fd, Typed(typed + 1, k))
    /\ UNCHANGED <<prefix, line, held, pushed, raw, last, back, got>>

-----------------------------------------------------------------------------
(* The stdio stream over the descriptor: what ungetc() pushed back is read  *)
(* before the descriptor.                                                   *)
Stdio == pushed \o fd

TakeStdio(n) ==
    /\ pushed' = SubSeq(pushed, n + 1, Len(pushed))
    /\ fd' = SubSeq(fd, n - Min({n, Len(pushed)}) + 1, Len(fd))

\* native_editor_next_char: feeds the editor key by key until a line is done;
\* where the line that holds the n-th key ends, 0 while that line is not done
EditorLine(n) ==
    LET ends == {i \in DOMAIN Stdio : i >= n /\ IsNewline(Stdio[i])}
    IN  IF ends = {} THEN 0 ELSE Min(ends)

\* native_input_getc: the argument line, then the editor's line, then the keys
LastLine == LET ends == {i \in DOMAIN Stdio : IsNewline(Stdio[i])}
            IN  IF ends = {} THEN 0 ELSE Max(ends)
Cooked == prefix \o line \o SubSeq(Stdio, 1, LastLine)

\* n calls of native_input_getc: what the editor had of a line and the reader
\* did not ask for is left in the line
native_input_getc(n) ==
    LET p == Min({n, Len(prefix)})
        l == Min({n - p, Len(line)})
        k == n - p - l
    IN  /\ prefix' = SubSeq(prefix, p + 1, Len(prefix))
        /\ line' = IF k = 0 THEN SubSeq(line, l + 1, Len(line))
                   ELSE SubSeq(Stdio, k + 1, EditorLine(k))
        /\ TakeStdio(IF k = 0 THEN 0 ELSE EditorLine(k))
        /\ got' = got \o SubSeq(Cooked, 1, n)
        /\ back' = Nothing
        /\ UNCHANGED <<typed, held, raw>>

FGetCCooked ==
    /\ ~raw
    /\ Len(Cooked) >= 1
    /\ native_input_getc(1)
    /\ last' = Last(got')

\* Read() of n characters of a cooked console waits for all of them
ReadCooked(n) ==
    /\ ~raw
    /\ Len(Cooked) >= n
    /\ native_input_getc(n)
    /\ last' = last

\* FGets() into a buffer of n: up to the newline, or until the buffer has one
\* place left for the NUL
LineOf(s, n) ==
    LET ends == {i \in DOMAIN s : IsNewline(s[i]) /\ i < n}
    IN  IF ends # {} THEN Min(ends) ELSE n - 1

FGetsCooked(n) == n > 1 /\ ReadCooked(LineOf(Cooked, n))

\* a raw read that forgets what it did not hand over, for comparison
DropsRest(n) ==
    LET count == Min({MaxHeld, Len(fd)})
    IN  /\ count > 0
        /\ held' = <<>>
        /\ fd' = SubSeq(fd, count + 1, Len(fd))
        /\ got' = got \o SubSeq(fd, 1, Min({n, count}))

\* what one device read brings: all there is, up to the size of the buffer
endpoint_read == Min({MaxHeld, Len(fd)})

\* Read() and FGetC() on a raw console: the endpoint's handler, never stdio
amiga_con_handler_Read(n) ==
    LET count == endpoint_read
        all   == IF held # <<>> THEN held ELSE SubSeq(fd, 1, count)
        take  == Min({n, Len(all)})
    IN  /\ all # <<>>
        /\ held' = SubSeq(all, take + 1, Len(all))
        /\ fd' = IF held # <<>> THEN fd ELSE SubSeq(fd, count + 1, Len(fd))
        /\ got' = got \o SubSeq(all, 1, take)

ReadRaw(n) ==
    /\ raw
    /\ amiga_con_handler_Read(n)
    /\ back' = Nothing
    /\ UNCHANGED <<typed, prefix, line, pushed, raw, last>>

FGetCRaw ==
    /\ raw
    /\ amiga_con_handler_Read(1)
    /\ last' = Last(got')
    /\ back' = Nothing
    /\ UNCHANGED <<typed, prefix, line, pushed, raw>>

\* FRead() asks Read() for all the blocks at once
FRead(size, count) == ReadCooked(size * count) \/ ReadRaw(size * count)

\* FGets() of a raw console: Read() of one character at a time, each of which
\* may bring a device buffer full
FGetsRaw(n) ==
    LET take == LineOf(held \o fd, n)
        need == take - Len(held)
    IN  /\ raw /\ n > 1 /\ Len(held \o fd) >= take
        /\ \E brought \in IF need <= 0 THEN {0}
                          ELSE need .. Min({Len(fd), need + MaxHeld - 1}) :
              /\ held' = SubSeq(held \o SubSeq(fd, 1, brought), take + 1,
                                Len(held) + brought)
              /\ fd' = SubSeq(fd, brought + 1, Len(fd))
        /\ got' = got \o SubSeq(held \o fd, 1, take)
        /\ back' = Nothing
        /\ UNCHANGED <<typed, prefix, line, pushed, raw, last>>

-----------------------------------------------------------------------------
\* UnGetC(handle, -1): the record of the last character read, and ungetc()
UnGetC ==
    /\ last # Nothing
    /\ Len(pushed) + Len(got) <= MaxTyped + Arguments
    /\ Careful => ~raw /\ prefix = <<>> /\ line = <<>> /\ got # <<>> /\ Last(got) = last
    /\ pushed' = <<last>> \o pushed
    /\ got' = IF got # <<>> /\ Last(got) = last THEN Front(got) ELSE got
    /\ back' = last
    /\ last' = Nothing
    /\ UNCHANGED <<typed, fd, prefix, line, held, raw>>

\* SetMode sets the handler's mode and the channel's together
SetMode(r) ==
    /\ raw # r
    /\ Careful => line = <<>> /\ held = <<>> /\ pushed = <<>>
    /\ raw' = r
    /\ UNCHANGED <<typed, fd, prefix, line, held, pushed, last, back, got>>

\* WaitForChar(handle, 0)
WaitForCharCountsPrefix ==
    prefix # <<>> \/ line # <<>> \/ fd # <<>>
WaitForChar ==
    \/ ~raw /\ prefix # <<>>
    \/ line # <<>>
    \/ fd # <<>>

Next ==
    \/ \E k \in {"plain", "newline"} : Type(k)
    \/ FGetCCooked
    \/ \E size, count \in Blocks : FRead(size, count)
    \/ FGetCRaw
    \/ \E n \in Buffers : FGetsCooked(n) \/ FGetsRaw(n)
    \/ \E n \in {1, MaxHeld} : ReadCooked(n) \/ ReadRaw(n)
    \/ UnGetC
    \/ \E r \in BOOLEAN : SetMode(r)

Spec == Init /\ [][Next]_vars

-----------------------------------------------------------------------------
TypeOK ==
    /\ typed \in 0 .. MaxTyped
    /\ raw \in BOOLEAN
    /\ Len(got) <= MaxTyped + Arguments

FromKeys(s) == SelectSeq(s, LAMBDA c : c[1] < ArgBase)
FromArguments(s) == SelectSeq(s, LAMBDA c : c[1] > ArgBase)

\* A program that changes mode only between lines receives the keys exactly
\* once and in the order they were typed, however its reads are split between
\* the cooked editor and the raw handler, and the argument line in one piece
\* (native_input_getc, amiga_con_handler_Read).
KeysInOrder ==
    /\ \A i \in DOMAIN FromKeys(got) : FromKeys(got)[i][1] = i
    /\ FromArguments(got \o pushed) \o prefix = ArgumentLine
    /\ Len(FromKeys(got)) + Len(line) + Len(held) + Len(FromKeys(Stdio)) = typed

\* A raw program that is told a character is waiting is not left to block in
\* the Read() that follows (the poll Vim makes before every screen update).
WaitedForIsThere == raw /\ WaitForChar => held # <<>> \/ fd # <<>>

\* native_dos.c:3270 "Bytes the cooked line editor has already pulled off the
\* descriptor are different: those are real console input, and Read() returns
\* them."  A raw Read() returns what is left of the editor's line first.
TypeAheadIsRead ==
    [][raw /\ line # <<>> /\ got' # got /\ Len(got') > Len(got) => line' # line]_vars

\* native_dos.c:4498 "-1 is AmigaDOS for "the character just read", which is how
\* readitem.c puts back the delimiter that ended an item": the next character
\* the program reads is the one it put back.
PutBackIsNext ==
    [][back # Nothing /\ Len(got') > Len(got) => got'[Len(got) + 1] = back]_vars
=============================================================================
