------------------------------ MODULE MCShells ------------------------------
(***************************************************************************)
(* BreakRouting and what a shell and the programs it runs are made of, one *)
(* component per behaviour, for TLC: results, scripts and the launch of    *)
(* shells (ShellResults, ShellScripts, ShellLaunch), DOS as a program sees *)
(* it (DosInput, DosLocks, DosScan), the terminal of a host program        *)
(* (LnxSupervisor, TerminalTranslate), and the editors (EditLines,         *)
(* EditText, EditSession, TineDocument, TineConsole).                      *)
(***************************************************************************)
EXTENDS BreakRouting

VARIABLES
    part,       \* the component this behaviour is of
    x1, x2, x3, x4, x5, x6, x7, x8, x9, x10, x11, x12, x13, x14, x15, x16,
    x17, x18, x19, x20, x21, x22, x23, x24, x25, x26, x27, x28, x29, x30,
    x31, x32, x33, x34, x35

\* The variables a component of fewer than k leaves unused.
Unused(k) ==
    /\ (IF k < 1 THEN x1 = 0 ELSE TRUE)
    /\ (IF k < 2 THEN x2 = 0 ELSE TRUE)
    /\ (IF k < 3 THEN x3 = 0 ELSE TRUE)
    /\ (IF k < 4 THEN x4 = 0 ELSE TRUE)
    /\ (IF k < 5 THEN x5 = 0 ELSE TRUE)
    /\ (IF k < 6 THEN x6 = 0 ELSE TRUE)
    /\ (IF k < 7 THEN x7 = 0 ELSE TRUE)
    /\ (IF k < 8 THEN x8 = 0 ELSE TRUE)
    /\ (IF k < 9 THEN x9 = 0 ELSE TRUE)
    /\ (IF k < 10 THEN x10 = 0 ELSE TRUE)
    /\ (IF k < 11 THEN x11 = 0 ELSE TRUE)
    /\ (IF k < 12 THEN x12 = 0 ELSE TRUE)
    /\ (IF k < 13 THEN x13 = 0 ELSE TRUE)
    /\ (IF k < 14 THEN x14 = 0 ELSE TRUE)
    /\ (IF k < 15 THEN x15 = 0 ELSE TRUE)
    /\ (IF k < 16 THEN x16 = 0 ELSE TRUE)
    /\ (IF k < 17 THEN x17 = 0 ELSE TRUE)
    /\ (IF k < 18 THEN x18 = 0 ELSE TRUE)
    /\ (IF k < 19 THEN x19 = 0 ELSE TRUE)
    /\ (IF k < 20 THEN x20 = 0 ELSE TRUE)
    /\ (IF k < 21 THEN x21 = 0 ELSE TRUE)
    /\ (IF k < 22 THEN x22 = 0 ELSE TRUE)
    /\ (IF k < 23 THEN x23 = 0 ELSE TRUE)
    /\ (IF k < 24 THEN x24 = 0 ELSE TRUE)
    /\ (IF k < 25 THEN x25 = 0 ELSE TRUE)
    /\ (IF k < 26 THEN x26 = 0 ELSE TRUE)
    /\ (IF k < 27 THEN x27 = 0 ELSE TRUE)
    /\ (IF k < 28 THEN x28 = 0 ELSE TRUE)
    /\ (IF k < 29 THEN x29 = 0 ELSE TRUE)
    /\ (IF k < 30 THEN x30 = 0 ELSE TRUE)
    /\ (IF k < 31 THEN x31 = 0 ELSE TRUE)
    /\ (IF k < 32 THEN x32 = 0 ELSE TRUE)
    /\ (IF k < 33 THEN x33 = 0 ELSE TRUE)
    /\ (IF k < 34 THEN x34 = 0 ELSE TRUE)
    /\ (IF k < 35 THEN x35 = 0 ELSE TRUE)
Still(k) ==
    /\ (IF k < 1 THEN UNCHANGED x1 ELSE TRUE)
    /\ (IF k < 2 THEN UNCHANGED x2 ELSE TRUE)
    /\ (IF k < 3 THEN UNCHANGED x3 ELSE TRUE)
    /\ (IF k < 4 THEN UNCHANGED x4 ELSE TRUE)
    /\ (IF k < 5 THEN UNCHANGED x5 ELSE TRUE)
    /\ (IF k < 6 THEN UNCHANGED x6 ELSE TRUE)
    /\ (IF k < 7 THEN UNCHANGED x7 ELSE TRUE)
    /\ (IF k < 8 THEN UNCHANGED x8 ELSE TRUE)
    /\ (IF k < 9 THEN UNCHANGED x9 ELSE TRUE)
    /\ (IF k < 10 THEN UNCHANGED x10 ELSE TRUE)
    /\ (IF k < 11 THEN UNCHANGED x11 ELSE TRUE)
    /\ (IF k < 12 THEN UNCHANGED x12 ELSE TRUE)
    /\ (IF k < 13 THEN UNCHANGED x13 ELSE TRUE)
    /\ (IF k < 14 THEN UNCHANGED x14 ELSE TRUE)
    /\ (IF k < 15 THEN UNCHANGED x15 ELSE TRUE)
    /\ (IF k < 16 THEN UNCHANGED x16 ELSE TRUE)
    /\ (IF k < 17 THEN UNCHANGED x17 ELSE TRUE)
    /\ (IF k < 18 THEN UNCHANGED x18 ELSE TRUE)
    /\ (IF k < 19 THEN UNCHANGED x19 ELSE TRUE)
    /\ (IF k < 20 THEN UNCHANGED x20 ELSE TRUE)
    /\ (IF k < 21 THEN UNCHANGED x21 ELSE TRUE)
    /\ (IF k < 22 THEN UNCHANGED x22 ELSE TRUE)
    /\ (IF k < 23 THEN UNCHANGED x23 ELSE TRUE)
    /\ (IF k < 24 THEN UNCHANGED x24 ELSE TRUE)
    /\ (IF k < 25 THEN UNCHANGED x25 ELSE TRUE)
    /\ (IF k < 26 THEN UNCHANGED x26 ELSE TRUE)
    /\ (IF k < 27 THEN UNCHANGED x27 ELSE TRUE)
    /\ (IF k < 28 THEN UNCHANGED x28 ELSE TRUE)
    /\ (IF k < 29 THEN UNCHANGED x29 ELSE TRUE)
    /\ (IF k < 30 THEN UNCHANGED x30 ELSE TRUE)
    /\ (IF k < 31 THEN UNCHANGED x31 ELSE TRUE)
    /\ (IF k < 32 THEN UNCHANGED x32 ELSE TRUE)
    /\ (IF k < 33 THEN UNCHANGED x33 ELSE TRUE)
    /\ (IF k < 34 THEN UNCHANGED x34 ELSE TRUE)
    /\ (IF k < 35 THEN UNCHANGED x35 ELSE TRUE)

pool == <<x1, x2, x3, x4, x5, x6, x7, x8, x9, x10, x11, x12, x13, x14, x15,
            x16, x17, x18, x19, x20, x21, x22, x23, x24, x25, x26, x27, x28,
            x29, x30, x31, x32, x33, x34, x35>>
allvars == <<part, vars, pool>>

\* Lines of a shell script: commands, If, Execute of a numbered script, Quit.
Line(d, k) == [do |-> d, n |-> k]
ScriptLines ==
    {Line("cmd", 1), Line("if", 1), Line("exec", 1), Line("exec", 2), Line("quit", 0)}
ExecuteScripts ==
    <<<<Line("cmd", 2), Line("if", 1)>>, <<Line("cmd", 3), Line("exec", 1)>>>>

\* What a program writes: text in and out of ASCII, renditions longer and
\* shorter than the translator's tables, moves, modes and strings; and keys.
Item(k, p, f) == [k |-> k, p |-> p, f |-> f]
Sgr(p) == Item("csi", p, 109)
Output ==
    {Item("text", <<t>>, 0) : t \in {97, 233, 8230, 155}}
      \cup {Item("raw", <<226, 155>>, 0)}
      \cup {Sgr(<<>>), Sgr(<<0, 1>>), Sgr(<<1>>), Sgr(<<22, 4>>), Sgr(<<91>>),
            Sgr(<<90, 102>>), Sgr(<<39, 24>>), Sgr(<<38, 5, 9, 7>>), Sgr(<<34>>),
            Sgr(<<38, 2, 170, 0, 0, 1, 48, 5, 4>>),
            Sgr(<<3, 4, 7, 8, 23, 24, 27, 28, 3, 4, 7, 8, 3, 4, 91, 33>>),
            Sgr(<<3, 4, 7, 8, 23, 24, 27, 28, 3, 4, 7, 8, 3, 4, 1>>)}
      \cup {Item("csi", <<c[1]>>, c[2]) : c \in
              {<<900, 80>>, <<300, 88>>, <<3, 98>>, <<5, 72>>, <<9, 71>>, <<2, 74>>,
               <<2, 75>>, <<6, 110>>, <<12, 100>>, <<4, 65>>}}
      \cup {Item("csi", <<1, 28>>, 114), Item("mode", <<1>>, 104),
            Item("mode", <<25, 1049, 7>>, 104), Item("mode", <<1>>, 108),
            Item("esc", <<99>>, 0), Item("esc", <<77>>, 0), Item("esc", <<40, 66>>, 0),
            Item("osc", <<48, 59, 97>>, 7), Item("osc", <<48, 59>>, 92)}
Keys ==
    {<<97>>, <<194, 155>>, <<155, 65>>, <<8>>, <<127>>,
     <<155, 49, 50, 59, 48, 59, 49, 124>>, <<155, 49, 49, 126>>, <<155, 57, 57, 126>>}

\* Command lines of Edit, and those of the file C opens.
EditCommands ==
    {<<"move", "verify">>, <<"change">>, <<"type">>, <<"bad", "move">>,
     <<"insert", "list">>, <<"open", "set">>, <<"quit">>, <<"stop">>,
     <<"write">>, <<"move", "type">>, <<"again", "move">>, <<"queue", "letter">>,
     <<"from_file", "list">>, <<"replace">>, <<"reshape", "verify">>,
     <<"off", "move">>, <<"on">>}

\* Key commands and command lines of TINE: a command with its strings, its
\* number and the answer it gets; a group repeated and stopped by a key.
Tine(n, s, t, l, ok) == [n |-> n, s |-> s, t |-> t, l |-> l, ok |-> ok]
Plainly(n) == Tine(n, <<>>, <<>>, 0, "yes")
Given(c) == [c |-> c, in |-> <<>>, k |-> 1, stop |-> 0, key |-> FALSE]
Pressed(c) == [c |-> c, in |-> <<>>, k |-> 1, stop |-> 0, key |-> TRUE]
Repeated(in, k) == [c |-> Plainly("n"), in |-> in, k |-> k, stop |-> 3, key |-> FALSE]
TineLines ==
    {<<Pressed(Plainly(n))>> : n \in {"cu", "cd", "cr", "dl", "dc", "s", "d", "fc", "dw",
                                      "el", "wn", "cj", "i"}}
      \cup {<<Pressed(Tine("ty", <<t>>, <<>>, 0, "yes"))>> : t \in {"a", " "}}
      \cup {<<Given(Plainly(n))>> : n \in {"u", "bs", "be", "ib", "db", "rd", "b", "j", "if",
                                           "fb", "x", "sb", "gb", "dp"}}
      \cup {<<Given(Tine("sa", <<>>, <<>>, 0, ok))>> : ok \in {"yes", "full"}}
      \cup {<<Given(Tine("q", <<>>, <<>>, 0, ok))>> : ok \in {"no", "yes"}}
      \cup {<<Given(Tine("a", <<"A">>, <<>>, 0, "yes"))>>,
            <<Given(Tine("e", <<"a">>, <<"A", "a">>, 0, "yes"))>>,
            <<Given(Tine("bf", <<"A">>, <<>>, 0, "yes"))>>,
            <<Given(Tine("sr", <<>>, <<>>, 3, "yes"))>>,
            <<Given(Plainly("b")), Given(Plainly("bs")), Given(Plainly("be")),
              Given(Plainly("t"))>>,
            <<Repeated(<<Given(Plainly("fc")), Given(Plainly("n"))>>, 4),
              Given(Plainly("d"))>>,
            <<Repeated(<<Given(Plainly("dc")), Given(Plainly("n"))>>, 2)>>}
TineStart ==
    <<[id |-> 1, s |-> <<"a">>], [id |-> 2, s |-> <<"A", " ", "a">>],
      [id |-> 3, s |-> <<"a", "a">>]>>

\* Commands that end with 0, a warning or a failure.
Results == INSTANCE ShellResults WITH
    Code <- {0, 5, 20}, MaxLines <- 4, Background <- FALSE, Tidy <- TRUE,
    pc <- x1, broker <- x2, cli <- x3, published <- x4, endcli <- x5,
    last <- x6, running <- x7, lines <- x8, reachable <- x9, code <- x10

\* Scripts of three lines that execute others.
Runs == INSTANCE ShellScripts WITH
    Lines <- ScriptLines, Scripts <- ExecuteScripts, MaxLength <- 3,
    MaxRuns <- 6, Handed <- TRUE, file <- x1, offset <- x2, unended <- x3,
    eof <- x4, script_input <- x5, closed <- x6, fd <- x7, current <- x8,
    loaded <- x9, pc <- x10, line <- x11, todo <- x12, runs <- x13,
    failed <- x14

\* Three shells started one from another.
Launch == INSTANCE ShellLaunch WITH
    Script <- {"a"}, MaxShells <- 3, MaxName <- 1, shells <- x1, clock <- x2

\* Four characters typed, an argument line of two.
Input == INSTANCE DosInput WITH
    MaxTyped <- 4, Arguments <- 2, MaxHeld <- 2, Blocks <- {1, 2},
    Buffers <- {3}, Careful <- TRUE,
    typed <- x1, fd <- x2, prefix <- x3, line <- x4, held <- x5,
    pushed <- x6, raw <- x7, last <- x8, back <- x9, got <- x10

\* Three drawers, two of them on the command path.
Locks == INSTANCE DosLocks WITH
    Dir <- {"h", "p", "c"}, Home <- "h", MaxLocks <- 4,
    Drawers <- <<"p", "c">>, exists <- x1, bcwd <- x2, path <- x3,
    live <- x4, current <- x5, list <- x6, saved <- x7, asked <- x8

\* A drawer of up to four entries, two to a buffer.
Scan == INSTANCE DosScan WITH
    MaxEntries <- 4, Room <- 2, MaxScans <- 2, dir <- x1, scan <- x2,
    key <- x3, prev <- x4, fib <- x5, batch <- x6, listed <- x7, break <- x8,
    ended <- x9, scans <- x10

\* Two window sizes, buffers of one, two events from outside.
Lnx == INSTANCE LnxSupervisor WITH
    Sizes <- {1, 2}, Fallback <- 0, Room <- 1, PtyRoom <- 1, HoldRoom <- 1,
    MaxEvents <- 2, console <- x1, window <- x2, tty <- x3, asked <- x4,
    reports <- x5, child <- x6, job <- x7, wrote <- x8, pty <- x9,
    got <- x10, taken <- x11, pipe <- x12, pc <- x13, received <- x14,
    attempt <- x15, geometry <- x16, resize_pending <- x17, input <- x18,
    hold <- x19, output <- x20, shown <- x21, input_open <- x22,
    output_open <- x23, master_read_open <- x24, master_write_open <- x25,
    input_flushed <- x26, console_hup <- x27, shutdown_requested <- x28,
    hup_due <- x29, eof_due <- x30, typed <- x31, resizes <- x32,
    signals <- x33, missed <- x34, dropped <- x35

\* Two items or keys, a sink of 1500 bytes.
Terminal == INSTANCE TerminalTranslate WITH
    Items <- Output, Typed <- Keys, Room <- 1500, MaxSteps <- 2, todo <- x1,
    item <- x2, st <- x3, queued <- x4, screen <- x5, xterm <- x6,
    typing <- x7, key <- x8, ks <- x9, read <- x10, meant <- x11,
    written <- x12, keys <- x13, ended <- x14

\* Three lines and three commands, a queue of two.
Editor == INSTANCE EditLines WITH
    Original <- <<1, 2, 3>>, Second <- <<11>>, Match <- {2, 3},
    To <- {TRUE, FALSE}, Depth <- 2, CommandDepth <- 1, MaxCommands <- 3,
    MaxGlobals <- 1, e <- x1, cmd <- x2, single <- x3, renumbered <- x4,
    saved <- x5, commands <- x6

\* Lines and strings over three letters, room for seven.
Text == INSTANCE EditText WITH
    Texts <- {<<"a", "b">>, <<"b", "a", "a">>, <<"A", "b", "a">>},
    Finds <- {<<"a">>, <<"a", "b">>}, Withs <- {<<>>, <<"a", "a">>},
    Capacity <- 7, MaxSteps <- 2, line <- x1, pointer <- x2, steps <- x3,
    saved <- x4, original <- x5, global <- x6

\* Three command lines.
Edit == INSTANCE EditSession WITH
    Lines <- EditCommands, File <- <<<<"change">>, <<"bad", "open">>>>,
    CommandDepth <- 2, MaxLines <- 3, Serials <- {1, 2}, stack <- x1,
    level <- x2, given <- x3, line <- x4, at <- x5, entry <- x6,
    serial <- x7, version <- x8, numbered <- x9, shown <- x10, plain <- x11,
    modified <- x12, verified <- x13, aborted <- x14, inserting <- x15,
    finished <- x16, saving <- x17, verify <- x18, saved <- x19,
    quiet <- x20, ran <- x21, lost <- x22, screen <- x23

\* Three lines, room for thirteen bytes.
Document == INSTANCE TineDocument WITH
    Start <- TineStart, Lines <- TineLines, File <- <<<<"a">>, <<" ">>>>,
    Size <- 13, LineLimit <- 5, MaxSteps <- 3, e <- x1, did <- x2,
    steps <- x3

\* Two keys and a change of size.
Window == INSTANCE TineConsole WITH
    Sizes <- {"5", "6"}, Keys <- {"x", "f1"}, Cols <- 1, MaxKeys <- 2,
    MaxResizes <- 1, ace <- x1, console <- x2, inq <- x3, asked <- x4,
    events <- x5, resized <- x6, pc <- x7, up <- x8, size <- x9,
    pending <- x10, keys <- x11, got <- x12, swallowed <- x13,
    unreported <- x14, cells <- x15, shown <- x16, force <- x17,
    screen <- x18, fouled <- x19, resizes <- x20, draws <- x21

\* The components share no state here, so each behaviour is of one of them.
MCInit ==
    /\ Init
    /\ \/ part = "breaks" /\ Unused(0)
       \/ part = "results" /\ Results!Init /\ Unused(10)
       \/ part = "scripts" /\ Runs!Init /\ Unused(14)
       \/ part = "launch" /\ Launch!Init /\ Unused(2)
       \/ part = "input" /\ Input!Init /\ Unused(10)
       \/ part = "locks" /\ Locks!Init /\ Unused(8)
       \/ part = "scan" /\ Scan!Init /\ Unused(10)
       \/ part = "lnx" /\ Lnx!Init /\ Unused(35)
       \/ part = "terminal" /\ Terminal!Init /\ Unused(14)
       \/ part = "lines" /\ Editor!Init /\ Unused(6)
       \/ part = "text" /\ Text!Init /\ Unused(6)
       \/ part = "edit" /\ Edit!Init /\ Unused(23)
       \/ part = "tine" /\ Document!Init /\ Unused(3)
       \/ part = "window" /\ Window!Init /\ Unused(21)

MCNext ==
    /\ UNCHANGED part
    /\ \/ part = "breaks" /\ Next /\ Still(0)
       \/ part = "results" /\ Results!Next /\ UNCHANGED vars /\ Still(10)
       \/ part = "scripts" /\ Runs!Next /\ UNCHANGED vars /\ Still(14)
       \/ part = "launch" /\ Launch!Next /\ UNCHANGED vars /\ Still(2)
       \/ part = "input" /\ Input!Next /\ UNCHANGED vars /\ Still(10)
       \/ part = "locks" /\ Locks!Next /\ UNCHANGED vars /\ Still(8)
       \/ part = "scan" /\ Scan!Next /\ UNCHANGED vars /\ Still(10)
       \/ part = "lnx" /\ Lnx!Next /\ UNCHANGED vars /\ Still(35)
       \/ part = "terminal" /\ Terminal!Next /\ UNCHANGED vars /\ Still(14)
       \/ part = "lines" /\ Editor!Next /\ UNCHANGED vars /\ Still(6)
       \/ part = "text" /\ Text!Next /\ UNCHANGED vars /\ Still(6)
       \/ part = "edit" /\ Edit!Next /\ UNCHANGED vars /\ Still(23)
       \/ part = "tine" /\ Document!Next /\ UNCHANGED vars /\ Still(3)
       \/ part = "window" /\ Window!Next /\ UNCHANGED vars /\ Still(21)

MCSpec == MCInit /\ [][MCNext]_allvars

\* What the i-th thread or process of a component does of itself.  A behaviour
\* is of one component, so one fairness condition serves all the i-th ones.
Turn(i) ==
    \/ /\ part = "lnx" /\ Still(35)
       /\ \/ i = 1 /\ Lnx!Supervise
          \/ i = 2 /\ Lnx!Deadlines

\* Each component has the fairness its own specification gives it.
MCFairSpec ==
    /\ MCSpec
    /\ \A s \in Shell : WF_vars(part = "breaks" /\ DispatchThread(s))
    /\ \A i \in 1..2 : WF_pool(Turn(i))

\* Every component keeps to its types.
TypesOK ==
    /\ TypeOK
    /\ part = "results" => Results!TypeOK
    /\ part = "scripts" => Runs!TypeOK
    /\ part = "launch" => Launch!TypeOK
    /\ part = "input" => Input!TypeOK
    /\ part = "locks" => Locks!TypeOK
    /\ part = "scan" => Scan!TypeOK
    /\ part = "lnx" => Lnx!TypeOK
    /\ part = "terminal" => Terminal!TypeOK
    /\ part = "lines" => Editor!TypeOK
    /\ part = "text" => Text!TypeOK
    /\ part = "edit" => Edit!TypeOK
    /\ part = "tine" => Document!TypeOK
    /\ part = "window" => Window!TypeOK


\* DOS keeps a program's place.  The keys a program reads are those typed, in
\* their order, and what WaitForChar() promised is there (KeysInOrder,
\* WaitedForIsThere of DosInput); the current directory is a lock that has not
\* been freed and stays the one chosen (StandsOnALiveLock, ChosenDirectoryStays
\* of DosLocks); and a scan lists each entry once, in order, and ends for good
\* (ListedOnceInOrder, EndIsTheEnd of DosScan).
DosKeepsItsPlace ==
    /\ part = "input" => Input!KeysInOrder /\ Input!WaitedForIsThere
    /\ part = "locks" => Locks!StandsOnALiveLock /\ Locks!ChosenDirectoryStays
    /\ part = "scan" => Scan!ListedOnceInOrder /\ Scan!EndIsTheEnd

\* A host program and its console hear each other.  Keys are kept while the
\* relay is full, the size follows the window's, all output is shown and the
\* program is reaped (KeysKept, GeometryFollows, EverythingShown, TargetIsReaped
\* of LnxSupervisor); and what is printed is the text in the rendition asked
\* for, and the keys those typed (PrintsTheText, ShowsTheRendition,
\* KeysReachTheProgram of TerminalTranslate).
HostProgramsAreRelayed ==
    /\ part = "lnx" =>
         /\ Lnx!KeysKept /\ Lnx!GeometryFollows
         /\ Lnx!EverythingShown /\ Lnx!TargetIsReaped
    /\ part = "terminal" =>
         /\ Terminal!PrintsTheText /\ Terminal!ShowsTheRendition
         /\ Terminal!KeysReachTheProgram

\* The i-th of the things a component has under way, and its arrival.
Commands == CHOOSE f \in [1..2 -> Command] : f[1] # f[2]
Underway(s, i) ==
    CASE part = "breaks" -> BreakUnderway(s, Commands[i])
      [] part = "lnx" -> IF i = 1 THEN Lnx!TargetEnded ELSE Lnx!ConsoleGone
      [] OTHER -> FALSE
Arrived(i) ==
    CASE part = "breaks" -> BreakHeard(Commands[i])
      [] part = "lnx" -> IF i = 1 THEN Lnx!Done ELSE Lnx!HangUpHeard
      [] OTHER -> TRUE

\* Breaks and ends arrive.  A break typed at a registered command that goes on
\* running is given to it (RegisteredCommandGetsBreak of BreakRouting); and the
\* supervisor of a host program ends after its program does, and a console that
\* goes away is heard by the program (EndsWithItsTarget, HangUpReachesTarget of
\* LnxSupervisor).
BreaksAndEndsArrive ==
    \A s \in Shell, i \in 1..2 : Underway(s, i) ~> Arrived(i)



\* The behaviours of EditLines alone, and of TineDocument alone.
LinesSpec == part = "lines" /\ MCSpec
TineSpec == part = "tine" /\ MCSpec

\* Edit's comment on its backup is that "losing the original would be worse than
\* keeping it elsewhere" (make_backup): the original text is in some file until
\* the new one has its name.
OriginalKept == part = "lines" => Editor!OriginalKept

\* TINE warns that "Edits will be lost" before Q and takes only Y (cmd_q): it
\* ends with unsaved edits only when that was confirmed.
EditsLostOnlyIfConfirmed == part = "tine" => Document!EditsLostOnlyIfConfirmed
=============================================================================
