---------------------------- MODULE EditSession ----------------------------
(***************************************************************************)
(* Edit (src/edit.c): the command lines of a session and what they put on  *)
(* the screen.  Lines come from a stack of command files with the keyboard *)
(* at the bottom; a line is a row of commands that an error cuts short; an *)
(* insertion takes lines from wherever the next one comes; and the current *)
(* line is verified at the end of a command line unless it was the last to *)
(* be verified.  A command is one of the kinds below; n(...) is its body   *)
(* repeated.  `serial' names the current line, `version' its text.         *)
(***************************************************************************)
EXTENDS Integers, Sequences, SequencesExt, FiniteSetsExt

CONSTANTS Lines,          \* command lines, sequences of kinds
          File,           \* the lines of the file C opens
          CommandDepth, MaxLines, Serials

\* The commands, by what they do to the position, the text, the screen and the
\* input: "move" M N P F BF D REWIND, "change" A B E and their P forms,
\* "letter" $ % _ # and the window deletions, "reshape" DF SB SA CL, "again" ',
\* "set" = > < PR PA PB H TR, the globals, FROM TO CF and what shows state,
\* "verify" ? !, "type" T TN, "list" TL, "queue" TP, "bad" what is refused.
Kind == {"move", "change", "letter", "reshape", "again", "set", "verify", "type",
         "list", "queue", "bad", "on", "off", "insert", "from_file", "replace",
         "open", "quit", "write", "stop"}

VARIABLES
    stack,       \* commands: for each level, the lines not read yet
    level,       \* depth
    given,       \* lines typed so far
    line, at,    \* the command line being executed, the next command in it
    entry, serial, version,
    numbered, shown, plain, modified, verified, aborted,
    inserting, finished, saving,
    verify,      \* V+ or V-
    saved,       \* there is a change for ' to repeat
    quiet,       \* history: V- was given once
    ran, lost,   \* history: commands run since an error; lines read as text
    screen       \* history: the line last shown, and the text if numbered

vars == <<stack, level, given, line, at, entry, serial, version, numbered, shown,
          plain, modified, verified, aborted, inserting, finished, saving, verify,
          saved, quiet, ran, lost, screen>>

Idle == <<"idle">>
\* The keyboard, and on top of it the WITH file if there is one.
Init == /\ stack \in {<<<<>>>>, <<<<>>, File>>} /\ level = Len(stack) - 1
        /\ given = 0 /\ line = Idle /\ at = 1
        /\ entry = 1 /\ serial = 1 /\ version = [s \in Serials |-> 1] /\ numbered = 0
        /\ shown = FALSE /\ plain = FALSE /\ modified = FALSE /\ verified = FALSE
        /\ aborted = FALSE /\ inserting = FALSE /\ finished = FALSE
        /\ saving = FALSE /\ verify = TRUE /\ saved = FALSE /\ quiet = FALSE
        /\ ran = FALSE /\ lost = <<>> /\ screen = <<0, 0>>

Keyboard == level = 0

\* command_line: the next line of the file on top, closing those that ended.
RECURSIVE Ended(_)
Ended(st) == IF Len(st) > 1 /\ Last(st) = <<>> THEN Ended(Front(st)) ELSE st
Take(text) ==
    LET st == Ended(stack) IN
    /\ level' = Len(st) - 1
    /\ IF Len(st) > 1
       THEN text = Head(Last(st)) /\ given' = given
            /\ stack' = Append(Front(st), Tail(Last(st)))
       ELSE text \in Lines /\ given < MaxLines /\ given' = given + 1 /\ stack' = st

\* execute_line: what a line did is forgotten when the next begins.
execute_line(text) ==
    /\ line = Idle /\ ~inserting /\ ~finished /\ Take(text)
    /\ line' = text /\ at' = 1 /\ entry' = serial
    /\ modified' = FALSE /\ aborted' = FALSE /\ shown' = FALSE
    /\ plain' = FALSE /\ verified' = FALSE /\ ran' = FALSE
    /\ UNCHANGED <<serial, version, numbered, inserting, finished, saving, verify,
                   saved, quiet, lost, screen>>

\* insert_lines: a line of text, or the terminator.
Terminator == <<"stop">>
insert_lines(text) ==
    /\ inserting /\ Take(text)
    /\ IF text = Terminator
       THEN /\ inserting' = FALSE /\ verified' = FALSE /\ UNCHANGED lost
       ELSE /\ lost' = Append(lost, text) /\ UNCHANGED <<inserting, verified>>
    /\ UNCHANGED <<line, at, entry, serial, version, numbered, shown, plain,
                   modified, aborted, finished, saving, verify, saved, quiet, ran,
                   screen>>

Numbered(s, v) == /\ numbered' = s /\ shown' = TRUE /\ verified' = TRUE
                  /\ screen' = <<s, v>>
Unnumbered(s) == /\ plain' = TRUE /\ shown' = TRUE /\ screen' = <<s, 0>>
                 /\ UNCHANGED <<numbered, verified>>
Silent == UNCHANGED <<numbered, shown, verified, screen>>
Still == UNCHANGED <<serial, version, modified>>
SameInput == UNCHANGED <<stack, level, inserting>>
Settings == UNCHANGED <<verify, saved, quiet>>
Goes == UNCHANGED <<finished, saving>>
Fine == UNCHANGED aborted
report == aborted' = TRUE

\* Moving, which ends where it got to when there is nowhere further to go.
Moving ==
    /\ serial' \in Serials /\ (Fine \/ report)
    /\ Silent /\ SameInput /\ Settings /\ Goes
    /\ UNCHANGED <<version, modified, plain>>

\* verify_current follows every change of the text.
verify_current == modified' = TRUE
Changing ==
    /\ version' = [version EXCEPT ![serial] = 3 - @] /\ verify_current
    /\ Fine /\ Silent /\ SameInput /\ Goes /\ UNCHANGED <<serial, plain>>
command_change == Changing /\ saved' = TRUE /\ UNCHANGED <<verify, quiet>>
Lettering == Changing /\ Settings
Reshaping ==
    /\ serial' \in Serials /\ verify_current
    /\ Fine /\ Silent /\ SameInput /\ Settings /\ Goes /\ UNCHANGED <<version, plain>>

Refusing == /\ report
            /\ Still /\ Silent /\ SameInput /\ Settings /\ Goes /\ UNCHANGED plain
repeat_saved == IF saved THEN Changing /\ Settings ELSE Refusing
Setting == /\ Still /\ Silent /\ SameInput /\ Settings /\ Goes /\ Fine
           /\ UNCHANGED plain

Verifying == /\ Numbered(serial, version[serial])
             /\ Still /\ SameInput /\ Settings /\ Goes /\ Fine /\ UNCHANGED plain
Switching(on) ==
    /\ verify' = on /\ quiet' = (quiet \/ ~on)
    /\ Still /\ Silent /\ SameInput /\ Goes /\ Fine /\ UNCHANGED <<plain, saved>>

\* T, TL and TN type the current line and move on to the next, until the count
\* is done, the extra line past the end is typed, the halt line stops the
\* moving or a break is seen.
Bottom == Max(Serials)
Typed(last) ==
    \/ serial' = last /\ last = Bottom /\ Fine
    \/ serial' = last /\ last # Bottom /\ report
    \/ serial' = last + 1 /\ last # Bottom /\ (Fine \/ report)
command_type(numbers) ==
    /\ \E last \in serial..Bottom :
          /\ Typed(last)
          /\ IF numbers THEN Numbered(last, version[last]) /\ UNCHANGED plain
             ELSE Unnumbered(last)
    /\ SameInput /\ Settings /\ Goes /\ UNCHANGED <<version, modified>>

\* T,P types the queue, which holds lines before the current one.
command_type_queue ==
    /\ IF serial = 1 THEN Silent /\ UNCHANGED plain ELSE Unnumbered(serial - 1)
    /\ Still /\ SameInput /\ Settings /\ Goes /\ Fine

\* I takes lines from the input, or all of a file, which may not open; R takes
\* the current line away first.
Inserting ==
    /\ inserting' = TRUE /\ UNCHANGED <<stack, level>>
    /\ Still /\ Silent /\ Settings /\ Goes /\ Fine /\ UNCHANGED plain
insert_file ==
    /\ Fine \/ report
    /\ Still /\ Silent /\ SameInput /\ Settings /\ Goes /\ UNCHANGED plain
Replacing ==
    /\ serial' \in Serials /\ verify_current /\ inserting' = TRUE
    /\ Silent /\ Settings /\ Goes /\ Fine /\ UNCHANGED <<stack, level, version, plain>>

\* C opens a command file on top of the others, Q leaves the one on top.
push_command_file ==
    /\ IF level < CommandDepth
       THEN stack' = Append(stack, File) /\ level' = level + 1 /\ Fine
       ELSE UNCHANGED <<stack, level>> /\ report
    /\ Still /\ Silent /\ Settings /\ Goes /\ UNCHANGED <<plain, inserting>>
Quitting ==
    /\ IF level > 0
       THEN stack' = Front(stack) /\ level' = level - 1 /\ Goes
       ELSE UNCHANGED <<stack, level>> /\ finished' = TRUE /\ saving' = TRUE
    /\ Still /\ Silent /\ Settings /\ Fine /\ UNCHANGED <<plain, inserting>>
Ending(save) ==
    /\ finished' = TRUE /\ saving' = save
    /\ Still /\ Silent /\ SameInput /\ Settings /\ Fine /\ UNCHANGED plain

\* execute_one, by the kind of command.
Effect(k) ==
    \/ k = "move" /\ Moving
    \/ k = "change" /\ command_change
    \/ k = "letter" /\ Lettering
    \/ k = "reshape" /\ Reshaping
    \/ k = "again" /\ repeat_saved
    \/ k = "set" /\ Setting
    \/ k = "verify" /\ Verifying
    \/ k = "type" /\ command_type(FALSE)
    \/ k = "list" /\ command_type(TRUE)
    \/ k = "queue" /\ command_type_queue
    \/ k = "bad" /\ Refusing
    \/ k = "on" /\ Switching(TRUE)
    \/ k = "off" /\ Switching(FALSE)
    \/ k = "insert" /\ Inserting
    \/ k = "from_file" /\ insert_file
    \/ k = "replace" /\ Replacing
    \/ k = "open" /\ push_command_file
    \/ k = "quit" /\ Quitting
    \/ k = "write" /\ Ending(TRUE)
    \/ k = "stop" /\ Ending(FALSE)

RunsOn == line # Idle /\ at <= Len(line) /\ ~finished /\ ~inserting
Regardless == TRUE
MayGoOn == ~aborted
execute_one ==
    /\ RunsOn /\ MayGoOn
    /\ Effect(line[at]) /\ at' = at + 1
    /\ ran' = (ran \/ aborted)
    /\ UNCHANGED <<given, line, entry, lost>>

\* verify_pending, at the end of the line.
Asked == \/ serial # entry \/ modified \/ shown
         \/ aborted /\ ~Keyboard
IsOnScreen == numbered = serial /\ ~plain
verify_pending ==
    /\ line # Idle /\ ~inserting
    /\ finished \/ aborted \/ at > Len(line)
    /\ line' = Idle /\ at' = 1
    /\ IF ~finished /\ verify /\ Asked /\ ~IsOnScreen
       THEN Numbered(serial, version[serial]) ELSE Silent
    /\ UNCHANGED <<stack, level, given, entry, serial, version, plain, modified,
                   aborted, inserting, finished, saving, verify, saved, quiet,
                   ran, lost>>

\* Command input running out is the same as W.
NoMoreInput ==
    /\ line = Idle /\ ~finished /\ Len(Ended(stack)) = 1
    /\ finished' = TRUE /\ saving' = TRUE /\ inserting' = FALSE
    /\ UNCHANGED <<stack, level, given, line, at, entry, serial, version, numbered,
                   shown, plain, modified, verified, aborted, verify, saved, quiet,
                   ran, lost, screen>>

Next == \/ \E text \in Lines \cup {File[i] : i \in DOMAIN File} :
             execute_line(text) \/ insert_lines(text)
        \/ execute_one \/ verify_pending \/ NoMoreInput
Spec == Init /\ [][Next]_vars

TypeOK ==
    /\ level \in 0..CommandDepth /\ Len(stack) = level + 1
    /\ line = Idle \/ \A i \in DOMAIN line : line[i] \in Kind
    /\ serial \in Serials /\ version \in [Serials -> 1..2] /\ numbered \in Serials \cup {0}
    /\ {shown, plain, modified, verified, aborted, inserting, finished, saving,
        verify, saved, quiet, ran} \subseteq BOOLEAN

\* "An error abandons the rest of the command line": no command of it runs
\* after the one that failed, and what the line had changed stays.
ErrorEndsTheLine == ~ran

\* A line that is due to be shown is on the screen after the step.
ShowsItsLine ==
    verify_pending /\ ~finished /\ ~quiet /\ (serial # entry \/ plain) =>
      screen'[1] = serial' /\ screen'[2] # 0

\* "The line it left behind is shown when the command line moved somewhere
\* else": in a session that keeps verification on, after a command line the
\* reader has been shown, numbered and last, the line a move ended on or typing
\* left off on.
LeavesItsLineShown == [][ShowsItsLine]_vars
=============================================================================
