----------------------------- MODULE ShellScripts -----------------------------
(***************************************************************************)
(* A shell that reads a script, and the commands in it that read or change  *)
(* the script: If skips lines, Quit goes to the end, Execute puts another   *)
(* script in.  A command is a process of its own; what it shares with the   *)
(* shell is the open file description, and so the offset (native_command.c, *)
(* native_dos.c, ace_user_shell.c).                                         *)
(*                                                                         *)
(* A file is a sequence of lines, a line a record: a plain command, an If   *)
(* that skips n lines, an Execute of script n, a Quit.  `todo' is what the  *)
(* user may expect to run next, kept without file, offset or stream.        *)
(***************************************************************************)
EXTENDS Integers, Sequences

CONSTANTS Lines,       \* lines a startup script may have
          MaxLength,   \* of the startup script
          Scripts,     \* number -> the scripts Execute names
          MaxRuns,     \* commands run from scripts
          Handed       \* the script came as ACE_SCRIPT_INPUT, a descriptor

VARIABLES file, offset,  \* the open file description
          unended,       \* the last line has no newline
          eof,           \* the shell's stream has met the end of the file
          script_input,  \* native_script_input is a stream
          closed,        \* native_script_input_closed
          fd,            \* what the descriptor's number refers to
          current,       \* cli_CurrentInput
          loaded,        \* native_cli_loaded
          pc, line, todo, runs,
          failed         \* a splice failed half-way

vars == <<file, offset, unended, eof, script_input, closed, fd, current,
          loaded, pc, line, todo, runs, failed>>

Least(a, b) == IF a < b THEN a ELSE b
From(s, i) == SubSeq(s, i + 1, Len(s))
NoLine == [do |-> "none", n |-> 0]

\* run_startup_scripts: the scripts there are, one after another in one file;
\* or the stream the shell was handed, which may lack its last newline.
Init ==
    /\ file \in UNION {[1..n -> Lines] : n \in 1..MaxLength}
    /\ offset = 0 /\ eof = FALSE /\ unended \in (IF Handed THEN BOOLEAN ELSE {FALSE})
    /\ script_input = ~Handed /\ closed = FALSE /\ fd = "script"
    /\ current = "keyboard" /\ loaded = FALSE
    /\ pc = "cli" /\ line = NoLine /\ todo = file /\ runs = 0 /\ failed = FALSE

File == <<file, offset, unended>>

-----------------------------------------------------------------------------
(* Cli(): the streams.                                                      *)

\* native_attach_script_input: open the descriptor named in the environment,
\* once; never again after its stream was closed.
ReopensClosed == Handed /\ ~script_input
native_attach_script_input == Handed /\ ~script_input /\ ~closed

cli_attach_streams ==
    /\ pc = "cli" /\ pc' = "prompt"
    /\ script_input' = (script_input \/ native_attach_script_input)
    /\ current' = IF script_input' THEN (IF loaded THEN current ELSE "script") ELSE "keyboard"
    /\ loaded' = TRUE
    /\ UNCHANGED <<File, eof, closed, fd, line, todo, runs, failed>>

-----------------------------------------------------------------------------
(* The shell.                                                               *)

ReadLine ==
    /\ pc = "prompt" /\ current = "script" /\ ~eof /\ offset < Len(file) /\ runs < MaxRuns
    /\ line' = file[offset + 1] /\ offset' = offset + 1
    /\ eof' = (unended /\ offset + 1 = Len(file))
    /\ pc' = "run" /\ runs' = runs + 1
    /\ UNCHANGED <<file, unended, script_input, closed, fd, current, loaded, todo, failed>>

\* The end of the script: Shell.c closes cli_CurrentInput, and Close() makes
\* this process forget the stream (native_forget_script_input) before the
\* descriptor's number can mean something else.
native_forget_script_input == script_input' = FALSE /\ closed' = TRUE /\ current' = "keyboard"
ScriptEnds ==
    /\ pc = "prompt" /\ current = "script" /\ (eof \/ offset = Len(file))
    /\ native_forget_script_input
    /\ fd' = "none" /\ pc' = "cli"
    /\ UNCHANGED <<File, eof, loaded, line, todo, runs, failed>>

\* Something else is opened, under the lowest free number.
OpensAnother ==
    /\ fd = "none" /\ fd' = "other" /\ pc = "prompt" /\ pc' = "cli"
    /\ UNCHANGED <<File, eof, script_input, closed, current, loaded, line, todo, runs, failed>>

-----------------------------------------------------------------------------
(* A command, in its own process, with the same offset.                     *)

\* splice_into_script: the new script, a newline, and then what the shell has
\* not read; the offset goes back to where the shell is about to read.
Spliced(s) == SubSeq(file, 1, offset) \o s \o From(file, offset)
splice_into_script(s) ==
    /\ file' = Spliced(s)
    /\ unended' = (unended /\ offset < Len(file))
    /\ UNCHANGED offset

\* A write fails after j lines: what has been overwritten is lost, and the
\* offset stays where the writing stopped.
SpliceFails(s, j) ==
    /\ line.do = "exec" /\ pc = "run" /\ j \in 1..Len(s)
    /\ file' = SubSeq(file, 1, offset) \o SubSeq(s, 1, j) \o From(file, Least(Len(file), offset + j))
    /\ offset' = offset + j /\ failed' = TRUE /\ pc' = "return"
    /\ UNCHANGED <<unended, eof, script_input, closed, fd, current, loaded, line, todo, runs>>

Skip(n) == offset' = Least(Len(file), offset + n) /\ UNCHANGED <<file, unended>>
native_quit_script == offset' = Len(file) /\ UNCHANGED <<file, unended>>

CommandRuns ==
    /\ pc = "run" /\ pc' = "return"
    /\ LET rest == From(todo, 1)
       IN CASE line.do = "if"   -> Skip(line.n) /\ todo' = From(rest, Least(line.n, Len(rest)))
            [] line.do = "exec" -> splice_into_script(Scripts[line.n]) /\ todo' = Scripts[line.n] \o rest
            [] line.do = "quit" -> native_quit_script /\ todo' = <<>>
            [] OTHER            -> UNCHANGED File /\ todo' = rest
    /\ UNCHANGED <<eof, script_input, closed, fd, current, loaded, line, runs, failed>>

\* RunCommand, once the command has ended: the stream is told where the
\* descriptor stands, which also ends an end of file it had met.
TrustsStream ==
    /\ pc = "return" /\ pc' = "cli"
    /\ UNCHANGED <<File, eof, script_input, closed, fd, current, loaded, line, todo, runs, failed>>
RunCommandReturns ==
    /\ pc = "return" /\ pc' = "cli" /\ eof' = FALSE
    /\ UNCHANGED <<File, script_input, closed, fd, current, loaded, line, todo, runs, failed>>

Next ==
    \/ cli_attach_streams \/ ReadLine \/ ScriptEnds \/ OpensAnother \/ CommandRuns \/ RunCommandReturns
    \/ \E j \in 1..2 : line.do = "exec" /\ SpliceFails(Scripts[line.n], j)

Spec == Init /\ [][Next]_vars

-----------------------------------------------------------------------------

\* The description, the stream and the CLI have their types.
TypeOK ==
    /\ offset \in 0..Len(file) /\ runs \in 0..MaxRuns
    /\ fd \in {"script", "none", "other"} /\ current \in {"script", "keyboard"}
    /\ {unended, eof, script_input, closed, loaded, failed} \subseteq BOOLEAN
    /\ pc \in {"cli", "prompt", "run", "return"}

\* Commands see the lines in the order the user may expect: what is ahead of
\* the offset is what is to be run, whatever If, Execute and Quit did to the
\* file in processes of their own, and the shell does not stop before it.
RunsWhatTheScriptSays ==
    ~failed => /\ pc \in {"prompt", "cli", "return"} => From(file, offset) = todo
               /\ pc = "prompt" /\ current = "script" /\ todo # <<>> => ~eof
               /\ pc = "prompt" /\ current = "keyboard" => todo = <<>>

\* What the shell takes for its script's stream, and hands to the commands it
\* runs, is the script: not a descriptor that has been closed or that means
\* another file since (native_script_input_closed).
ScriptIsTheScript == script_input => fd = "script"
=============================================================================
