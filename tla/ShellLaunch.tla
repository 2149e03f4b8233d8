---------------------------- MODULE ShellLaunch -----------------------------
(***************************************************************************)
(* How one ACE shell comes to start another: System() with a command       *)
(* (launch_command, native_process.c), System() without one, which is      *)
(* NewCLI (launch_console, and the shell ace-console starts), and Execute  *)
(* outside a script (execute_in_nested_shell, native_command.c).  What the *)
(* new shell is to do reaches it through the environment:                  *)
(* ACE_STARTUP_SCRIPT names the one script it was started for,             *)
(* ACE_SCRIPT_INPUT the descriptor of a script somebody is already         *)
(* reading, ACE_SESSION its session; what is not set is inherited.  A      *)
(* shell opens one stream of its own at most, and the stream is named by   *)
(* the shell.                                                              *)
(***************************************************************************)
EXTENDS Naturals, Sequences, FiniteSets

CONSTANTS Script,       \* scripts and commands other than the startup set
          MaxShells,    \* shells ever started
          MaxName       \* launches a session name has room for

NoScript == "none"
StartupSet == "startup set"

VARIABLES shells,   \* the shells started, oldest first
          clock     \* CLOCK_MONOTONIC: no two launches at one time

vars == <<shells, clock>>

\* caller: the shell whose command waits for its end, 0 for nobody; by: how
\* it was started, and asked: for which script; startup and inherited: the two
\* variables in its environment; reads: the stream it takes commands from,
\* 0 for its standard input; stream: what its own stream holds; found:
\* whether what it was started for could be opened.
NewShell(caller, by, asked, session, startup, inherited) ==
    [caller |-> caller, by |-> by, asked |-> asked, session |-> session, startup |-> startup,
     inherited |-> inherited, state |-> "new", reads |-> 0, stream |-> NoScript, found |-> TRUE]

Init ==
    /\ shells = <<NewShell(0, "user", StartupSet, <<>>, NoScript, 0)>>
    /\ clock = 0

\* A shell whose command waits for another shell does nothing itself.
Running(i) ==
    /\ i \in DOMAIN shells /\ shells[i].state = "running"
    /\ \A j \in DOMAIN shells : shells[j].caller = i => shells[j].state = "ended"
Room == Len(shells) < MaxShells
Add(s) == shells' = Append(shells, s)

-----------------------------------------------------------------------------
(* Starting a shell. *)

\* child_session_name: the parent's, with the process and the time.
ByProcessOnly(i) == Append(shells[i].session, <<i, 0>>)
child_session_name(i) == Append(shells[i].session, <<i, clock>>)
NameFits(i) == Len(child_session_name(i)) <= MaxName

TakesDescriptor(s) == s.startup = NoScript /\ s.inherited # 0

\* ace-user-shell, run_startup_scripts: the one script, the descriptor, or
\* the startup set, copied to a stream of its own.
run_startup_scripts(i) ==
    /\ i \in DOMAIN shells /\ shells[i].state = "new"
    /\ shells' = [shells EXCEPT ![i] =
           IF TakesDescriptor(@)
           THEN [@ EXCEPT !.state = "running", !.reads = shells[i].inherited]
           ELSE [@ EXCEPT !.state = "running", !.reads = i,
                          !.stream = IF shells[i].startup # NoScript THEN shells[i].startup
                                     ELSE StartupSet]]
    /\ UNCHANGED clock

\* T: cannot be written or the script not be found: the shell goes on with
\* what it inherited.
NoStartup(i) ==
    /\ i \in DOMAIN shells /\ shells[i].state = "new" /\ ~TakesDescriptor(shells[i])
    /\ shells' = [shells EXCEPT ![i].state = "running", ![i].reads = shells[i].inherited,
                                ![i].found = FALSE]
    /\ UNCHANGED clock

\* The end of what it reads: a shell started for a script ends, another one
\* goes on with its standard input.
ScriptEnds(i) ==
    /\ Running(i) /\ shells[i].reads # 0
    /\ shells' = [shells EXCEPT ![i].reads = 0,
                                ![i].state = IF shells[i].startup # NoScript THEN "ended" ELSE @]
    /\ UNCHANGED clock

EndCLI(i) ==
    /\ Running(i)
    /\ shells' = [shells EXCEPT ![i].state = "ended"]
    /\ UNCHANGED clock

-----------------------------------------------------------------------------
(* A command of shell i (RunCommand) has the shell's environment, with     *)
(* ACE_SCRIPT_INPUT naming what the shell reads at the moment.             *)

\* The command calls System() without a command: ace-console is started,
\* and starts a shell, in a session of its own.
launch_console(i) ==
    /\ Running(i) /\ Room /\ NameFits(i)
    /\ Add(NewShell(0, "console", StartupSet, child_session_name(i), shells[i].startup, shells[i].reads))
    /\ clock' = clock + 1

\* System() with a command: the command is written to a script in T:, and
\* its end is waited for unless the caller asked not to.
launch_command(i, c, asynch) ==
    /\ Running(i) /\ Room /\ NameFits(i)
    /\ Add(NewShell(IF asynch THEN 0 ELSE i, "system", c, child_session_name(i), c, shells[i].reads))
    /\ clock' = clock + 1

\* A stream cannot be duplicated, or there is no process: the session stays
\* with nobody in it.
NotStarted(i) ==
    /\ Running(i) /\ NameFits(i) /\ clock < MaxShells
    /\ clock' = clock + 1 /\ UNCHANGED shells

\* Execute without a script to splice into: a shell in the same session,
\* which is waited for.
execute_in_nested_shell(i, n) ==
    /\ Running(i) /\ Room /\ shells[i].reads = 0
    /\ Add(NewShell(i, "execute", n, shells[i].session, n, 0))
    /\ UNCHANGED clock

Next ==
    \E i \in DOMAIN shells :
          \/ run_startup_scripts(i) \/ NoStartup(i) \/ ScriptEnds(i) \/ EndCLI(i)
          \/ launch_console(i) \/ NotStarted(i)
          \/ \E c \in Script : \/ \E asynch \in BOOLEAN : launch_command(i, c, asynch)
                               \/ execute_in_nested_shell(i, c)

Spec == Init /\ [][Next]_vars

-----------------------------------------------------------------------------
TypeOK ==
    /\ clock \in 0..(2 * MaxShells) /\ Len(shells) \in 1..MaxShells
    /\ \A i \in DOMAIN shells :
          /\ shells[i].caller \in 0..(i - 1) /\ shells[i].by \in {"user", "console", "system", "execute"}
          /\ shells[i].state \in {"new", "running", "ended"}
          /\ shells[i].reads \in 0..MaxShells /\ shells[i].inherited \in 0..MaxShells
          /\ {shells[i].asked, shells[i].startup, shells[i].stream}
                \subseteq Script \union {NoScript, StartupSet}

\* "this one runs what it was given and ends" (run_startup_scripts): a shell
\* that was started for a script and found it reads that script, from a
\* stream no other shell reads, wherever in a chain of shells it was started.
RunsWhatItWasGiven ==
    \A i \in DOMAIN shells :
        shells[i].by \in {"system", "execute"} /\ shells[i].state = "running" /\ shells[i].found
            => shells[i].reads = i /\ shells[i].stream = shells[i].asked

\* Only Execute shares a session ("It shares this session",
\* execute_in_nested_shell): a window and a command given to System() have
\* one that no shell before them had, even when one process starts several.
OwnSession ==
    \A j \in DOMAIN shells : shells[j].by \in {"console", "system"}
        => \A i \in 1..(j - 1) : shells[i].session # shells[j].session

\* "The startup set belongs to a shell somebody is going to type at"
\* (run_startup_scripts): the shell of a new window runs the startup set and
\* reads nobody else's script.
WindowIsTypedAt ==
    \A i \in DOMAIN shells :
        shells[i].by = "console" /\ shells[i].state = "running"
            => shells[i].reads \in {0, i} /\ shells[i].stream \in {NoScript, StartupSet}
=============================================================================
