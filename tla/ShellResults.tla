----------------------------- MODULE ShellResults -----------------------------
(***************************************************************************)
(* Return codes.  A shell keeps a copy of its CLI (native_dos.c), the       *)
(* session's result is in the broker, and every command is a process that   *)
(* publishes its own result there as it ends.  A shell started by System()  *)
(* ends with a code for its caller (ace_user_shell.c).                      *)
(*                                                                         *)
(* AROS's Shell.c is external: for each line it asks Cli(), runs the        *)
(* command with RunCommand() or finds that there is none, and asks Cli()    *)
(* again before the next line.                                              *)
(***************************************************************************)
EXTENDS Integers

CONSTANTS Code,        \* return codes a command may end with, 0 among them
          MaxLines,
          Background,  \* a command may be started with Run
          Tidy         \* a command that ends with 0 leaves no error behind

RETURN_OK == 0
RETURN_ERROR == 10
NotFound == 205
FailLevels == {0, 10}

VARIABLES pc,          \* where the shell is in its line
          broker,      \* the session: [rc, r2, fail]
          cli,         \* native_cli: [loaded, rc, r2, fail, background]
          published,   \* native_shell_result_published
          endcli,      \* native_endcli_requested
          last,        \* what the last line came to
          running,     \* a command started with Run that is still running
          lines,
          reachable,   \* the broker answers
          code         \* the shell's exit code, or -1

vars == <<pc, broker, cli, published, endcli, last, running, lines, reachable, code>>

Init ==
    /\ pc = "prompt" /\ reachable = TRUE /\ lines = 0 /\ code = -1
    /\ broker = [rc |-> 0, r2 |-> 0, fail |-> 10]
    /\ cli = [loaded |-> FALSE, rc |-> 0, r2 |-> 0, fail |-> 10, background |-> FALSE]
    /\ published = FALSE /\ endcli = FALSE /\ last = 0 /\ running = FALSE

Errors(rc) == IF Tidy /\ rc = RETURN_OK THEN {0} ELSE {0, NotFound}

-----------------------------------------------------------------------------
(* native_publish_shell_result: an error that Shell.c recorded and no        *)
(* command published is promoted, once.                                     *)

Promotes == cli.loaded /\ ~published /\ cli.rc = RETURN_OK /\ cli.r2 # 0
Promoted == IF Promotes /\ reachable THEN [broker EXCEPT !.rc = RETURN_ERROR, !.r2 = cli.r2] ELSE broker
Overwrites == IF cli.loaded /\ cli.r2 # 0 /\ reachable
              THEN [broker EXCEPT !.rc = RETURN_ERROR, !.r2 = cli.r2] ELSE broker
NeverPromoted == broker
native_publish_shell_result == Promoted

\* Cli(): promote, then take the session's state; a clean result ends the
\* promotion.  Without a broker the last state read is kept.
Cli(next) ==
    LET b == native_publish_shell_result
        was == published \/ Promotes
    IN /\ broker' = b
       /\ IF reachable
          THEN /\ cli' = [loaded |-> TRUE, rc |-> b.rc, r2 |-> b.r2,
                          fail |-> IF endcli THEN 0 ELSE b.fail, background |-> cli.background \/ endcli]
               /\ published' = (was /\ ~(b.rc = RETURN_OK /\ b.r2 = 0))
          ELSE /\ cli' = [cli EXCEPT !.loaded = TRUE, !.rc = IF Promotes THEN RETURN_ERROR ELSE @]
               /\ published' = was
       /\ pc' = next
       /\ UNCHANGED <<endcli, last, running, lines, reachable, code>>

AskBefore == pc = "prompt" /\ lines < MaxLines /\ ~endcli /\ Cli("ready")
AskAfter == pc = "ran" /\ Cli("prompt")
AskOnceMore == pc = "ran" /\ Cli("ran")

-----------------------------------------------------------------------------
(* A line.                                                                  *)

\* native_publish_result, in the command's own process.
native_publish_result(rc, err) ==
    IF reachable THEN [broker EXCEPT !.rc = rc, !.r2 = err] ELSE broker

\* RunCommand: the command publishes, the shell learns the exit status.
RunCommand(rc, err) ==
    /\ pc = "ready" /\ err \in Errors(rc)
    /\ broker' = native_publish_result(rc, err)
    /\ cli' = [cli EXCEPT !.rc = rc, !.r2 = 0]
    /\ last' = rc /\ lines' = lines + 1 /\ pc' = "ran"
    /\ UNCHANGED <<published, endcli, running, reachable, code>>

\* There is no such command: Shell.c records it in its own CLI alone.
CommandNotFound ==
    /\ pc = "ready"
    /\ cli' = [cli EXCEPT !.rc = RETURN_OK, !.r2 = NotFound]
    /\ last' = NotFound /\ lines' = lines + 1 /\ pc' = "ran"
    /\ UNCHANGED <<broker, published, endcli, running, reachable, code>>

\* EndCLI: the command sets the session's mark and ends with a status of its
\* own, or with 0; either way native_request_endcli is the shell's answer.
EndCli ==
    /\ pc = "ready"
    /\ broker' = [native_publish_result(RETURN_OK, 0) EXCEPT !.fail = IF reachable THEN 0 ELSE @]
    /\ endcli' = TRUE
    /\ cli' = [cli EXCEPT !.rc = RETURN_OK, !.r2 = 0, !.fail = 0, !.background = TRUE]
    /\ last' = RETURN_OK /\ lines' = lines + 1 /\ pc' = "ran"
    /\ UNCHANGED <<published, running, reachable, code>>

\* Run: the command is in the background, and Run itself succeeds.
RunInBackground ==
    /\ Background /\ pc = "ready" /\ ~running /\ running' = TRUE
    /\ broker' = native_publish_result(RETURN_OK, 0)
    /\ cli' = [cli EXCEPT !.rc = RETURN_OK, !.r2 = 0]
    /\ last' = RETURN_OK /\ lines' = lines + 1 /\ pc' = "ran"
    /\ UNCHANGED <<published, endcli, reachable, code>>
BackgroundEnds(rc) ==
    /\ running /\ running' = FALSE /\ code = -1
    /\ broker' = native_publish_result(rc, 0)
    /\ UNCHANGED <<pc, cli, published, endcli, last, lines, reachable, code>>

\* The shell ends: the same promotion once more, and the session's code.
shell_return_code == IF reachable THEN native_publish_shell_result.rc ELSE RETURN_OK
ShellEnds ==
    /\ pc = "prompt" /\ code = -1
    /\ broker' = native_publish_shell_result /\ code' = shell_return_code /\ pc' = "ended"
    /\ UNCHANGED <<cli, published, endcli, last, running, lines, reachable>>

BrokerFails == reachable /\ pc # "ended" /\ reachable' = FALSE
               /\ UNCHANGED <<pc, broker, cli, published, endcli, last, running, lines, code>>

Next ==
    \/ AskBefore \/ AskAfter \/ AskOnceMore \/ CommandNotFound \/ RunInBackground
    \/ ShellEnds \/ BrokerFails \/ EndCli
    \/ \E rc \in Code, err \in {0, NotFound} : RunCommand(rc, err)
    \/ \E rc \in Code : BackgroundEnds(rc)

Spec == Init /\ [][Next]_vars

-----------------------------------------------------------------------------

\* The shell's copy, the session and the flags have their types.
TypeOK ==
    /\ pc \in {"prompt", "ready", "ran", "ended"}
    /\ broker.rc \in Code \cup {RETURN_OK, RETURN_ERROR} /\ broker.r2 \in {0, NotFound}
    /\ cli.rc \in Code \cup {RETURN_OK, RETURN_ERROR} /\ cli.fail \in FailLevels
    /\ {published, endcli, running, reachable} \subseteq BOOLEAN /\ lines \in 0..MaxLines

\* A caller that waited for a shell learns of a failure, and only of one: the
\* shell ends with 0 exactly when its last line succeeded, a command that was
\* not found included (native_publish_shell_result, shell_return_code).
FailureReachesCaller ==
    code # -1 /\ reachable => (code = RETURN_OK) = (last = RETURN_OK)

\* The result the session holds when the next line begins is that of the line
\* before, so that Why and FailAt judge the right one: a promotion never
\* replaces what a command published.
PublishedResultStands ==
    pc = "ready" /\ reachable /\ last \in Code => broker.rc = last

\* "A Shell exits with the return code of the last command it ran"
\* (ace_user_shell.c), also when a command started with Run ends late.
ExitIsLastCommand == code # -1 /\ reachable /\ last \in Code => code = last
=============================================================================
