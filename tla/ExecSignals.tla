---------------------------- MODULE ExecSignals ----------------------------
(***************************************************************************)
(* The Exec task, signal and message-port calls of one ACE process         *)
(* (src/aros_exec_runtime.c, src/native_dos.c).  The command's own thread  *)
(* calls Wait(), WaitPort(), GetMsg(), SetSignal(); breaks come to it over *)
(* the broker's control connection, through a host signal and the          *)
(* dispatcher thread, or from a signal handler that may take no lock; a    *)
(* second thread puts messages on its port.                                *)
(*                                                                         *)
(* One lock region is one step.  A condition variable is its sleeper: a    *)
(* thread that found nothing is asleep until somebody broadcasts, whatever *)
(* the state it waits for has become.                                      *)
(***************************************************************************)
EXTENDS Naturals, FiniteSets

CONSTANTS MaxBreaks, MaxMessages   \* how much is sent

VARIABLES
    current_task,     \* the identity the command's thread goes by
    tasks,            \* the tasks that have an ace_task_state
    pending_signals, broker_pending_signals, host_pending_signals,
    host_signal_target, pipe,          \* breaks in host_signal_pipe
    owner, queue,     \* the port: whose signal it raises, how many messages
    putting,          \* PutMsg has linked its message and not yet signalled
    at,               \* where the command's thread is
    woken,            \* its condition variable was broadcast
    sent, seen, owed, messages   \* history

vars == <<current_task, tasks, pending_signals, broker_pending_signals,
          host_pending_signals, host_signal_target, pipe, owner, queue,
          putting, at, woken, sent, seen, owed, messages>>

Task == {"implicit", "process"}
None == "none"
Break == "ctrl-c"
PortBit == "port"
Signals == {Break, PortBit}
Masks == SUBSET Signals \ {{}}

Init ==
    /\ current_task = "implicit" /\ tasks = {}
    /\ pending_signals = [t \in Task |-> {}]
    /\ broker_pending_signals = {} /\ host_pending_signals = {}
    /\ host_signal_target = None /\ pipe = 0
    /\ owner = None /\ queue = 0 /\ putting = FALSE
    /\ at = <<"running", {}>> /\ woken = FALSE
    /\ sent = 0 /\ seen = 0 /\ owed = FALSE /\ messages = 0

Running == at[1] = "running"

\* native_activate_task: every DOS call first makes the thread the process's
\* task; from then on the broker and the host know where to send a break.
ace_aros_runtime_set_current_task ==
    /\ Running
    /\ current_task' = "process" /\ tasks' = tasks \cup {"process"}
    /\ host_signal_target' = "process"
    /\ UNCHANGED <<pending_signals, broker_pending_signals, host_pending_signals,
                   pipe, owner, queue, putting, at, woken, sent, seen, owed,
                   messages>>

\* ---- Breaks on their way in

BroadcastToTasks(signals) ==
    /\ broker_pending_signals' = broker_pending_signals \cup signals
    /\ pending_signals' = [t \in Task |->
         IF t \in tasks THEN pending_signals[t] \cup signals
                        ELSE pending_signals[t]]

\* A break over the control connection of the attached process.
ace_aros_runtime_signal_local_tasks ==
    /\ sent < MaxBreaks /\ "process" \in tasks
    /\ sent' = sent + 1 /\ owed' = TRUE
    /\ BroadcastToTasks({Break})
    /\ woken' = (woken \/ at[1] = "wait")
    /\ UNCHANGED <<current_task, tasks, host_pending_signals,
                   host_signal_target, pipe, owner, queue, putting, at, seen,
                   messages>>

\* The async-signal-safe half of a host break only writes to the pipe.
host_break_handler ==
    /\ sent < MaxBreaks /\ sent' = sent + 1 /\ pipe' = pipe + 1
    /\ UNCHANGED <<current_task, tasks, pending_signals, broker_pending_signals,
                   host_pending_signals, host_signal_target, owner, queue,
                   putting, at, woken, seen, owed, messages>>

host_signal_broadcast == woken' = (woken \/ at[1] = "wait")

\* The dispatcher thread delivers it; there may be no task to deliver to yet.
\* ace_aros_runtime_signal_task would also merge host_pending_signals, into
\* the dispatcher's own implicit task, where nobody looks.
host_signal_dispatch ==
    /\ pipe > 0 /\ pipe' = pipe - 1
    /\ IF host_signal_target = None
       THEN UNCHANGED <<pending_signals, host_pending_signals, woken, owed>>
       ELSE /\ pending_signals' =
                 [pending_signals EXCEPT ![host_signal_target] = @ \cup {Break}]
            /\ host_pending_signals' = {}
            /\ owed' = TRUE
            /\ host_signal_broadcast
    /\ UNCHANGED <<current_task, tasks, broker_pending_signals,
                   host_signal_target, owner, queue, putting, at, sent, seen,
                   messages>>

\* A shell's own handler, while a command of its runs: one OR into a
\* sig_atomic_t.
ace_aros_runtime_raise_from_host ==
    /\ "process" \in tasks /\ sent < MaxBreaks /\ sent' = sent + 1
    /\ host_pending_signals' = host_pending_signals \cup {Break}
    /\ UNCHANGED <<current_task, tasks, pending_signals, broker_pending_signals,
                   host_signal_target, pipe, owner, queue, putting, at, woken,
                   seen, owed, messages>>

\* ---- The thread's own calls

\* merge_host_signals_locked: what the caller then finds pending.
Merged == [pending_signals EXCEPT ![current_task] = @ \cup host_pending_signals]
Found(mask) ==
    (Merged[current_task] \cup broker_pending_signals) \cap mask

Took(signals) ==
    /\ seen' = IF Break \in signals THEN seen + 1 ELSE seen
    /\ owed' = ((owed \/ host_pending_signals # {}) /\ Break \notin signals)

\* One look by Wait(): it takes what it asked for, or goes (back) to sleep.
WaitClearsAll(mask) ==
    /\ pending_signals' = [Merged EXCEPT ![current_task] = {}]
    /\ broker_pending_signals' = broker_pending_signals \ mask
WaitClears(mask) ==
    /\ pending_signals' = [Merged EXCEPT ![current_task] = @ \ Found(mask)]
    /\ broker_pending_signals' = broker_pending_signals \ Found(mask)

WaitLooks(mask) ==
    /\ host_pending_signals' = {} /\ tasks' = tasks \cup {current_task}
    /\ IF Found(mask) = {}
       THEN /\ pending_signals' = Merged /\ at' = <<"wait", mask>>
            /\ UNCHANGED <<broker_pending_signals, seen>>
            /\ owed' = (owed \/ host_pending_signals # {})
       ELSE WaitClears(mask) /\ Took(Found(mask)) /\ at' = <<"running", {}>>
    /\ woken' = FALSE
    /\ UNCHANGED <<current_task, host_signal_target, pipe, owner, queue,
                   putting, sent, messages>>
Wait == \/ Running /\ \E mask \in Masks : WaitLooks(mask)
        \/ at[1] = "wait" /\ woken /\ WaitLooks(at[2])

\* SetSignal(0, clear) polls and clears the caller's own task state.
ace_aros_runtime_set_signal ==
    /\ Running /\ current_task = "process"
    /\ \E clear \in SUBSET {Break} :
         /\ pending_signals' = [Merged EXCEPT ![current_task] = @ \ clear]
         /\ Took(Merged[current_task] \cap clear)
    /\ host_pending_signals' = {}
    /\ UNCHANGED <<current_task, tasks, broker_pending_signals,
                   host_signal_target, pipe, owner, queue, putting, at, woken,
                   sent, messages>>

\* CheckSignal() looks and takes nothing.
ace_aros_runtime_check_signal ==
    /\ Running /\ current_task = "process" /\ host_pending_signals # {}
    /\ pending_signals' = Merged /\ host_pending_signals' = {} /\ owed' = TRUE
    /\ UNCHANGED <<current_task, tasks, broker_pending_signals,
                   host_signal_target, pipe, owner, queue, putting, at, woken,
                   sent, seen, messages>>

\* ---- The port

CreateMsgPort ==
    /\ Running /\ owner = None /\ owner' = current_task
    /\ UNCHANGED <<current_task, tasks, pending_signals, broker_pending_signals,
                   host_pending_signals, host_signal_target, pipe, queue,
                   putting, at, woken, sent, seen, owed, messages>>

\* PutMsg links the message and wakes WaitPort under the port's lock ...
PutMsg ==
    /\ owner # None /\ ~putting /\ messages < MaxMessages
    /\ messages' = messages + 1 /\ queue' = queue + 1 /\ putting' = TRUE
    /\ woken' = (woken \/ at[1] = "waitport")
    /\ UNCHANGED <<current_task, tasks, pending_signals, broker_pending_signals,
                   host_pending_signals, host_signal_target, pipe, owner, at,
                   sent, seen, owed>>
\* ... and raises the owner's signal afterwards, under the runtime's.
PutMsgSignals ==
    /\ putting /\ putting' = FALSE /\ tasks' = tasks \cup {owner}
    /\ pending_signals' = [pending_signals EXCEPT ![owner] = @ \cup {PortBit}]
    /\ woken' = (woken \/ at[1] = "wait")
    /\ UNCHANGED <<current_task, broker_pending_signals, host_pending_signals,
                   host_signal_target, pipe, owner, queue, at, sent, seen,
                   owed, messages>>

\* WaitPort returns with the message still queued.
WaitPort ==
    /\ owner # None
    /\ Running \/ (at[1] = "waitport" /\ woken)
    /\ at' = IF queue > 0 THEN <<"running", {}>> ELSE <<"waitport", {}>>
    /\ woken' = FALSE
    /\ UNCHANGED <<current_task, tasks, pending_signals, broker_pending_signals,
                   host_pending_signals, host_signal_target, pipe, owner, queue,
                   putting, sent, seen, owed, messages>>

GetMsg ==
    /\ Running /\ owner # None
    /\ IF queue > 0 THEN queue' = queue - 1 /\ at' = at
                    ELSE queue' = queue /\ at' = <<"emptied", {}>>
    /\ UNCHANGED <<current_task, tasks, pending_signals, broker_pending_signals,
                   host_pending_signals, host_signal_target, pipe, owner,
                   putting, woken, sent, seen, owed, messages>>
\* Having found the port empty it takes the port's signal back, in a second
\* lock region.
GetMsgClears ==
    /\ at[1] = "emptied" /\ at' = <<"running", {}>>
    /\ pending_signals' =
         [pending_signals EXCEPT ![owner] = IF owner \in tasks THEN @ \ {PortBit}
                                            ELSE @]
    /\ UNCHANGED <<current_task, tasks, broker_pending_signals,
                   host_pending_signals, host_signal_target, pipe, owner, queue,
                   putting, woken, sent, seen, owed, messages>>

Next == \/ ace_aros_runtime_set_current_task
        \/ ace_aros_runtime_signal_local_tasks
        \/ host_break_handler \/ host_signal_dispatch
        \/ ace_aros_runtime_raise_from_host
        \/ Wait \/ ace_aros_runtime_set_signal \/ ace_aros_runtime_check_signal
        \/ CreateMsgPort \/ PutMsg \/ PutMsgSignals \/ WaitPort
        \/ GetMsg \/ GetMsgClears
Spec == Init /\ [][Next]_vars

TypeOK ==
    /\ current_task \in Task /\ tasks \subseteq Task
    /\ pending_signals \in [Task -> SUBSET Signals]
    /\ broker_pending_signals \subseteq {Break}
    /\ host_pending_signals \subseteq {Break}
    /\ host_signal_target \in Task \cup {None} /\ owner \in Task \cup {None}
    /\ pipe \in 0..MaxBreaks /\ queue \in 0..MaxMessages
    /\ at[1] \in {"running", "wait", "waitport", "emptied"}
    /\ {putting, woken, owed} \subseteq BOOLEAN

\* A thread asleep in Wait() or WaitPort() that nobody has woken is waiting
\* for something that really has not come: no signal of its mask is pending
\* for it and no message is queued.  Every sender must broadcast after it
\* changed the state, and every sleeper must look under the same lock.
NoLostWakeup ==
    ~woken =>
      /\ at[1] = "wait" =>
           at[2] \cap (pending_signals[current_task] \cup broker_pending_signals)
             = {}
      /\ at[1] = "waitport" => queue = 0

\* A break the runtime has delivered and the command has not yet taken is
\* where the command's next Wait() will find it, whatever else the command
\* waited for, polled or received in between.
BreakIsKept ==
    owed => Break \in pending_signals[current_task] \cup broker_pending_signals
                        \cup host_pending_signals

\* One break is one break: the command takes no more of them than were sent,
\* as the bits a control connection brings are kept until the process
\* consumes them.
BreakSeenOnce == seen <= sent
=============================================================================
