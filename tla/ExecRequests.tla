---------------------------- MODULE ExecRequests ----------------------------
(***************************************************************************)
(* Asynchronous I/O requests of the Exec runtime (src/aros_exec_runtime.c):*)
(* SendIO() gives each request a worker thread, which reads the console    *)
(* unit's input or sleeps out a timer, marks the request finished and puts *)
(* it on the reply port; the caller collects it with WaitIO(), which may   *)
(* find other requests' replies on the same port first, and may AbortIO()  *)
(* it at any moment before that.                                           *)
(***************************************************************************)
EXTENDS Integers, Sequences, FiniteSets

CONSTANTS
    Reads, Timers,    \* the requests, by the device they are sent to
    MaxInput,         \* how much is typed
    MaxSends

Request == Reads \cup Timers

VARIABLES
    worker,     \* where a request's worker is
    aborted, finished, io_Error,
    woken,      \* the condition the worker sleeps on was broadcast
    input,      \* bytes in the console unit
    port,       \* the reply port
    client,     \* what the caller is doing
    deferred,   \* replies WaitIO() has taken that are not its own
    replied,    \* history: replies in the order they were put
    fed, sends

vars == <<worker, aborted, finished, io_Error, woken, input, port, client,
          deferred, replied, fed, sends>>

ABORTED == -2

Init ==
    /\ worker = [r \in Request |-> "none"]
    /\ aborted = [r \in Request |-> FALSE] /\ finished = aborted
    /\ woken = aborted /\ io_Error = [r \in Request |-> 0]
    /\ input = 0 /\ port = <<>> /\ deferred = <<>> /\ replied = <<>>
    /\ client = <<"running", 0>> /\ fed = 0 /\ sends = 0

Running == client[1] = "running"

\* new_io_state and the worker thread; the thread may be refused, and then
\* the request is finished on the spot and no reply is put.
SendIO(r) ==
    /\ Running /\ worker[r] = "none" /\ sends < MaxSends
    /\ sends' = sends + 1
    /\ \/ /\ worker' = [worker EXCEPT ![r] = "looking"]
          /\ finished' = [finished EXCEPT ![r] = FALSE]
          /\ io_Error' = [io_Error EXCEPT ![r] = 0]
       \/ /\ worker' = [worker EXCEPT ![r] = "refused"]
          /\ finished' = [finished EXCEPT ![r] = TRUE]
          /\ io_Error' = [io_Error EXCEPT ![r] = -1]
    /\ aborted' = [aborted EXCEPT ![r] = FALSE]
    /\ woken' = [woken EXCEPT ![r] = FALSE]
    /\ UNCHANGED <<input, port, client, deferred, replied, fed>>

\* ---- The worker

Looks(r) ==
    \/ worker[r] = "looking"
    \/ worker[r] = "asleep" /\ woken[r]

ReadDone(r, error) ==
    /\ worker' = [worker EXCEPT ![r] = "done"]
    /\ io_Error' = [io_Error EXCEPT ![r] = error]

\* One look by host_read under the unit's lock: bytes, an abort, or sleep.
host_read(r) ==
    /\ r \in Reads /\ Looks(r)
    /\ IF input > 0 THEN ReadDone(r, 0) /\ input' = 0
       ELSE IF aborted[r] THEN ReadDone(r, ABORTED) /\ UNCHANGED input
       ELSE /\ worker' = [worker EXCEPT ![r] = "asleep"]
            /\ UNCHANGED <<io_Error, input>>
    /\ woken' = [woken EXCEPT ![r] = FALSE]
    /\ UNCHANGED <<aborted, finished, port, client, deferred, replied, fed,
                   sends>>

\* A timer sleeps on its own request's condition until it is due or aborted.
wait_for_timer_or_abort(r) ==
    /\ r \in Timers
    /\ \/ Looks(r) /\ IF aborted[r] THEN ReadDone(r, ABORTED)
                      ELSE worker' = [worker EXCEPT ![r] = "asleep"]
                           /\ UNCHANGED io_Error
       \/ worker[r] = "asleep"            \* ETIMEDOUT
          /\ ReadDone(r, IF aborted[r] THEN ABORTED ELSE 0)
    /\ woken' = [woken EXCEPT ![r] = FALSE]
    /\ UNCHANGED <<aborted, finished, input, port, client, deferred, replied,
                   fed, sends>>

\* io_worker: an abort that came in the meantime decides the error.
Finish(r) ==
    /\ worker[r] = "done" /\ worker' = [worker EXCEPT ![r] = "replying"]
    /\ finished' = [finished EXCEPT ![r] = TRUE]
    /\ io_Error' = [io_Error EXCEPT ![r] = IF aborted[r] THEN ABORTED ELSE @]
    /\ UNCHANGED <<aborted, woken, input, port, client, deferred, replied, fed,
                   sends>>
Reply(r) ==
    /\ worker[r] = "replying" /\ worker' = [worker EXCEPT ![r] = "ended"]
    /\ port' = Append(port, r) /\ replied' = Append(replied, r)
    /\ UNCHANGED <<aborted, finished, io_Error, woken, input, client, deferred,
                   fed, sends>>

\* ---- The caller

\* AbortIO sets the mark and wakes the request's own condition ...
AbortIO(r) ==
    /\ Running /\ worker[r] \notin {"none", "refused"} /\ ~aborted[r]
    /\ aborted' = [aborted EXCEPT ![r] = TRUE]
    /\ woken' = [woken EXCEPT ![r] = @ \/ (r \in Timers /\ worker[r] = "asleep")]
    /\ client' = <<"aborting", r>>
    /\ UNCHANGED <<worker, finished, io_Error, input, port, deferred, replied,
                   fed, sends>>
\* ... and then, under the unit's lock, every reader of the unit.
WakesNobody == woken' = woken
WakesReaders == woken' = [r \in Request |->
                            woken[r] \/ (r \in Reads /\ worker[r] = "asleep")]
AbortIOWakes ==
    /\ client[1] = "aborting" /\ client' = <<"running", 0>> /\ WakesReaders
    /\ UNCHANGED <<worker, aborted, finished, io_Error, input, port, deferred,
                   replied, fed, sends>>

WaitIO(r) ==
    /\ Running /\ worker[r] # "none" /\ client' = <<"waiting", r>>
    /\ UNCHANGED <<worker, aborted, finished, io_Error, woken, input, port,
                   deferred, replied, fed, sends>>

RestoredAtTail(taken, rest) == rest \o taken
restore_reply_messages(taken, rest) == taken \o rest

\* One WaitPort/GetMsg turn of WaitIO's loop.  Another request's reply is set
\* aside; at its own it puts the others back in front and joins the worker.
WaitIOTakes ==
    /\ client[1] = "waiting" /\ port # <<>>
    /\ LET r == client[2] IN
       IF Head(port) = r
       THEN /\ port' = restore_reply_messages(deferred, Tail(port))
            /\ deferred' = <<>> /\ client' = <<"running", 0>>
            /\ worker' = [worker EXCEPT ![r] = "none"]
            /\ replied' = SelectSeq(replied, LAMBDA x : x # r)
       ELSE /\ deferred' = Append(deferred, Head(port)) /\ port' = Tail(port)
            /\ UNCHANGED <<client, worker, replied>>
    /\ UNCHANGED <<aborted, finished, io_Error, woken, input, fed, sends>>

\* ace_aros_console_feed, from the window's side.
ace_aros_console_feed ==
    /\ fed < MaxInput /\ fed' = fed + 1 /\ input' = input + 1 /\ WakesReaders
    /\ UNCHANGED <<worker, aborted, finished, io_Error, port, client, deferred,
                   replied, sends>>

WorkerStep(r) ==
    host_read(r) \/ wait_for_timer_or_abort(r) \/ Finish(r) \/ Reply(r)
Next ==
    \/ \E r \in Request : SendIO(r) \/ AbortIO(r) \/ WaitIO(r) \/ WorkerStep(r)
    \/ AbortIOWakes \/ WaitIOTakes \/ ace_aros_console_feed

Spec == Init /\ [][Next]_vars
\* A thread that can run does run; the caller finishes a call it is inside.
FairSpec == Spec /\ WF_vars(AbortIOWakes) /\ WF_vars(WaitIOTakes)
                 /\ \A r \in Request : WF_vars(WorkerStep(r))

TypeOK ==
    /\ \A r \in Request : worker[r] \in {"none", "looking", "asleep", "done",
                                         "replying", "ended", "refused"}
    /\ \A r \in Request : io_Error[r] \in {0, -1, ABORTED}
    /\ input \in 0..MaxInput /\ client[2] \in Request \cup {0}
    /\ {port[i] : i \in DOMAIN port} \subseteq Request

\* WaitIO() for one request neither loses nor reorders the replies of the
\* others sharing its port: what it has set aside followed by what is queued
\* is always exactly the uncollected replies, in the order they came.
RepliesKept == deferred \o port = replied

Aborted(r) == aborted[r]
Over(r) == finished[r] \/ ~aborted[r]

\* An aborted request is answered: its worker wakes, whatever it was asleep
\* on and at whatever point of its look the abort came, and finishes it.
AbortEnds == \A r \in Request : Aborted(r) ~> Over(r)
=============================================================================
