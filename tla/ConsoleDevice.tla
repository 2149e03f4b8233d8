---------------------------- MODULE ConsoleDevice ----------------------------
(***************************************************************************)
(* A console unit (src/console_device.c): requests of several threads      *)
(* queue for one worker thread, which serves them in turn and sleeps for   *)
(* input under a read.  AbortIO() and CloseDevice() may come at any point  *)
(* of that; a request is answered (done) by the worker, by the abort that  *)
(* took it off the queue, or by the close that took the queue.             *)
(***************************************************************************)
EXTENDS Naturals, Sequences

CONSTANTS Reads, Writes,   \* requests, each with a thread of its own
          MaxSends, MaxInput

Request == Reads \cup Writes

VARIABLES
    queue, at,        \* the unit's queue; a request's place in its life
    aborted, done,
    worker,           \* the request the worker serves, 0 when none
    asleep, woken,    \* the worker sleeps for input; it was signalled
    input, closing,   \* bytes buffered; the close's progress
    detached,         \* requests the close has taken off the unit
    waiting,          \* the request's thread is in WaitIO
    answers, sends, fed   \* history

vars == <<queue, at, aborted, done, worker, asleep, woken, input, closing,
          detached, waiting, answers, sends, fed>>

Init ==
    /\ queue = <<>> /\ at = [r \in Request |-> "free"]
    /\ aborted = [r \in Request |-> FALSE] /\ done = aborted
    /\ waiting = aborted
    /\ worker = 0 /\ asleep = FALSE /\ woken = FALSE
    /\ input = 0 /\ closing = "open" /\ detached = <<>>
    /\ answers = [r \in Request |-> 0] /\ sends = 0 /\ fed = 0

Answer(r) ==
    /\ done' = [done EXCEPT ![r] = TRUE]
    /\ answers' = [answers EXCEPT ![r] = @ + 1]

\* SendIO, refused once the unit is closing; the thread then waits.
amiga_console_SendIO(r) ==
    /\ at[r] = "free" /\ sends < MaxSends /\ sends' = sends + 1
    /\ closing = "open"
    /\ queue' = Append(queue, r) /\ at' = [at EXCEPT ![r] = "queued"]
    /\ done' = [done EXCEPT ![r] = FALSE]
    /\ aborted' = [aborted EXCEPT ![r] = FALSE]
    /\ answers' = [answers EXCEPT ![r] = 0]
    /\ waiting' = [waiting EXCEPT ![r] = TRUE]
    /\ UNCHANGED <<worker, asleep, woken, input, closing, detached, fed>>

amiga_console_WaitIO(r) ==
    /\ waiting[r] /\ done[r]
    /\ waiting' = [waiting EXCEPT ![r] = FALSE]
    /\ at' = [at EXCEPT ![r] = "free"]
    /\ UNCHANGED <<queue, aborted, done, worker, asleep, woken, input, closing,
                   detached, answers, sends, fed>>

\* ---- The worker

WorkerTakes ==
    /\ worker = 0 /\ queue # <<>> /\ closing # "closed"
    /\ worker' = Head(queue) /\ queue' = Tail(queue)
    /\ at' = [at EXCEPT ![Head(queue)] = "running"]
    /\ UNCHANGED <<aborted, done, asleep, woken, input, closing, detached,
                   waiting, answers, sends, fed>>

\* One look of queued_input_read under the unit's lock.
queued_input_read ==
    /\ worker \in Reads /\ at[worker] = "running" /\ (asleep => woken)
    /\ woken' = FALSE
    /\ IF closing = "open" /\ input = 0 /\ ~aborted[worker]
       THEN asleep' = TRUE /\ UNCHANGED <<at, input>>
       ELSE /\ asleep' = FALSE /\ at' = [at EXCEPT ![worker] = "served"]
            /\ input' = IF closing = "open" THEN 0 ELSE input
    /\ UNCHANGED <<queue, aborted, done, worker, closing, detached, waiting,
                   answers, sends, fed>>
DeviceWrites ==
    /\ worker \in Writes /\ at[worker] = "running"
    /\ at' = [at EXCEPT ![worker] = "served"]
    /\ UNCHANGED <<queue, aborted, done, worker, asleep, woken, input, closing,
                   detached, waiting, answers, sends, fed>>
complete_request ==
    /\ worker # 0 /\ at[worker] = "served" /\ Answer(worker) /\ worker' = 0
    /\ at' = [at EXCEPT ![worker] = "answered"]
    /\ UNCHANGED <<queue, aborted, asleep, woken, input, closing, detached,
                   waiting, sends, fed>>

\* ---- Abort, close, input

NotRunning(r) == at[r] = "queued"   \* what state->running alone would tell
OnTheQueue(r) == \E i \in DOMAIN queue : queue[i] = r

\* The list without the node of r, which the cursor has found.
Unlinked(q, r) ==
    IF \A i \in DOMAIN q : q[i] # r THEN q
    ELSE LET at_r == CHOOSE i \in DOMAIN q : q[i] = r
         IN [j \in 1..(Len(q) - 1) |-> IF j < at_r THEN q[j] ELSE q[j + 1]]

\* Taken off the queue it is answered here; one the worker has, or the close
\* has detached, is only marked.
amiga_console_AbortIO(r) ==
    /\ waiting[r] /\ ~done[r] /\ ~aborted[r]
    /\ aborted' = [aborted EXCEPT ![r] = TRUE]
    /\ woken' = (woken \/ (asleep /\ r \in Reads))
    /\ IF OnTheQueue(r)
       THEN /\ queue' = Unlinked(queue, r)
            /\ Answer(r) /\ at' = [at EXCEPT ![r] = "answered"]
       ELSE UNCHANGED <<queue, done, answers, at>>
    /\ UNCHANGED <<worker, asleep, input, closing, detached, waiting, sends, fed>>

CloseSilently == woken' = woken
CloseWakes == woken' = (woken \/ asleep)
amiga_console_CloseDevice ==
    /\ closing = "open" /\ closing' = "draining"
    /\ detached' = queue /\ queue' = <<>> /\ CloseWakes
    /\ UNCHANGED <<at, aborted, done, worker, asleep, input, waiting, answers,
                   sends, fed>>
CloseDrains ==
    /\ closing = "draining" /\ detached # <<>>
    /\ detached' = Tail(detached) /\ Answer(Head(detached))
    /\ aborted' = [aborted EXCEPT ![Head(detached)] = TRUE]
    /\ at' = [at EXCEPT ![Head(detached)] = "answered"]
    /\ UNCHANGED <<queue, worker, asleep, woken, input, closing, waiting, sends,
                   fed>>
CloseJoins ==
    /\ closing = "draining" /\ detached = <<>> /\ worker = 0
    /\ closing' = "closed"
    /\ UNCHANGED <<queue, at, aborted, done, worker, asleep, woken, input,
                   detached, waiting, answers, sends, fed>>

amiga_console_FeedInput ==
    /\ closing = "open" /\ fed < MaxInput /\ fed' = fed + 1 /\ input' = input + 1
    /\ woken' = (woken \/ asleep)
    /\ UNCHANGED <<queue, at, aborted, done, worker, asleep, closing, detached,
                   waiting, answers, sends>>

WorkerStep == WorkerTakes \/ queued_input_read \/ DeviceWrites \/ complete_request
CloseStep == CloseDrains \/ CloseJoins
Next ==
    \/ \E r \in Request : \/ amiga_console_SendIO(r) \/ amiga_console_WaitIO(r)
                          \/ amiga_console_AbortIO(r)
    \/ WorkerStep \/ amiga_console_CloseDevice \/ CloseStep
    \/ amiga_console_FeedInput

Spec == Init /\ [][Next]_vars
\* The worker and a close in progress run whenever they can.
FairSpec == Spec /\ WF_vars(WorkerStep) /\ WF_vars(CloseStep)

TypeOK ==
    /\ worker \in Request \cup {0} /\ {asleep, woken} \subseteq BOOLEAN
    /\ closing \in {"open", "draining", "closed"} /\ input \in 0..MaxInput
    /\ \A r \in Request : at[r] \in {"free", "queued", "running", "served",
                                     "answered"}

\* A request is answered once, whoever gets there first: an abort never
\* answers what the worker is serving or the close is about to answer, so
\* nobody writes to a request whose owner has already been let go.
AnsweredOnce == \A r \in Request : answers[r] <= 1

Closing == closing # "open"
NobodyWaits == closing = "closed" /\ \A r \in Request : waiting[r] => done[r]

\* Closing the unit lets every waiting thread go, the one whose read is asleep
\* for input included, and the close itself comes to its end.
CloseEndsEveryWait == Closing ~> NobodyWaits
=============================================================================
