------------------------------ MODULE RexxMast ------------------------------
(***************************************************************************)
(* RexxMast: the server of port REXX (rexxmast.c around the upstream       *)
(* server_process) and the worker threads it runs scripts in               *)
(* (CreateNewProc, native_process.c).  The server puts a job on a linked   *)
(* list and starts a thread under one lock; a thread takes the first job   *)
(* of the list, which need not be the one it was started for, runs it and  *)
(* answers its message.  A job and the thread started for it are named by  *)
(* the message.                                                            *)
(***************************************************************************)
EXTENDS Naturals, Sequences, FiniteSets, FiniteSetTheorems, TLAPS

CONSTANTS Msg, NoJob,   \* messages, and what is none
          Kinds,    \* what the messages may be: functions from Msg to
                    \* "script", "empty", "resource", "private", "foreign", "close"
          Code      \* what scripts return

VARIABLES kind,     \* what each message is
          port,     \* messages waiting at the port, oldest first
          arrived,  \* the messages sent so far
          done,     \* RXCLOSE or a break was seen
          server,   \* [at, m]: what the server is doing, with which message
          head, tail, next,   \* rexxmast_job_head, _tail and the links
          thread,   \* "none", "started", "running", "ran", "gone", "idle"
          held,     \* the message a thread works on
          results,  \* the thread-local results, by thread
          answers,  \* the answers given, per message
          ran       \* what Regina answered for a message

vars == <<kind, port, arrived, done, server, head, tail, next, thread, held, results, answers, ran>>
jobs == <<head, tail, next>>
work == <<thread, held, results, ran>>

Unset == [started |-> FALSE, api |-> 0, code |-> 0]
Result(r1, r2) == [r1 |-> r1, r2 |-> r2]

Init ==
    /\ kind \in Kinds
    /\ port = <<>> /\ arrived = {} /\ done = FALSE
    /\ server = [at |-> "take", m |-> NoJob]
    /\ head = NoJob /\ tail = NoJob /\ next = [m \in Msg |-> NoJob]
    /\ thread = [m \in Msg |-> "none"] /\ held = [m \in Msg |-> NoJob]
    /\ results = [m \in Msg |-> Unset] /\ ran = [m \in Msg |-> Unset]
    /\ answers = [m \in Msg |-> <<>>]

Alive == server.at # "ended"

-----------------------------------------------------------------------------
(* The server. *)

Arrive(m) ==
    /\ Alive /\ m \notin arrived
    /\ arrived' = arrived \union {m} /\ port' = Append(port, m)
    /\ UNCHANGED <<done, server, jobs, work, answers>>

Break ==
    /\ Alive /\ ~done /\ done' = TRUE
    /\ UNCHANGED <<port, arrived, server, jobs, work, answers>>

Reply(m, r) == answers' = [answers EXCEPT ![m] = Append(@, r)]

\* What server_process does at once: a resource action is carried out; a
\* private one is passed on when its proxy port is known, and refused when
\* not; RXCLOSE ends the server.
Serve ==
    /\ server.at = "take" /\ port # <<>>
    /\ LET m == Head(port)
       IN /\ kind[m] \notin {"script", "empty"}
          /\ CASE kind[m] = "resource" -> Reply(m, Result(0, "none"))
               [] kind[m] = "private" -> UNCHANGED answers
               [] kind[m] = "foreign" -> Reply(m, Result(10, "number"))
               [] kind[m] = "close" -> Reply(m, Result(0, "none"))
          /\ done' = (done \/ kind[m] = "close")
    /\ port' = Tail(port)
    /\ UNCHANGED <<arrived, server, jobs, work>>

\* rexxmast_start_job up to the thread: the job goes to the end of the list,
\* and the lock is kept.
StartJob ==
    /\ server.at = "take" /\ port # <<>>
    /\ LET m == Head(port)
       IN /\ kind[m] \in {"script", "empty"}
          /\ server' = [at |-> "create", m |-> m]
          /\ tail' = m
          /\ head' = IF tail = NoJob THEN m ELSE head
          /\ next' = [n \in Msg |-> IF n = m THEN NoJob ELSE IF n = tail THEN m ELSE next[n]]
    /\ port' = Tail(port)
    /\ UNCHANGED <<arrived, done, work, answers>>

\* No memory for the job: the message is refused.
NoMemory ==
    /\ server.at = "take" /\ port # <<>> /\ kind[Head(port)] \in {"script", "empty"}
    /\ Reply(Head(port), Result(10, "number"))
    /\ port' = Tail(port)
    /\ UNCHANGED <<arrived, done, server, jobs, work>>

\* CreateNewProc: the thread exists and the lock is let go.
CreateNewProc ==
    /\ server.at = "create"
    /\ thread' = [thread EXCEPT ![server.m] = "started"]
    /\ server' = [at |-> "take", m |-> NoJob]
    /\ UNCHANGED <<port, arrived, done, jobs, held, results, ran, answers>>

\* A job that cannot be run is taken off the list again: the link that led
\* to it now leads past it, and its predecessor is the last.
LeavesJob(m) == UNCHANGED jobs
RolledBack(m) ==
    LET before == {n \in Msg : next[n] = m}
    IN /\ head' = IF head = m THEN next[m] ELSE head
       /\ next' = [n \in Msg |-> IF n \in before THEN next[m] ELSE next[n]]
       /\ tail' = IF tail # m THEN tail
                  ELSE IF before = {} THEN NoJob ELSE CHOOSE n \in before : TRUE

\* The task cannot be registered or the thread not started: the server
\* answers itself, with the upstream error number.
NoThread ==
    /\ server.at = "create"
    /\ RolledBack(server.m)
    /\ Reply(server.m, Result(10, "number"))
    /\ server' = [at |-> "take", m |-> NoJob]
    /\ UNCHANGED <<port, arrived, done, work>>

\* The process ends with its server, and its threads with it.
End ==
    /\ server.at = "take" /\ done /\ port = <<>>
    /\ server' = [at |-> "ended", m |-> NoJob]
    /\ UNCHANGED <<port, arrived, done, jobs, work, answers>>

-----------------------------------------------------------------------------
(* A worker. *)

Locked == server.at = "create"

\* The first job is taken; an empty list has no tail.
KeepsTail == head' = next[head] /\ tail' = tail
Dequeued == head' = next[head] /\ tail' = IF next[head] = NoJob THEN NoJob ELSE tail

\* rexxmast_startfile_entry up to the script: an empty command is answered
\* at once.
Take(t) ==
    /\ Alive /\ thread[t] = "started" /\ ~Locked
    /\ IF head = NoJob
       THEN /\ thread' = [thread EXCEPT ![t] = "idle"]
            /\ UNCHANGED <<jobs, held, answers>>
       ELSE /\ Dequeued
            /\ IF kind[head] = "empty"
               THEN /\ thread' = [thread EXCEPT ![t] = "gone"]
                    /\ Reply(head, Result(0, "none"))
                    /\ UNCHANGED held
               ELSE /\ thread' = [thread EXCEPT ![t] = "running"]
                    /\ held' = [held EXCEPT ![t] = head]
                    /\ UNCHANGED answers
            /\ UNCHANGED next
    /\ UNCHANGED <<port, arrived, done, server, results, ran>>

\* The results are kept per thread.
OneForAll(t) == CHOOSE m \in Msg : TRUE
Slot(t) == t

\* StartFileSlave: the script is not found, or Regina runs it, with an
\* error of its own or with what the script returns.
ace_rexxmast_rexx_start(t, r) ==
    /\ Alive /\ thread[t] = "running"
    /\ results' = [results EXCEPT ![Slot(t)] = r]
    /\ ran' = [ran EXCEPT ![held[t]] = r]
    /\ thread' = [thread EXCEPT ![t] = "ran"]
    /\ UNCHANGED <<port, arrived, done, server, jobs, held, answers>>

\* What StartFileSlave left in the message (an error of Regina's, or an
\* error number when nothing was started) is put right and answered.
Finish(t) ==
    /\ Alive /\ thread[t] = "ran"
    /\ LET r == results[Slot(t)]
           left == IF ran[held[t]].started THEN ran[held[t]].api ELSE 5
       IN Reply(held[t], IF r.started /\ r.api = 0 THEN Result(r.code, "string")
                         ELSE Result(left, "none"))
    /\ thread' = [thread EXCEPT ![t] = "gone"]
    /\ UNCHANGED <<port, arrived, done, server, jobs, held, results, ran>>

Runs == {Unset} \union {[started |-> TRUE, api |-> 1, code |-> 0]}
        \union {[started |-> TRUE, api |-> 0, code |-> c] : c \in Code}

ServerStep == Serve \/ StartJob \/ CreateNewProc \/ NoMemory \/ NoThread \/ End
WorkerStep(t) == Take(t) \/ (\E r \in Runs : ace_rexxmast_rexx_start(t, r)) \/ Finish(t)

Next ==
    /\ \/ \E m \in Msg : Arrive(m)
       \/ Break
       \/ ServerStep
       \/ \E t \in Msg : WorkerStep(t)
    /\ UNCHANGED kind

Spec == Init /\ [][Next]_vars

\* The server and every thread go on running; Regina returns from a script.
ServerRuns == ServerStep /\ UNCHANGED kind
WorkerRuns(t) == WorkerStep(t) /\ UNCHANGED kind
FairSpec == Spec /\ WF_vars(ServerRuns) /\ \A t \in Msg : WF_vars(WorkerRuns(t))

-----------------------------------------------------------------------------
TypeOK ==
    /\ kind \in Kinds
    /\ port \in Seq(Msg) /\ arrived \subseteq Msg /\ done \in BOOLEAN
    /\ server.at \in {"take", "create", "ended"} /\ server.m \in Msg \union {NoJob}
    /\ head \in Msg \union {NoJob} /\ tail \in Msg \union {NoJob}
    /\ next \in [Msg -> Msg \union {NoJob}]
    /\ thread \in [Msg -> {"none", "started", "running", "ran", "gone", "idle"}]
    /\ held \in [Msg -> Msg \union {NoJob}] /\ results \in [Msg -> Runs] /\ ran \in [Msg -> Runs]

\* The lock held around the enqueue and the creation of the thread, and the
\* care taken with the tail on both ends (rexxmast_start_job,
\* rexxmast_startfile_entry): every thread that is started finds a job,
\* whichever thread comes first and whichever creation failed.
WorkerFindsJob == \A t \in Msg : thread[t] # "idle"

\* A message is answered by the server or by one worker, never by both and
\* never twice, however threads and failed creations interleave.
AnsweredOnce == \A m \in Msg : Len(answers[m]) <= 1

\* The _Thread_local results of rexxmast.c: a script that ran is answered
\* with what this script returned, not with what another thread's did.
OwnResult ==
    \A m \in Msg : \A i \in DOMAIN answers[m] :
        ran[m].started =>
            answers[m][i].r1 = IF ran[m].api = 0 THEN ran[m].code ELSE ran[m].api

Arrived(m) == m \in arrived
Settled(m) == ~Alive \/ answers[m] # <<>> \/ kind[m] = "private"

\* Every message the port took is answered, or passed on, unless the server
\* ended first.
MessageIsAnswered == \A m \in Msg : Arrived(m) ~> Settled(m)

\* "ACE's cross-process bridge treats a nonzero result there as an argstring,
\* so do not let a numeric sentinel become a bogus pointer" (rexxmast.c): no
\* answer to a command carries a number where the bridge takes a string.
ResultIsAString ==
    \A m \in Msg : \A i \in DOMAIN answers[m] :
        answers[m][i].r2 = "number" => kind[m] = "foreign"

-----------------------------------------------------------------------------
(***************************************************************************)
(* Proofs, for any set of messages.  The links always spell a list q of    *)
(* jobs without repetition, from head to tail, and its length is the       *)
(* number of threads started and not yet served, one more while the lock   *)
(* is held: that is why a thread finds a job.  A message not yet answered  *)
(* is at the port, on the list or with one thread, and nowhere else.       *)
(***************************************************************************)

MastConstants ==
    /\ NoJob \notin Msg
    /\ Kinds \subseteq [Msg -> {"script", "empty", "resource", "private",
                                "foreign", "close"}]

Members(q) == {q[i] : i \in DOMAIN q}
Once(q) == \A i, j \in DOMAIN q : q[i] = q[j] => i = j

Stages == {"none", "started", "running", "ran", "gone", "idle"}
Started == {t \in Msg : thread[t] = "started"}
Busy == {t \in Msg : thread[t] \in {"running", "ran"}}
Answer == [r1 : {0, 1, 5, 10} \cup Code, r2 : {"none", "string", "number"}]

Types ==
    /\ MastConstants /\ kind \in Kinds
    /\ port \in Seq(Msg) /\ arrived \subseteq Msg /\ IsFiniteSet(arrived)
    /\ server \in [at : {"take", "create", "ended"}, m : Msg \cup {NoJob}]
    /\ next \in [Msg -> Msg \cup {NoJob}] /\ thread \in [Msg -> Stages]
    /\ held \in [Msg -> Msg \cup {NoJob}]
    /\ results \in [Msg -> Runs] /\ ran \in [Msg -> Runs]
    /\ answers \in [Msg -> {<<>>} \cup {<<x>> : x \in Answer}]

\* The links spell q.
Chain(q) ==
    /\ q \in Seq(Msg) /\ Once(q)
    /\ head = IF q = <<>> THEN NoJob ELSE q[1]
    /\ tail = IF q = <<>> THEN NoJob ELSE q[Len(q)]
    /\ \A i \in 1..Len(q) :
          next[q[i]] = IF i = Len(q) THEN NoJob ELSE q[i + 1]

\* As many jobs as threads, and the job of the lock's holder is the last.
Counted(q) ==
    /\ Len(q) = Cardinality(Started) + (IF Locked THEN 1 ELSE 0)
    /\ Locked => /\ q # <<>> /\ q[Len(q)] = server.m /\ server.m \in Msg
                 /\ thread[server.m] = "none"
                 /\ \A n \in Msg : next[n] = server.m => n \in Members(q)

\* Where an unanswered message is.  A link that is no longer on the list may
\* remain, but never leads to what is still at the port.
Apart(q) ==
    /\ Once(port) /\ Members(port) \subseteq arrived /\ Members(q) \subseteq arrived
    /\ \A m \in Members(port) : m \notin Members(q)
    /\ \A m \in Msg : m \notin arrived \/ m \in Members(port) => thread[m] = "none"
    /\ \A m \in Msg : m \notin arrived \/ m \in Members(port) \/ m \in Members(q)
                      => answers[m] = <<>> /\ ran[m] = Unset
    /\ \A n \in Msg : next[n] # NoJob => next[n] \in arrived /\ next[n] \notin Members(port)
    /\ \A t \in Busy :
          /\ held[t] \in arrived /\ held[t] \notin Members(port)
          /\ held[t] \notin Members(q) /\ answers[held[t]] = <<>>
          /\ thread[t] = "ran" => ran[held[t]] = results[t]
    /\ \A s, t \in Busy : held[s] = held[t] => s = t

IInv ==
    /\ Types /\ OwnResult /\ WorkerFindsJob
    /\ \E q \in Seq(Msg) : Chain(q) /\ Counted(q) /\ Apart(q)

LEMMA MembersIn == ASSUME NEW S, NEW q \in Seq(S) PROVE Members(q) \subseteq S
<1> SUFFICES ASSUME NEW i \in DOMAIN q PROVE q[i] \in S
  BY DEF Members
<1> QED
  OBVIOUS

LEMMA NoMembers == Members(<<>>) = {} /\ Once(<<>>)
BY DEF Members, Once

LEMMA AppendMembers ==
    ASSUME NEW S, NEW q \in Seq(S), NEW r \in S, Once(q), r \notin Members(q)
    PROVE  /\ Append(q, r) \in Seq(S) /\ Once(Append(q, r))
           /\ Members(Append(q, r)) = Members(q) \cup {r}
<1> DEFINE n == Len(q)
           a == Append(q, r)
<1>1. n \in Nat /\ DOMAIN q = 1..n
  OBVIOUS
<1>2. a \in Seq(S) /\ DOMAIN a = 1..(n + 1) /\ a[n + 1] = r
        /\ \A i \in 1..n : a[i] = q[i]
  BY <1>1
<1> HIDE DEF a, n
<1>3. \A i \in 1..n : a[i] # r
  BY <1>1, <1>2 DEF Members
<1>4. \A i \in 1..(n + 1) : i \in 1..n \/ i = n + 1
  BY <1>1
<1>5. Once(a)
  BY <1>1, <1>2, <1>3, <1>4 DEF Once
<1>6. n + 1 \in 1..(n + 1) /\ \A i \in 1..n : i \in 1..(n + 1)
  BY <1>1
<1>7. Members(a) = Members(q) \cup {r}
  BY <1>1, <1>2, <1>4, <1>6 DEF Members
<1> QED
  BY <1>2, <1>5, <1>7 DEF a

LEMMA TailMembers ==
    ASSUME NEW S, NEW q \in Seq(S), q # <<>>, Once(q)
    PROVE  /\ Head(q) \in Members(q) /\ Head(q) \in S
           /\ Tail(q) \in Seq(S) /\ Once(Tail(q))
           /\ Members(Tail(q)) = Members(q) \ {Head(q)}
<1> DEFINE n == Len(q)
           t == Tail(q)
<1>1. n \in Nat /\ n >= 1 /\ DOMAIN q = 1..n /\ Head(q) = q[1] /\ Head(q) \in S
  OBVIOUS
<1>2. t \in Seq(S) /\ DOMAIN t = 1..(n - 1) /\ \A i \in 1..(n - 1) : t[i] = q[i + 1]
  BY <1>1
<1> HIDE DEF t, n
<1>3. \A i \in 1..(n - 1) : i + 1 \in 1..n /\ i + 1 # 1
  BY <1>1
<1>4. 1 \in 1..n /\ \A i \in 1..n : i = 1 \/ (i - 1 \in 1..(n - 1) /\ (i - 1) + 1 = i)
  BY <1>1
<1>5. Once(t)
  <2> SUFFICES ASSUME NEW i \in 1..(n - 1), NEW j \in 1..(n - 1), t[i] = t[j]
               PROVE  i = j
    BY <1>2 DEF Once
  <2>1. i + 1 = j + 1
    BY ZenonT(40), SMTT(40), <1>1, <1>2, <1>3 DEF Once
  <2> QED
    BY <1>1, <2>1
<1>6. Members(t) \subseteq Members(q) \ {q[1]}
  <2> SUFFICES ASSUME NEW i \in 1..(n - 1)
               PROVE  t[i] \in Members(q) /\ t[i] # q[1]
    BY <1>2 DEF Members
  <2>1. PICK k \in 1..n : k = i + 1 /\ k # 1 /\ t[i] = q[k]
    BY <1>2, <1>3
  <2> QED
    BY <1>1, <1>4, <2>1 DEF Members, Once
<1>7. Members(q) \ {q[1]} \subseteq Members(t)
  <2> SUFFICES ASSUME NEW i \in 1..n, q[i] # q[1]
               PROVE  q[i] \in Members(t)
    BY <1>1 DEF Members
  <2>1. PICK k \in 1..(n - 1) : k + 1 = i
    BY <1>4
  <2> QED
    BY <1>2, <2>1 DEF Members
<1> QED
  BY SMTT(60), ZenonT(20), <1>1, <1>2, <1>4, <1>5, <1>6, <1>7 DEF t, Members

LEMMA FrontMembers ==
    ASSUME NEW S, NEW q \in Seq(S), q # <<>>, Once(q)
    PROVE  LET f == SubSeq(q, 1, Len(q) - 1)
           IN /\ f \in Seq(S) /\ Once(f) /\ Len(f) = Len(q) - 1
              /\ \A i \in 1..(Len(q) - 1) : f[i] = q[i]
              /\ Members(f) = Members(q) \ {q[Len(q)]}
<1> DEFINE n == Len(q)
           f == SubSeq(q, 1, n - 1)
<1>1. n \in Nat /\ n >= 1 /\ DOMAIN q = 1..n
  OBVIOUS
<1>2. /\ f \in Seq(S) /\ DOMAIN f = 1..(n - 1) /\ Len(f) = n - 1
      /\ \A i \in 1..(n - 1) : f[i] = q[i]
  BY <1>1
<1> HIDE DEF f, n
<1>3. /\ n \in 1..n /\ \A i \in 1..(n - 1) : i \in 1..n /\ i # n
      /\ \A i \in 1..n : i = n \/ i \in 1..(n - 1)
  BY <1>1
<1>4. Once(f)
  BY <1>1, <1>2, <1>3 DEF Once
<1>5. Members(f) \subseteq Members(q) \ {q[n]}
  BY <1>1, <1>2, <1>3 DEF Members, Once
<1>6. Members(q) \ {q[n]} \subseteq Members(f)
  BY <1>1, <1>2, <1>3 DEF Members
<1> QED
  BY <1>2, <1>4, <1>5, <1>6 DEF f, n

\* A message without an answer that is given one.
LEMMA Replied ==
    ASSUME Types, OwnResult, NEW m \in Msg, answers[m] = <<>>, NEW x \in Answer,
           Reply(m, x), ran' = ran,
           ran[m].started => x.r1 = IF ran[m].api = 0 THEN ran[m].code ELSE ran[m].api
    PROVE  /\ answers' \in [Msg -> {<<>>} \cup {<<y>> : y \in Answer}]
           /\ \A n \in Msg : n # m => answers'[n] = answers[n]
           /\ OwnResult'
<1>1. Append(<<>>, x) = <<x>>
  OBVIOUS
<1>2. answers' = [answers EXCEPT ![m] = <<x>>]
  BY <1>1 DEF Reply
<1>3. answers'[m] = <<x>> /\ \A n \in Msg : n # m => answers'[n] = answers[n]
  BY <1>2 DEF Types
<1>4. answers' \in [Msg -> {<<>>} \cup {<<y>> : y \in Answer}]
  BY <1>2 DEF Types
<1>5. OwnResult'
  <2> SUFFICES ASSUME NEW n \in Msg, NEW i \in DOMAIN answers'[n], ran[n].started
               PROVE  answers'[n][i].r1
                        = IF ran[n].api = 0 THEN ran[n].code ELSE ran[n].api
    BY DEF OwnResult
  <2>1. CASE n = m
    <3>1. i = 1 /\ answers'[n][i] = x
      BY <1>3, <2>1
    <3> QED
      BY <2>1, <3>1
  <2>2. CASE n # m
    BY <1>3, <2>2 DEF OwnResult
  <2> QED
    BY <2>1, <2>2
<1> QED
  BY <1>3, <1>4, <1>5

LEMMA StartedFinite ==
    ASSUME Types, NEW q, Apart(q)
    PROVE  IsFiniteSet(Started) /\ Cardinality(Started) \in Nat
<1>1. Started \subseteq arrived
  BY DEF Started, Apart
<1> QED
  BY <1>1, FS_Subset, FS_CardinalityType DEF Types

LEMMA MastInit == MastConstants /\ Init => IInv
<1> SUFFICES ASSUME MastConstants, Init PROVE IInv
  OBVIOUS
<1>1. Unset \in Runs
  BY DEF Runs
<1>2. Types
  BY <1>1, FS_EmptySet DEF Init, Types, Stages
<1>3. Started = {} /\ Busy = {} /\ ~Locked
  BY DEF Init, Started, Busy, Locked
<1>4. <<>> \in Seq(Msg) /\ Len(<<>>) = 0
  OBVIOUS
<1>5. Chain(<<>>)
  BY <1>4, NoMembers DEF Chain, Init
<1>6. Counted(<<>>)
  BY <1>3, <1>4, FS_EmptySet DEF Counted
<1>7. Apart(<<>>)
  BY <1>3, NoMembers DEF Apart, Init
<1>8. OwnResult /\ WorkerFindsJob
  BY DEF OwnResult, WorkerFindsJob, Init
<1> QED
  BY ZenonT(40), SMTT(40), <1>2, <1>4, <1>5, <1>6, <1>7, <1>8 DEF IInv

\* What changes neither the list nor the threads nor an answer.
LEMMA ArriveInv ==
    ASSUME IInv, NEW m \in Msg, Arrive(m), UNCHANGED kind PROVE IInv'
<1>1. PICK q \in Seq(Msg) : Chain(q) /\ Counted(q) /\ Apart(q)
  BY DEF IInv
<1>2. /\ m \notin arrived /\ arrived' = arrived \cup {m} /\ port' = Append(port, m)
      /\ UNCHANGED <<kind, server, head, tail, next, thread, held, results, ran, answers>>
  BY DEF Arrive, jobs, work
<1>3. m \notin Members(port)
  BY SMTT(60), ZenonT(20), <1>1, <1>2 DEF Apart
<1>4. /\ port' \in Seq(Msg) /\ Once(port') /\ Members(port') = Members(port) \cup {m}
  BY SMTT(60), ZenonT(20), <1>1, <1>2, <1>3, AppendMembers DEF Apart, IInv, Types
<1>5. IsFiniteSet(arrived')
  BY SMTT(60), ZenonT(20), <1>2, FS_AddElement DEF IInv, Types
<1>6. Types'
  BY SMTT(60), ZenonT(20), <1>2, <1>4, <1>5 DEF IInv, Types
<1>7. Chain(q)' /\ Counted(q)'
  BY <1>1, <1>2 DEF Chain, Counted, Started, Locked
<1>8. Apart(q)'
  BY SMTT(60), ZenonT(20), <1>1, <1>2, <1>4 DEF Apart, Busy
<1>9. OwnResult' /\ WorkerFindsJob'
  BY <1>2 DEF IInv, OwnResult, WorkerFindsJob
<1> QED
  BY <1>6, <1>7, <1>8, <1>9 DEF IInv

LEMMA QuietInv ==
    ASSUME IInv, Break \/ End \/ UNCHANGED vars, UNCHANGED kind PROVE IInv'
<1>1. PICK q \in Seq(Msg) : Chain(q) /\ Counted(q) /\ Apart(q)
  BY DEF IInv
<1>2. /\ UNCHANGED <<kind, port, arrived, head, tail, next, thread, held, results,
                     ran, answers>>
      /\ server' = server \/ (server.at = "take" /\ server' = [at |-> "ended", m |-> NoJob])
  BY DEF Break, End, vars, jobs, work
<1>3. Types'
  BY <1>2 DEF IInv, Types
<1>4. Locked' = Locked /\ (Locked => server' = server)
  BY SMTT(60), ZenonT(20), <1>2 DEF Locked
<1>5. Chain(q)' /\ Counted(q)' /\ Apart(q)'
  BY SMTT(60), ZenonT(20), <1>1, <1>2, <1>4 DEF Chain, Counted, Apart, Started, Busy
<1>6. OwnResult' /\ WorkerFindsJob'
  BY <1>2 DEF IInv, OwnResult, WorkerFindsJob
<1> QED
  BY <1>3, <1>5, <1>6 DEF IInv

\* The server answers at once, or passes the message on.
LEMMA ServeInv ==
    ASSUME IInv, Serve \/ NoMemory, UNCHANGED kind PROVE IInv'
<1>1. PICK q \in Seq(Msg) : Chain(q) /\ Counted(q) /\ Apart(q)
  BY DEF IInv
<1> DEFINE m == Head(port)
<1>2. /\ port # <<>> /\ port' = Tail(port)
      /\ UNCHANGED <<kind, arrived, server, head, tail, next, thread, held, results, ran>>
  BY ZenonT(40), SMTT(40) DEF Serve, NoMemory, jobs, work
<1>3. /\ m \in Members(port) /\ m \in Msg /\ port' \in Seq(Msg) /\ Once(port')
      /\ Members(port') = Members(port) \ {m}
  BY SMTT(60), ZenonT(20), <1>1, <1>2, TailMembers DEF Apart, IInv, Types
<1>4. answers[m] = <<>> /\ ran[m] = Unset
  BY <1>1, <1>3 DEF Apart
<1>5. UNCHANGED answers \/ \E x \in Answer : Reply(m, x)
  <2>1. Result(0, "none") \in Answer /\ Result(10, "number") \in Answer
    BY DEF Result, Answer
  <2>2. CASE NoMemory
    BY <2>1, <2>2 DEF NoMemory
  <2>3. CASE Serve
    <3>1. kind[m] \in {"script", "empty", "resource", "private", "foreign", "close"}
      BY <1>3 DEF IInv, Types, MastConstants
    <3> QED
      BY ZenonT(40), SMTT(40), <2>1, <2>3, <3>1 DEF Serve
  <2> QED
    BY <2>2, <2>3
<1> HIDE DEF m
<1>6. /\ answers' \in [Msg -> {<<>>} \cup {<<y>> : y \in Answer}]
      /\ \A n \in Msg : n # m => answers'[n] = answers[n]
      /\ OwnResult'
  <2>1. CASE UNCHANGED answers
    BY <1>2, <2>1 DEF IInv, Types, OwnResult
  <2>2. CASE \E x \in Answer : Reply(m, x)
    <3>1. PICK x \in Answer : Reply(m, x)
      BY <2>2
    <3>2. ~ran[m].started
      BY SMTT(20), ZenonT(20), <1>4 DEF Unset
    <3> QED
      BY <1>2, <1>3, <1>4, <3>1, <3>2, Replied DEF IInv
  <2> QED
    BY <1>5, <2>1, <2>2
<1>7. Types'
  BY SMTT(30), ZenonT(20), <1>2, <1>3, <1>6 DEF IInv, Types
<1>8. Chain(q)' /\ Counted(q)'
  BY SMTT(60), ZenonT(20), <1>1, <1>2 DEF Chain, Counted, Started, Locked
<1>9. Members(q) \subseteq Msg /\ m \notin Members(q) /\ m \in arrived
        /\ \A t \in Busy : held[t] # m /\ held[t] \in Msg
  BY SMTT(60), ZenonT(20), <1>1, <1>3, MembersIn DEF Apart, IInv, Types
<1>10. Apart(q)'
  BY SMTT(60), ZenonT(20), <1>1, <1>2, <1>3, <1>6, <1>9 DEF Apart, Busy
<1> QED
  BY <1>2, <1>6, <1>7, <1>8, <1>10 DEF IInv, WorkerFindsJob

\* The job goes to the end of the list and the lock is kept.
LEMMA StartJobInv ==
    ASSUME IInv, StartJob, UNCHANGED kind PROVE IInv'
<1>1. PICK q \in Seq(Msg) : Chain(q) /\ Counted(q) /\ Apart(q)
  BY SMTT(60), ZenonT(20) DEF IInv
<1>0. /\ port # <<>>
      /\ Head(port) \in Members(port) /\ Head(port) \in Msg
      /\ Tail(port) \in Seq(Msg) /\ Once(Tail(port))
      /\ Members(Tail(port)) = Members(port) \ {Head(port)}
  <2>1. port # <<>>
    BY DEF StartJob
  <2> QED
    BY SMTT(60), ZenonT(20), <1>1, <2>1, TailMembers DEF Apart, IInv, Types
<1>15. PICK m \in Msg : m = Head(port)
  BY <1>0
<1>2. /\ port # <<>> /\ port' = Tail(port) /\ server.at = "take"
      /\ server' = [at |-> "create", m |-> m] /\ tail' = m
      /\ head' = IF tail = NoJob THEN m ELSE head
      /\ next' = [n \in Msg |-> IF n = m THEN NoJob
                                ELSE IF n = tail THEN m ELSE next[n]]
      /\ UNCHANGED <<kind, arrived, thread, held, results, ran, answers>>
  BY <1>15 DEF StartJob, work
<1>3. /\ m \in Members(port) /\ m \in Msg /\ port' \in Seq(Msg) /\ Once(port')
      /\ Members(port') = Members(port) \ {m}
  BY SMTT(60), ZenonT(20), <1>0, <1>2, <1>15
<1>4. m \in arrived /\ m \notin Members(q) /\ thread[m] = "none"
      /\ \A n \in Msg : next[n] # m
  BY <1>1, <1>3 DEF Apart, IInv, Types, MastConstants
<1>5. PICK r \in Seq(Msg) : /\ r = Append(q, m) /\ Once(r)
                            /\ Members(r) = Members(q) \cup {m}
  <2>1. /\ Append(q, m) \in Seq(Msg) /\ Once(Append(q, m))
        /\ Members(Append(q, m)) = Members(q) \cup {m}
    BY <1>1, <1>3, <1>4, AppendMembers DEF Chain
  <2> QED
    BY ZenonT(40), SMTT(40), <2>1
<1>6. /\ Len(q) \in Nat /\ Len(r) = Len(q) + 1 /\ r[Len(q) + 1] = m
      /\ \A i \in 1..Len(q) : r[i] = q[i] /\ q[i] \in Msg /\ q[i] \in Members(q)
  BY <1>5 DEF Members
<1>7. r # <<>> /\ (q = <<>> <=> Len(q) = 0)
  BY SMTT(30), ZenonT(20), <1>5
<1>8. Types'
  BY <1>2, <1>3 DEF IInv, Types
<1>9. tail = IF Len(q) = 0 THEN NoJob ELSE q[Len(q)]
  BY SMTT(30), ZenonT(20), <1>1, <1>7 DEF Chain
<1>10. tail \in Msg => tail \in Members(q) /\ Len(q) # 0
  BY <1>6, <1>9 DEF IInv, Types, MastConstants
<1>11. Chain(r)'
  <2>1. head' = r[1] /\ tail' = r[Len(r)]
    <3>1. CASE Len(q) = 0
      BY SMTT(30), ZenonT(20), <1>2, <1>6, <1>9, <3>1
    <3>2. CASE Len(q) # 0
      <4>1. q[Len(q)] \in Msg /\ 1 \in 1..Len(q) /\ head = q[1]
        BY SMTT(60), ZenonT(20), <1>1, <1>6, <1>7, <3>2 DEF Chain
      <4>2. tail # NoJob
        BY <1>9, <3>2, <4>1 DEF IInv, Types, MastConstants
      <4> QED
        BY <1>2, <1>6, <4>1, <4>2
    <3> QED
      BY <3>1, <3>2
  <2>2. ASSUME NEW i \in 1..Len(r)
        PROVE  next'[r[i]] = IF i = Len(r) THEN NoJob ELSE r[i + 1]
    <3>1. CASE i = Len(q) + 1
      BY <1>2, <1>3, <1>6, <3>1
    <3>2. CASE i = Len(q) /\ i \in 1..Len(q)
      <4>1. r[i] = tail /\ r[i] # m /\ r[i] \in Msg
        BY SMTT(30), ZenonT(20), <1>4, <1>6, <1>9, <3>2
      <4> QED
        BY <1>2, <1>6, <3>2, <4>1
    <3>3. CASE i \in 1..(Len(q) - 1)
      <4>1. i \in 1..Len(q) /\ Len(q) \in 1..Len(q) /\ i # Len(q) /\ i + 1 \in 1..Len(q)
              /\ i # Len(r)
        BY <1>6, <3>3
      <4>2. r[i] = q[i] /\ r[i + 1] = q[i + 1] /\ q[i] # m /\ q[i] \in Msg
        BY SMTT(20), ZenonT(20), <1>4, <1>6, <4>1
      <4>3. q[i] # tail
        <5>1. Len(q) # 0 /\ tail = q[Len(q)]
          BY <1>6, <1>9, <4>1
        <5>2. DOMAIN q = 1..Len(q)
          OBVIOUS
        <5> QED
          BY ZenonT(40), SMTT(40), <1>1, <4>1, <5>1, <5>2 DEF Chain, Once
      <4>4. next[q[i]] = q[i + 1]
        BY <1>1, <4>1 DEF Chain
      <4> QED
        BY <1>2, <4>1, <4>2, <4>3, <4>4
    <3> QED
      BY SMTT(60), ZenonT(20), <1>6, <3>1, <3>2, <3>3
  <2> QED
    BY SMTT(30), ZenonT(20), <1>5, <1>7, <2>1, <2>2 DEF Chain
<1>12. Counted(r)'
  <2>1. ~Locked /\ Locked' /\ server'.m = m
    BY <1>2 DEF Locked
  <2>2. Started' = Started
    BY <1>2 DEF Started
  <2>3. Len(r) = Cardinality(Started) + 1
    BY SMTT(60), ZenonT(20), <1>1, <1>6, <2>1, StartedFinite DEF Counted, IInv
  <2>4. \A n \in Msg : next'[n] = m => n \in Members(r)
    BY SMTT(60), ZenonT(20), <1>2, <1>3, <1>4, <1>5, <1>10 DEF IInv, Types, MastConstants
  <2> QED
    BY SMTT(60), ZenonT(20), <1>2, <1>3, <1>4, <1>6, <1>7, <2>1, <2>2, <2>3, <2>4 DEF Counted
<1>13. Apart(r)'
  <2>1. \A n \in Msg : next'[n] # NoJob
                       => next'[n] \in arrived /\ next'[n] \notin Members(port')
    BY SMTT(60), ZenonT(20), <1>1, <1>2, <1>3, <1>4 DEF Apart
  <2>2. \A t \in Busy : held[t] # m
    BY SMTT(30), ZenonT(20), <1>1, <1>3 DEF Apart
  <2> QED
    BY SMTT(60), ZenonT(20), <1>1, <1>2, <1>3, <1>4, <1>5, <2>1, <2>2 DEF Apart, Busy
<1>14. OwnResult' /\ WorkerFindsJob'
  BY <1>2 DEF IInv, OwnResult, WorkerFindsJob
<1> QED
  BY ZenonT(40), SMTT(40), <1>5, <1>8, <1>11, <1>12, <1>13, <1>14 DEF IInv

\* The thread is there: one more to be served, and the lock is let go.
LEMMA CreateInv ==
    ASSUME IInv, CreateNewProc, UNCHANGED kind PROVE IInv'
<1>1. PICK q \in Seq(Msg) : Chain(q) /\ Counted(q) /\ Apart(q)
  BY DEF IInv
<1> DEFINE m == server.m
<1>2. /\ Locked /\ thread' = [thread EXCEPT ![m] = "started"]
      /\ server' = [at |-> "take", m |-> NoJob]
      /\ UNCHANGED <<kind, port, arrived, head, tail, next, held, results, ran, answers>>
  BY DEF CreateNewProc, jobs, Locked
<1>3. m \in Msg /\ thread[m] = "none" /\ m \in Members(q)
  <2>1. q # <<>> /\ q[Len(q)] = m /\ m \in Msg /\ thread[m] = "none"
    BY <1>1, <1>2 DEF Counted
  <2>2. Len(q) \in DOMAIN q
    BY SMTT(60), ZenonT(20), <2>1
  <2> QED
    BY SMTT(60), ZenonT(20), <2>1, <2>2 DEF Members
<1> HIDE DEF m
<1>4. Started' = Started \cup {m} /\ m \notin Started /\ Busy' = Busy
  BY <1>2, <1>3 DEF Started, Busy, IInv, Types
<1>5. IsFiniteSet(Started) /\ Cardinality(Started) \in Nat
  BY <1>1, StartedFinite DEF IInv
<1>6. Cardinality(Started') = Cardinality(Started) + 1
  BY ZenonT(40), SMTT(40), <1>4, <1>5, FS_AddElement
<1>7. Types'
  BY <1>2, <1>3 DEF IInv, Types, Stages
<1>8. ~Locked'
  BY <1>2 DEF Locked
<1>10. Chain(q)' /\ Counted(q)'
  <2>1. Chain(q)'
    BY <1>1, <1>2 DEF Chain
  <2>2. Len(q) = Cardinality(Started) + 1
    BY <1>1, <1>2 DEF Counted
  <2> QED
    BY <1>5, <1>6, <1>8, <2>1, <2>2 DEF Counted
<1>11. m \in arrived /\ m \notin Members(port) /\ m \notin Busy
  BY SMTT(30), ZenonT(20), <1>1, <1>3 DEF Apart, Busy
<1>12. \A t \in Msg : t # m => thread'[t] = thread[t]
  BY <1>2 DEF IInv, Types
<1>13. \A t \in Busy : t \in Msg /\ t # m
  BY SMTT(60), ZenonT(20), <1>11 DEF Busy
<1>14. Apart(q)'
  BY SMTT(60), ZenonT(20), <1>1, <1>2, <1>4, <1>11, <1>12, <1>13 DEF Apart
<1>15. OwnResult' /\ WorkerFindsJob'
  BY SMTT(20), ZenonT(20), <1>2, <1>3, <1>12 DEF IInv, Types, OwnResult, WorkerFindsJob
<1> QED
  BY <1>7, <1>10, <1>14, <1>15 DEF IInv

\* The job that cannot be run is the last of the list, so taking it off
\* leaves its predecessor last, and the count right.
LEMMA NoThreadInv ==
    ASSUME IInv, NoThread, UNCHANGED kind PROVE IInv'
<1>1. PICK q \in Seq(Msg) : Chain(q) /\ Counted(q) /\ Apart(q)
  BY DEF IInv
<1>2. /\ Locked /\ RolledBack(server.m) /\ Reply(server.m, Result(10, "number"))
      /\ server' = [at |-> "take", m |-> NoJob]
      /\ UNCHANGED <<kind, port, arrived, thread, held, results, ran>>
  BY DEF NoThread, work, Locked
<1>3. PICK m \in Msg : m = server.m
  BY <1>1, <1>2 DEF Counted
<1>4. /\ q # <<>> /\ q[Len(q)] = m
      /\ \A n \in Msg : next[n] = m => n \in Members(q)
  BY <1>1, <1>2, <1>3 DEF Counted
<1>5. PICK k \in Nat : k = Len(q) /\ k >= 1 /\ DOMAIN q = 1..k
  BY <1>4
<1>6. \A i \in 1..k : q[i] \in Msg
  BY <1>5
<1>7. PICK f \in Seq(Msg) : /\ Once(f) /\ Len(f) = k - 1
                            /\ \A i \in 1..(k - 1) : f[i] = q[i]
                            /\ Members(f) = Members(q) \ {m}
  <2>1. Once(q)
    BY SMTT(30), ZenonT(20), <1>1 DEF Chain
  <2> QED
    BY ZenonT(40), SMTT(40), <1>4, <1>5, <2>1, FrontMembers
<1>8. m \in Members(q) /\ answers[m] = <<>> /\ ran[m] = Unset
  <2>1. m \in Members(q)
    BY SMTT(30), ZenonT(20), <1>4, <1>5 DEF Members
  <2> QED
    BY SMTT(30), ZenonT(20), <1>1, <2>1 DEF Apart
<1>9. /\ answers' \in [Msg -> {<<>>} \cup {<<y>> : y \in Answer}]
      /\ \A n \in Msg : n # m => answers'[n] = answers[n]
      /\ OwnResult'
  <2>1. Result(10, "number") \in Answer
    BY DEF Result, Answer
  <2>2. ~ran[m].started
    BY <1>8 DEF Unset
  <2>3. Reply(m, Result(10, "number")) /\ ran' = ran
    BY <1>2, <1>3
  <2> QED
    BY <1>8, <2>1, <2>2, <2>3, Replied DEF IInv
<1>10. \A i, j \in 1..k : q[i] = q[j] => i = j
  BY SMTT(30), ZenonT(20), <1>1, <1>5 DEF Chain, Once
<1>11. \A i \in 1..k : next[q[i]] = IF i = k THEN NoJob ELSE q[i + 1]
  BY <1>1, <1>5 DEF Chain
<1>12. m # NoJob /\ next[m] = NoJob
  BY SMTT(30), ZenonT(20), <1>4, <1>5, <1>11 DEF IInv, Types, MastConstants
<1>13. head = q[1] /\ tail = m
  BY <1>1, <1>4 DEF Chain
<1>14. \A n \in Msg : next[n] = m <=> (k > 1 /\ n = q[k - 1])
  <2> SUFFICES ASSUME NEW n \in Msg
               PROVE  next[n] = m <=> (k > 1 /\ n = q[k - 1])
    OBVIOUS
  <2>1. ASSUME next[n] = m PROVE k > 1 /\ n = q[k - 1]
    <3>1. PICK i \in 1..k : n = q[i]
      BY <1>4, <1>5, <2>1 DEF Members
    <3>2. i # k /\ q[i + 1] = q[k]
      BY <1>4, <1>5, <1>11, <1>12, <2>1, <3>1
    <3>3. i + 1 \in 1..k /\ k \in 1..k
      BY <1>5, <3>2
    <3>4. i + 1 = k
      BY <1>10, <3>2, <3>3
    <3> QED
      BY <1>5, <3>1, <3>4
  <2>2. ASSUME k > 1, n = q[k - 1] PROVE next[n] = m
    <3>1. k - 1 \in 1..k /\ k - 1 # k /\ (k - 1) + 1 = k
      BY SMTT(60), ZenonT(20), <1>5, <2>2
    <3> QED
      BY <1>4, <1>5, <1>11, <2>2, <3>1
  <2> QED
    BY <2>1, <2>2
<1>15. next' = [n \in Msg |-> IF k > 1 /\ n = q[k - 1] THEN NoJob ELSE next[n]]
  BY <1>2, <1>3, <1>12, <1>14 DEF RolledBack
<1>16. head' = (IF k = 1 THEN NoJob ELSE q[1])
  <2>1. head' = IF head = m THEN NoJob ELSE head
    BY <1>2, <1>3, <1>12 DEF RolledBack
  <2>2. 1 \in 1..k /\ k \in 1..k
    BY <1>5
  <2>3. q[1] = m <=> k = 1
    BY <1>4, <1>5, <1>10, <2>2
  <2> QED
    BY SMTT(60), ZenonT(20), <1>13, <2>1, <2>3
<1>17. tail' = (IF k = 1 THEN NoJob ELSE q[k - 1])
  <2> DEFINE before == {n \in Msg : next[n] = m}
  <2>1. tail' = IF before = {} THEN NoJob ELSE CHOOSE n \in before : TRUE
    BY <1>2, <1>3, <1>13 DEF RolledBack
  <2>2. CASE k = 1
    <3>1. before = {}
      BY <1>14, <2>2
    <3> QED
      BY <2>1, <2>2, <3>1
  <2>3. CASE k # 1
    <3>1. k > 1 /\ k - 1 \in 1..k
      BY <1>5, <2>3
    <3>2. before = {q[k - 1]}
      BY <1>6, <1>14, <3>1
    <3> HIDE DEF before
    <3>3. tail' \in before
      BY SMTT(60), ZenonT(20), <2>1, <3>2
    <3> QED
      BY <2>3, <3>2, <3>3
  <2> QED
    BY SMTT(30), ZenonT(20), <2>2, <2>3
<1>18. Types'
  <2>1. next' \in [Msg -> Msg \cup {NoJob}]
    BY <1>15 DEF IInv, Types
  <2> QED
    BY SMTT(60), ZenonT(20), <1>2, <1>9, <2>1 DEF IInv, Types
<1>19. Chain(f)'
  <2>1. f = <<>> <=> k = 1
    BY <1>5, <1>7
  <2>2. head' = IF f = <<>> THEN NoJob ELSE f[1]
    BY <1>5, <1>7, <1>16, <2>1
  <2>3. tail' = IF f = <<>> THEN NoJob ELSE f[Len(f)]
    BY <1>5, <1>7, <1>17, <2>1
  <2>4. ASSUME NEW i \in 1..Len(f)
        PROVE  next'[f[i]] = IF i = Len(f) THEN NoJob ELSE f[i + 1]
    <3>1. i \in 1..(k - 1) /\ i \in 1..k /\ k - 1 \in 1..k /\ k > 1 /\ i # k
      BY <1>5, <1>7
    <3>2. f[i] = q[i] /\ q[i] \in Msg
      BY SMTT(30), ZenonT(20), <1>6, <1>7, <3>1
    <3>3. CASE i = k - 1
      BY SMTT(30), ZenonT(20), <1>7, <1>15, <3>1, <3>2, <3>3
    <3>4. CASE i # k - 1
      <4>1. i + 1 \in 1..(k - 1)
        BY <1>5, <3>1, <3>4
      <4>2. q[i] # q[k - 1]
        BY SMTT(60), ZenonT(20), <1>10, <3>1, <3>4
      <4> QED
        BY SMTT(60), ZenonT(20), <1>7, <1>11, <1>15, <3>1, <3>2, <3>4, <4>1, <4>2
    <3> QED
      BY <3>3, <3>4
  <2> QED
    BY <1>7, <2>2, <2>3, <2>4 DEF Chain
<1>20. Counted(f)'
  <2>1. ~Locked' /\ Started' = Started
    BY SMTT(60), ZenonT(20), <1>2 DEF Locked, Started
  <2>2. Len(q) = Cardinality(Started) + 1 /\ Cardinality(Started) \in Nat
    BY SMTT(60), ZenonT(20), <1>1, <1>2, StartedFinite DEF Counted, IInv
  <2> QED
    BY <1>5, <1>7, <2>1, <2>2 DEF Counted
<1>21. Apart(f)'
  <2>1. \A n \in Msg : next'[n] # NoJob => next'[n] = next[n]
    BY SMTT(20), ZenonT(20), <1>15
  <2>2. m \in arrived /\ m \notin Members(port) /\ \A t \in Busy : held[t] # m
    BY ZenonT(40), SMTT(40), <1>1, <1>8 DEF Apart
  <2>3. Members(f) \subseteq Msg /\ \A t \in Busy : held[t] \in Msg
    <3>1. Members(f) \subseteq Msg
      BY SMTT(30), ZenonT(20), MembersIn
    <3> QED
      BY ZenonT(40), SMTT(40), <1>1, <3>1 DEF Apart, IInv, Types
  <2> QED
    BY SMTT(30), ZenonT(20), <1>1, <1>2, <1>7, <1>9, <2>1, <2>2, <2>3 DEF Apart, Busy
<1> QED
  BY ZenonT(40), SMTT(40), <1>2, <1>9, <1>18, <1>19, <1>20, <1>21 DEF IInv, WorkerFindsJob

\* A started thread finds the list not empty, takes its first job and is one
\* thread less to be served.
LEMMA TakeInv ==
    ASSUME IInv, NEW t \in Msg, Take(t), UNCHANGED kind PROVE IInv'
<1>1. PICK q \in Seq(Msg) : Chain(q) /\ Counted(q) /\ Apart(q)
  BY DEF IInv
<1>2. /\ thread[t] = "started" /\ ~Locked
      /\ UNCHANGED <<kind, port, arrived, server, results, ran>>
  BY DEF Take
<1>3. IsFiniteSet(Started) /\ Cardinality(Started) \in Nat
  BY <1>1, StartedFinite DEF IInv
<1>4. t \in Started
  BY <1>2 DEF Started
<1>5. Len(q) = Cardinality(Started) /\ Len(q) # 0
  <2>1. Cardinality(Started) # 0
    BY <1>3, <1>4, FS_EmptySet
  <2>2. Len(q) = Cardinality(Started) + 0
    BY <1>1, <1>2 DEF Counted
  <2> QED
    BY <1>3, <2>1, <2>2
<1>6. q # <<>> /\ DOMAIN q = 1..Len(q) /\ Len(q) \in Nat
  BY <1>5
<1>7. PICK h \in Msg : h = Head(q) /\ h = q[1]
  BY SMTT(20), ZenonT(20), <1>6
<1>8. head = h /\ h # NoJob
  BY ZenonT(40), SMTT(40), <1>1, <1>6, <1>7 DEF Chain, IInv, Types, MastConstants
<1>9. PICK f \in Seq(Msg) : /\ f = Tail(q) /\ Once(f)
                            /\ Members(f) = Members(q) \ {h}
  BY ZenonT(40), SMTT(40), <1>1, <1>6, <1>7, TailMembers DEF Chain
<1>10. h \in Members(q)
  BY ZenonT(40), SMTT(40), <1>1, <1>6, <1>7, TailMembers DEF Chain
<1>11. PICK k \in Nat : /\ k = Len(q) /\ k >= 1 /\ Len(f) = k - 1
                        /\ \A i \in 1..(k - 1) : f[i] = q[i + 1]
  BY SMTT(30), ZenonT(20), <1>5, <1>6, <1>9
<1>12. /\ Dequeued /\ next' = next
       /\ \/ /\ thread' = [thread EXCEPT ![t] = "gone"]
             /\ Reply(h, Result(0, "none")) /\ held' = held
          \/ /\ thread' = [thread EXCEPT ![t] = "running"]
             /\ held' = [held EXCEPT ![t] = h] /\ answers' = answers
  BY SMTT(60), ZenonT(20), <1>8 DEF Take
<1>13. answers[h] = <<>> /\ ran[h] = Unset /\ h \in arrived /\ h \notin Members(port)
  BY SMTT(60), ZenonT(20), <1>1, <1>10 DEF Apart
<1>14. /\ answers' \in [Msg -> {<<>>} \cup {<<y>> : y \in Answer}]
       /\ \A n \in Msg : n # h => answers'[n] = answers[n]
       /\ OwnResult'
  <2>1. CASE answers' = answers
    BY SMTT(20), ZenonT(20), <1>2, <2>1 DEF IInv, Types, OwnResult
  <2>2. CASE Reply(h, Result(0, "none"))
    <3>1. Result(0, "none") \in Answer
      BY DEF Result, Answer
    <3>2. ~ran[h].started
      BY SMTT(30), ZenonT(20), <1>13 DEF Unset
    <3> QED
      BY ZenonT(40), SMTT(40), <1>2, <1>13, <2>2, <3>1, <3>2, Replied DEF IInv
  <2> QED
    BY SMTT(60), ZenonT(20), <1>12, <2>1, <2>2
<1>15. /\ thread' \in [Msg -> Stages] /\ held' \in [Msg -> Msg \cup {NoJob}]
       /\ thread'[t] \in {"gone", "running"}
       /\ \A s \in Msg : s # t => thread'[s] = thread[s] /\ held'[s] = held[s]
  <2>1. \/ thread' = [thread EXCEPT ![t] = "gone"]
        \/ thread' = [thread EXCEPT ![t] = "running"]
    BY <1>12
  <2>2. held' = held \/ held' = [held EXCEPT ![t] = h]
    BY <1>12
  <2>3. /\ thread' \in [Msg -> Stages] /\ thread'[t] \in {"gone", "running"}
        /\ \A s \in Msg : s # t => thread'[s] = thread[s]
    BY ZenonT(40), SMTT(40), <2>1 DEF IInv, Types, Stages
  <2>4. /\ held' \in [Msg -> Msg \cup {NoJob}]
        /\ \A s \in Msg : s # t => held'[s] = held[s]
    <3>1. held \in [Msg -> Msg \cup {NoJob}]
      BY DEF IInv, Types
    <3> QED
      BY SMTT(60), ZenonT(20), <2>2, <3>1
  <2> QED
    BY <2>3, <2>4
<1>16. Types'
  BY ZenonT(40), SMTT(40), <1>2, <1>12, <1>14, <1>15 DEF IInv, Types
<1>17. Chain(f)'
  <2>1. \A i \in 1..k : next[q[i]] = IF i = k THEN NoJob ELSE q[i + 1]
    BY <1>1, <1>11 DEF Chain
  <2>2. next[h] = IF k = 1 THEN NoJob ELSE q[2]
    BY <1>7, <1>11, <2>1
  <2>3. f = <<>> <=> k = 1
    BY <1>11
  <2>4. k # 1 => q[2] \in Msg /\ q[2] = f[1] /\ q[k] = f[k - 1]
    BY <1>11
  <2>5. head' = IF f = <<>> THEN NoJob ELSE f[1]
    BY SMTT(30), ZenonT(20), <1>8, <1>12, <2>2, <2>3, <2>4 DEF Dequeued
  <2>6. tail' = IF f = <<>> THEN NoJob ELSE f[Len(f)]
    <3>1. tail = q[k]
      BY ZenonT(40), SMTT(40), <1>1, <1>6, <1>11 DEF Chain
    <3>2. next[h] = NoJob <=> k = 1
      BY SMTT(60), ZenonT(20), <2>2, <2>4 DEF IInv, Types, MastConstants
    <3>3. tail' = IF k = 1 THEN NoJob ELSE q[k]
      BY SMTT(30), ZenonT(20), <1>8, <1>12, <3>1, <3>2 DEF Dequeued
    <3> QED
      BY SMTT(20), ZenonT(20), <1>11, <2>3, <2>4, <3>3
  <2>7. ASSUME NEW i \in 1..Len(f)
        PROVE  next'[f[i]] = IF i = Len(f) THEN NoJob ELSE f[i + 1]
    <3>1. i \in 1..(k - 1) /\ i + 1 \in 1..k /\ (i + 1 = k <=> i = Len(f))
      BY SMTT(30), ZenonT(20), <1>11
    <3>2. next'[f[i]] = next[q[i + 1]]
      BY ZenonT(40), SMTT(40), <1>11, <1>12, <3>1
    <3>3. i # Len(f) => i + 1 \in 1..(k - 1)
      BY SMTT(30), ZenonT(20), <1>11, <3>1
    <3> QED
      BY ZenonT(40), SMTT(40), <1>11, <2>1, <3>1, <3>2, <3>3
  <2> QED
    BY <1>9, <2>5, <2>6, <2>7 DEF Chain
<1>18. Counted(f)'
  <2>1. Started' = Started \ {t}
    BY <1>15 DEF Started
  <2>2. Cardinality(Started') = Cardinality(Started) - 1
    BY ZenonT(40), SMTT(40), <1>3, <1>4, <2>1, FS_RemoveElement
  <2>3. ~Locked'
    BY <1>2 DEF Locked
  <2> QED
    BY SMTT(60), <1>3, <1>5, <1>11, <2>2, <2>3 DEF Counted
<1>19. Apart(f)'
  <2>1. t \in arrived /\ t \notin Members(port) /\ t \notin Busy
    BY ZenonT(40), SMTT(40), <1>1, <1>2 DEF Apart, Busy
  <2>2. \A s \in Busy : held[s] # h /\ held[s] \in Msg /\ s \in Msg
    BY ZenonT(40), SMTT(40), <1>1, <1>10 DEF Apart, Busy, IInv, Types
  <2>3. Members(f) \subseteq Msg
    BY SMTT(60), ZenonT(20), MembersIn
  <2>4. \A s \in Busy' : \/ s \in Busy /\ s # t /\ thread'[s] = thread[s]
                              /\ held'[s] = held[s]
                         \/ /\ s = t /\ held'[s] = h /\ thread'[s] = "running"
                            /\ answers' = answers
    BY SMTT(60), ZenonT(20), <1>12, <1>15, <2>1 DEF Busy, IInv, Types
  <2>5. \A s \in Busy' :
          /\ held'[s] \in arrived /\ held'[s] \notin Members(port)
          /\ held'[s] \notin Members(f) /\ answers'[held'[s]] = <<>>
          /\ thread'[s] = "ran" => ran[held'[s]] = results[s]
    <3> SUFFICES ASSUME NEW s \in Busy'
                 PROVE  /\ held'[s] \in arrived /\ held'[s] \notin Members(port)
                        /\ held'[s] \notin Members(f) /\ answers'[held'[s]] = <<>>
                        /\ thread'[s] = "ran" => ran[held'[s]] = results[s]
      OBVIOUS
    <3>1. CASE s \in Busy /\ thread'[s] = thread[s] /\ held'[s] = held[s]
      <4>1. answers'[held[s]] = answers[held[s]]
        BY ZenonT(40), SMTT(40), <1>14, <2>2, <3>1
      <4> QED
        BY ZenonT(40), SMTT(40), <1>1, <1>9, <3>1, <4>1 DEF Apart
    <3>2. CASE held'[s] = h /\ thread'[s] = "running" /\ answers' = answers
      BY SMTT(60), ZenonT(20), <1>9, <1>13, <3>2
    <3> QED
      BY SMTT(60), ZenonT(20), <2>4, <3>1, <3>2
  <2>6. \A r, s \in Busy' : held'[r] = held'[s] => r = s
    BY SMTT(60), ZenonT(20), <1>1, <2>2, <2>4 DEF Apart
  <2>7. \A m \in Msg : m \notin arrived \/ m \in Members(port) => thread'[m] = "none"
    BY SMTT(60), ZenonT(20), <1>1, <1>15, <2>1 DEF Apart
  <2>8. \A m \in Msg : m \notin arrived \/ m \in Members(port) \/ m \in Members(f)
                       => answers'[m] = <<>> /\ ran[m] = Unset
    BY SMTT(60), ZenonT(20), <1>1, <1>9, <1>13, <1>14 DEF Apart
  <2> QED
    BY ZenonT(40), SMTT(40), <1>1, <1>2, <1>9, <1>12, <2>5, <2>6, <2>7, <2>8 DEF Apart
<1>20. WorkerFindsJob'
  BY <1>15 DEF IInv, WorkerFindsJob
<1> QED
  BY ZenonT(40), SMTT(40), <1>14, <1>16, <1>17, <1>18, <1>19, <1>20 DEF IInv

\* Regina has run the script: the results of this thread are this script's.
LEMMA RunInv ==
    ASSUME IInv, NEW t \in Msg, NEW r \in Runs, ace_rexxmast_rexx_start(t, r),
           UNCHANGED kind
    PROVE  IInv'
<1>1. PICK q \in Seq(Msg) : Chain(q) /\ Counted(q) /\ Apart(q)
  BY SMTT(30), ZenonT(20) DEF IInv
<1>2. /\ thread[t] = "running" /\ thread' = [thread EXCEPT ![t] = "ran"]
      /\ results' = [results EXCEPT ![t] = r] /\ ran' = [ran EXCEPT ![held[t]] = r]
      /\ UNCHANGED <<kind, port, arrived, server, head, tail, next, held, answers>>
  BY SMTT(60), ZenonT(20) DEF ace_rexxmast_rexx_start, Slot, jobs
<1>3. t \in Busy /\ Busy' = Busy /\ Started' = Started
  BY SMTT(20), ZenonT(20), <1>2 DEF Busy, Started, IInv, Types
<1>4. /\ held[t] \in Msg /\ held[t] \in arrived /\ held[t] \notin Members(port)
      /\ held[t] \notin Members(q) /\ answers[held[t]] = <<>>
  BY ZenonT(40), SMTT(40), <1>1, <1>3 DEF Apart, IInv, Types
<1>5. Types'
  BY ZenonT(40), SMTT(40), <1>2, <1>4 DEF IInv, Types, Stages
<1>6. Chain(q)' /\ (Locked' <=> Locked)
  BY SMTT(60), ZenonT(20), <1>1, <1>2 DEF Chain, Locked
<1>7. \A s \in Msg : s # t => thread'[s] = thread[s] /\ results'[s] = results[s]
  BY SMTT(60), ZenonT(20), <1>2 DEF IInv, Types
<1>8. \A m \in Msg : m # held[t] => ran'[m] = ran[m]
  BY SMTT(60), ZenonT(20), <1>2 DEF IInv, Types
<1>9. thread'[t] = "ran" /\ results'[t] = r /\ ran'[held[t]] = r
  BY SMTT(20), ZenonT(20), <1>2, <1>4 DEF IInv, Types
<1>10. Counted(q)'
  BY ZenonT(40), SMTT(40), <1>1, <1>2, <1>3, <1>6, <1>7 DEF Counted
<1>11. Apart(q)'
  <2>1. \A s \in Busy : s \in Msg /\ held[s] \in Msg /\ (s # t => held[s] # held[t])
    BY ZenonT(40), SMTT(40), <1>1, <1>3 DEF Apart, Busy, IInv, Types
  <2>2. \A s \in Busy : thread'[s] = "ran" => ran'[held[s]] = results'[s]
    BY ZenonT(40), SMTT(40), <1>1, <1>7, <1>8, <1>9, <2>1 DEF Apart
  <2>3. \A m \in Msg : m \notin arrived \/ m \in Members(port) => thread'[m] = "none"
    BY ZenonT(40), SMTT(40), <1>1, <1>2, <1>7 DEF Apart
  <2>4. \A m \in Msg : m \notin arrived \/ m \in Members(port) \/ m \in Members(q)
                       => ran'[m] = Unset
    BY SMTT(60), ZenonT(20), <1>1, <1>4, <1>8 DEF Apart
  <2> QED
    BY ZenonT(40), SMTT(40), <1>1, <1>2, <1>3, <2>2, <2>3, <2>4 DEF Apart
<1>12. OwnResult'
  <2> SUFFICES ASSUME NEW m \in Msg, NEW i \in DOMAIN answers[m], ran'[m].started
               PROVE  answers[m][i].r1
                        = IF ran'[m].api = 0 THEN ran'[m].code ELSE ran'[m].api
    BY ZenonT(40), SMTT(40), <1>2 DEF OwnResult
  <2>1. m # held[t]
    BY <1>4
  <2>2. ran'[m] = ran[m]
    BY SMTT(60), ZenonT(20), <1>8, <2>1
  <2> QED
    BY SMTT(20), ZenonT(20), <2>2 DEF IInv, OwnResult
<1>13. WorkerFindsJob'
  BY SMTT(30), ZenonT(20), <1>7, <1>9 DEF IInv, WorkerFindsJob
<1> QED
  BY SMTT(30), ZenonT(20), <1>5, <1>6, <1>10, <1>11, <1>12, <1>13 DEF IInv

\* The thread answers its message, which no other thread holds.
LEMMA FinishInv ==
    ASSUME IInv, NEW t \in Msg, Finish(t), UNCHANGED kind PROVE IInv'
<1>1. PICK q \in Seq(Msg) : Chain(q) /\ Counted(q) /\ Apart(q)
  BY DEF IInv
<1>2. /\ thread[t] = "ran" /\ thread' = [thread EXCEPT ![t] = "gone"]
      /\ UNCHANGED <<kind, port, arrived, server, head, tail, next, held, results, ran>>
  BY SMTT(60), ZenonT(20) DEF Finish, jobs
<1>3. t \in Busy /\ Busy' = Busy \ {t} /\ Started' = Started
  BY SMTT(20), ZenonT(20), <1>2 DEF Busy, Started, IInv, Types
<1>4. PICK h \in Msg : h = held[t]
  BY ZenonT(40), SMTT(40), <1>1, <1>3 DEF Apart, IInv, Types
<1>5. /\ h \in arrived /\ h \notin Members(port) /\ h \notin Members(q)
      /\ answers[h] = <<>> /\ ran[h] = results[t] /\ ran[h] \in Runs
  BY SMTT(60), ZenonT(20), <1>1, <1>2, <1>3, <1>4 DEF Apart, IInv, Types
<1>6. PICK x \in Answer :
        /\ Reply(h, x)
        /\ ran[h].started => x.r1 = IF ran[h].api = 0 THEN ran[h].code ELSE ran[h].api
  <2> DEFINE r == ran[h]
             left == IF r.started THEN r.api ELSE 5
             y == IF r.started /\ r.api = 0 THEN Result(r.code, "string")
                  ELSE Result(left, "none")
  <2>1. Reply(h, y)
    BY SMTT(30), ZenonT(20), <1>4, <1>5 DEF Finish, Slot
  <2>2. r.api \in {0, 1} /\ r.code \in {0} \cup Code
    BY SMTT(30), ZenonT(20), <1>5 DEF Runs, Unset
  <2>3. y \in Answer
    BY SMTT(30), ZenonT(20), <2>2 DEF Result, Answer
  <2>4. r.started => y.r1 = IF r.api = 0 THEN r.code ELSE r.api
    BY SMTT(60), ZenonT(20) DEF Result
  <2> QED
    BY SMTT(60), ZenonT(20), <2>1, <2>3, <2>4
<1>7. /\ answers' \in [Msg -> {<<>>} \cup {<<z>> : z \in Answer}]
      /\ \A n \in Msg : n # h => answers'[n] = answers[n]
      /\ OwnResult'
  BY SMTT(20), ZenonT(20), <1>2, <1>5, <1>6, Replied DEF IInv
<1>8. Types'
  BY ZenonT(40), SMTT(40), <1>2, <1>7 DEF IInv, Types, Stages
<1>9. Chain(q)' /\ (Locked' <=> Locked)
  BY SMTT(60), ZenonT(20), <1>1, <1>2 DEF Chain, Locked
<1>10. thread'[t] = "gone" /\ \A s \in Msg : s # t => thread'[s] = thread[s]
  BY <1>2 DEF IInv, Types
<1>11. Counted(q)'
  BY ZenonT(40), SMTT(40), <1>1, <1>2, <1>3, <1>9, <1>10 DEF Counted
<1>12. Apart(q)'
  <2>1. \A s \in Busy : s \in Msg /\ held[s] \in Msg /\ (s # t => held[s] # h)
    BY SMTT(20), ZenonT(20), <1>1, <1>3, <1>4 DEF Apart, Busy, IInv, Types
  <2>2. \A s \in Busy' : /\ s \in Busy /\ s # t /\ thread'[s] = thread[s]
                         /\ answers'[held[s]] = answers[held[s]]
    BY ZenonT(40), SMTT(40), <1>3, <1>7, <1>10, <2>1
  <2>3. \A m \in Msg : m \notin arrived \/ m \in Members(port) => thread'[m] = "none"
    BY ZenonT(40), SMTT(40), <1>1, <1>2, <1>10 DEF Apart
  <2>4. \A m \in Msg : m \notin arrived \/ m \in Members(port) \/ m \in Members(q)
                       => answers'[m] = <<>> /\ ran'[m] = Unset
    BY ZenonT(40), SMTT(40), <1>1, <1>2, <1>5, <1>7 DEF Apart
  <2>5. /\ Once(port') /\ Members(port') \subseteq arrived' /\ Members(q) \subseteq arrived'
        /\ \A m \in Members(port') : m \notin Members(q)
        /\ \A n \in Msg : next'[n] # NoJob
                           => next'[n] \in arrived' /\ next'[n] \notin Members(port')
    BY SMTT(60), ZenonT(20), <1>1, <1>2 DEF Apart
  <2>6. \A s \in Busy' : /\ held'[s] \in arrived' /\ held'[s] \notin Members(port')
                         /\ held'[s] \notin Members(q) /\ answers'[held'[s]] = <<>>
                         /\ thread'[s] = "ran" => ran'[held'[s]] = results'[s]
    BY SMTT(60), ZenonT(20), <1>1, <1>2, <2>2 DEF Apart
  <2>7. \A r, s \in Busy' : held'[r] = held'[s] => r = s
    BY ZenonT(40), SMTT(40), <1>1, <1>2, <2>2 DEF Apart
  <2>8. /\ \A m \in Msg : m \notin arrived' \/ m \in Members(port') => thread'[m] = "none"
        /\ \A m \in Msg : m \notin arrived' \/ m \in Members(port') \/ m \in Members(q)
                          => answers'[m] = <<>> /\ ran'[m] = Unset
    BY SMTT(60), ZenonT(20), <1>2, <2>3, <2>4
  <2> QED
    BY ZenonT(40), SMTT(40), <2>5, <2>6, <2>7, <2>8 DEF Apart
<1>13. WorkerFindsJob'
  BY <1>10 DEF IInv, WorkerFindsJob
<1> QED
  BY SMTT(60), ZenonT(20), <1>7, <1>8, <1>9, <1>11, <1>12, <1>13 DEF IInv

LEMMA MastNext == IInv /\ [Next]_vars => IInv'
<1> SUFFICES ASSUME IInv, [Next]_vars PROVE IInv'
  OBVIOUS
<1>1. CASE UNCHANGED vars
  BY <1>1, QuietInv DEF vars
<1>2. CASE Next
  <2>1. UNCHANGED kind
    BY <1>2 DEF Next
  <2>2. CASE \E m \in Msg : Arrive(m)
    BY <2>1, <2>2, ArriveInv
  <2>3. CASE Break \/ End
    BY <2>1, <2>3, QuietInv
  <2>4. CASE Serve \/ NoMemory
    BY <2>1, <2>4, ServeInv
  <2>5. CASE StartJob
    BY <2>1, <2>5, StartJobInv
  <2>6. CASE CreateNewProc
    BY SMTT(30), ZenonT(20), <2>1, <2>6, CreateInv
  <2>7. CASE NoThread
    BY <2>1, <2>7, NoThreadInv
  <2>8. CASE \E t \in Msg : WorkerStep(t)
    BY <2>1, <2>8, TakeInv, RunInv, FinishInv DEF WorkerStep
  <2> QED
    BY SMTT(30), ZenonT(20), <1>2, <2>2, <2>3, <2>4, <2>5, <2>6, <2>7, <2>8 DEF Next, ServerStep
<1> QED
  BY <1>1, <1>2

\* In every reachable state the links spell a list with one job per thread
\* still to be served, and an unanswered message is in one place.
THEOREM MastInductive == MastConstants => (Spec => []IInv)
<1> SUFFICES ASSUME MastConstants PROVE Spec => []IInv
  OBVIOUS
<1>1. Init => IInv
  BY MastInit
<1> QED
  BY <1>1, MastNext, PTL DEF Spec

\* rexxmast_startfile_entry() never finds the list empty, however many
\* threads and failed creations there are.
THEOREM WorkersFindJobs == MastConstants => (Spec => []WorkerFindsJob)
<1> SUFFICES ASSUME MastConstants PROVE Spec => []WorkerFindsJob
  OBVIOUS
<1>1. Spec => []IInv
  BY MastInductive
<1>2. IInv => WorkerFindsJob
  BY DEF IInv
<1> QED
  BY <1>1, <1>2, PTL

\* A message is answered at most once, by the server or by one thread, and a
\* script that ran is answered with its own result.
THEOREM RepliesAreOnce == MastConstants => (Spec => [](AnsweredOnce /\ OwnResult))
<1> SUFFICES ASSUME MastConstants PROVE Spec => [](AnsweredOnce /\ OwnResult)
  OBVIOUS
<1>1. Spec => []IInv
  BY MastInductive
<1>2. IInv => AnsweredOnce /\ OwnResult
  <2> SUFFICES ASSUME IInv, NEW m \in Msg PROVE Len(answers[m]) <= 1
    BY SMTT(60), ZenonT(20) DEF AnsweredOnce, IInv
  <2>1. answers[m] = <<>> \/ \E x \in Answer : answers[m] = <<x>>
    BY DEF IInv, Types
  <2>2. Len(<<>>) <= 1 /\ \A x \in Answer : Len(<<x>>) <= 1
    OBVIOUS
  <2> QED
    BY ZenonT(40), SMTT(40), <2>1, <2>2
<1> QED
  BY <1>1, <1>2, PTL
=============================================================================
