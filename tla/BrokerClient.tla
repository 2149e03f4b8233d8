---------------------------- MODULE BrokerClient ----------------------------
(***************************************************************************)
(* The client's end of the connection to the broker                        *)
(* (src/src/broker_client.c): broker_fd, which all threads of a process    *)
(* share, the exchange of a request and its answer under broker_lock, the  *)
(* second attempt after a broken exchange, the new ATTACH after a          *)
(* reconnect, and what a forked child does with all that.                  *)
(*                                                                         *)
(* A connection is an object of the kernel; a descriptor is an index into  *)
(* the process's table and the lowest free one is given out.  A read that  *)
(* waits keeps its connection although the descriptor is closed meanwhile. *)
(* The broker serves one request at a time and may be killed; how it is    *)
(* started is BrokerLifetime's subject.  Each thread makes few calls.      *)
(*                                                                         *)
(* The proofs about it are at the end of the module.                       *)
(***************************************************************************)
EXTENDS Naturals, Sequences, TLAPS

CONSTANTS
    Thread,         \* the shell's threads that talk to the broker
    Main,           \* the one of them that attaches, and forks commands
    Child,          \* the thread of a forked command
    NoThread,
    MaxFd,          \* size of a descriptor table
    MaxCalls,       \* bound on the calls of a thread
    LastBroker,     \* bound on the brokers started
    LastConn,       \* bound on the connections opened
    Root,           \* is the session --root, so that privops are asked for?
    Forks           \* does the shell run a command?

Process  == {"shell", "child"}
Threads  == Thread \cup {Child}
Of(t)    == IF t = Child THEN "child" ELSE "shell"
Fd       == 1..MaxFd            \* 0 stands for -1
ConnId   == 1..LastConn         \* 0: none
Op       == {"attach", "plain", "own"} \cup (IF Root THEN {"privop"} ELSE {})
Request  == [by : Threads, n : 0..MaxCalls, attach : BOOLEAN]

VARIABLES
    up, started,        \* the broker that runs (0: none), brokers so far
    conn,               \* connections opened so far, in order
    open,               \* the descriptor table of each process
    broker_fd, broker_attached, lock,       \* of each process
    pc, call, calls,    \* of each thread
    crossed,            \* did a thread accept another's answer? (history)
    refusedAttach       \* did a broker refuse an ATTACH? (history)

procVars == <<broker_fd, broker_attached, lock>>
hist     == <<crossed, refusedAttach>>
vars     == <<up, started, conn, open, broker_fd, broker_attached, lock,
              pc, call, calls, crossed, refusedAttach>>

\* What the constants stand for: the main thread is one of the shell's, the
\* command's is none of them, and no thread stands for none.
Constants ==
    /\ Main \in Thread /\ Child \notin Thread /\ NoThread \notin Threads
    /\ MaxFd \in Nat /\ MaxCalls \in Nat /\ LastConn \in Nat
    /\ LastBroker \in Nat \ {0} /\ Root \in BOOLEAN /\ Forks \in BOOLEAN

NoCall  == [op |-> "plain", fd |-> 0, attempt |-> 0, ensured |-> FALSE,
            held |-> 0, attaching |-> FALSE, status |-> "ok"]
Idle(t) == pc[t] = "idle"

TypeOK ==
    /\ up \in 0..LastBroker /\ started \in 0..LastBroker
    /\ Len(conn) <= LastConn
    /\ \A i \in DOMAIN conn :
          /\ conn[i].broker \in 1..LastBroker
          /\ conn[i].users \subseteq Process
          /\ \A k \in DOMAIN conn[i].in : conn[i].in[k] \in Request
    /\ open \in [Process -> [Fd -> 0..LastConn]]
    /\ broker_fd \in [Process -> 0..MaxFd]
    /\ broker_attached \in [Process -> BOOLEAN]
    /\ lock \in [Process -> Threads \cup {NoThread}]
    /\ pc \in [Threads -> {"none", "idle", "get", "connect", "reget", "ensure",
                           "connectOwn", "exchange", "send", "wait", "payload",
                           "drop", "forget", "forked", "waitpid"}]
    /\ \A t \in Threads : call[t].op \in Op /\ call[t].fd \in 0..MaxFd

Init ==
    /\ up = 1 /\ started = 1
    /\ conn = <<>>
    /\ open = [p \in Process |-> [f \in Fd |-> 0]]
    /\ broker_fd = [p \in Process |-> 0]
    /\ broker_attached = [p \in Process |-> FALSE]
    /\ lock = [p \in Process |-> NoThread]
    /\ pc = [t \in Threads |-> IF t = Main THEN "idle" ELSE "none"]
    /\ call = [t \in Threads |-> NoCall]
    /\ calls = [t \in Threads |-> 0]
    /\ crossed = FALSE
    /\ refusedAttach = FALSE

-----------------------------------------------------------------------------
Live(c) == c # 0 /\ conn[c].broker = up
Goto(t, where) == pc' = [pc EXCEPT ![t] = where]
Return(t) == Goto(t, "idle") /\ call' = [call EXCEPT ![t] = NoCall]

\* A call begins.  native_broker_attach is the shell's first; the other
\* threads are started after it.  TASK_BREAK_FOREGROUND ("own") makes sure of
\* the broker and then uses a connection of its own.
Call(t, op) ==
    /\ Idle(t) /\ calls[t] < MaxCalls
    /\ op = "attach" <=> (t = Main /\ calls[t] = 0)
    /\ op = "own" => t \in Thread \ {Main}
    /\ t = Child => op = "plain"
    /\ calls' = [calls EXCEPT ![t] = @ + 1]
    /\ call' = [call EXCEPT ![t] = [NoCall EXCEPT !.op = op, !.attempt = 1]]
    /\ Goto(t, IF op = "own" THEN "ensure" ELSE "get")
    /\ UNCHANGED <<up, started, conn, open, procVars, hist>>

StartThread(t) ==
    /\ t \in Thread /\ pc[t] = "none" /\ calls[Main] > 0 /\ Idle(Main)
    /\ Goto(t, "idle")
    /\ UNCHANGED <<up, started, conn, open, procVars, call, calls, hist>>

\* broker_connection: the descriptor there is, or a new connection ...
GetConnection(t) ==
    /\ pc[t] \in {"get", "reget"}
    /\ LET fd == broker_fd[Of(t)]
       IN \/ /\ fd # 0
             /\ call' = [call EXCEPT ![t].fd = fd]
             /\ Goto(t, "exchange")
          \/ /\ fd = 0 /\ pc[t] = "get"
             /\ Goto(t, "connect") /\ UNCHANGED call
          \/ /\ fd = 0 /\ pc[t] = "reget"
             /\ \/ /\ call[t].ensured \/ call[t].op = "attach"
                   /\ Return(t)
                \/ /\ ~call[t].ensured /\ call[t].op # "attach"
                   /\ Goto(t, "ensure") /\ UNCHANGED call
    /\ UNCHANGED <<up, started, conn, open, procVars, calls, hist>>

\* A free descriptor with none below it, and a connection just accepted.
Lowest(table, fd) == table[fd] = 0 /\ \A f \in 1..(fd - 1) : table[f] # 0
Fresh == [broker |-> up, in |-> <<>>, out |-> <<>>, attached |-> FALSE,
          users |-> {}]

\* Mutant: a replacement connection does not claim the session again.
OpensUnclaimed(t) ==
    LET p  == Of(t)
    IN /\ up # 0 /\ Len(conn) < LastConn
       /\ \E fd \in Fd :
             /\ Lowest(open[p], fd)
             /\ conn' = Append(conn, Fresh)
             /\ open' = [open EXCEPT ![p][fd] = Len(conn) + 1]
             /\ call' = [call EXCEPT ![t].fd = fd]
             /\ broker_fd' = IF call[t].op = "own" THEN broker_fd
                             ELSE [broker_fd EXCEPT ![p] = fd]

\* connect_broker, at the lowest free descriptor.
Opens(t) ==
    LET p  == Of(t)
    IN /\ up # 0 /\ Len(conn) < LastConn
       /\ \E fd \in Fd :
             /\ Lowest(open[p], fd)
             /\ conn' = Append(conn, Fresh)
             /\ open' = [open EXCEPT ![p][fd] = Len(conn) + 1]
             /\ call' = [call EXCEPT ![t].fd = fd,
                            ![t].attaching = call[t].op # "own" /\ broker_attached[p]]
             /\ broker_fd' = IF call[t].op = "own" THEN broker_fd
                             ELSE [broker_fd EXCEPT ![p] = fd]

\* ... which claims the session again when the process has claimed it before.
Connect(t) ==
    /\ pc[t] \in {"connect", "connectOwn"}
    /\ \/ /\ Opens(t)
          /\ Goto(t, "exchange")
       \/ /\ up = 0
          /\ \/ /\ call[t].ensured \/ call[t].op = "attach"
                /\ Return(t)
             \/ /\ ~call[t].ensured /\ call[t].op # "attach"
                /\ Goto(t, "ensure") /\ UNCHANGED call
          /\ UNCHANGED <<conn, open, broker_fd>>
    /\ UNCHANGED <<up, started, broker_attached, lock, calls, hist>>

\* native_broker_ensure: there is a broker afterwards, or the call fails.
Ensure(t) ==
    /\ pc[t] = "ensure"
    /\ \/ /\ up # 0 \/ started < LastBroker
          /\ up' = IF up = 0 THEN started + 1 ELSE up
          /\ started' = IF up = 0 THEN started + 1 ELSE started
          /\ call' = [call EXCEPT ![t].ensured = TRUE]
          /\ Goto(t, IF call[t].op = "own" THEN "connectOwn" ELSE "get")
       \/ /\ up = 0
          /\ Return(t)
          /\ UNCHANGED <<up, started>>
    /\ UNCHANGED <<conn, open, procVars, calls, hist>>

-----------------------------------------------------------------------------
\* broker_exchange takes broker_lock; privop_exchange does not.
Locks(t) == call[t].op # "privop" \/ call[t].attaching

\* Mutant: an exchange does not wait for the one that is under way.
ExchangeAtOnce(t) ==
    /\ pc[t] = "exchange"
    /\ lock' = [lock EXCEPT ![Of(t)] = t]
    /\ Goto(t, "send")
    /\ UNCHANGED <<up, started, conn, open, broker_fd, broker_attached,
                   call, calls, hist>>

Exchange(t) ==
    /\ pc[t] = "exchange"
    /\ IF Locks(t)
       THEN lock[Of(t)] = NoThread /\ lock' = [lock EXCEPT ![Of(t)] = t]
       ELSE UNCHANGED lock
    /\ Goto(t, "send")
    /\ UNCHANGED <<up, started, conn, open, broker_fd, broker_attached,
                   call, calls, hist>>

\* Mutant: the lock is not given back when the request cannot be sent.
UnlockOnAnswer(t) ==
    lock' = IF Locks(t) /\ pc[t] # "send"
            THEN [lock EXCEPT ![Of(t)] = NoThread] ELSE lock

Unlock(t) == lock' = IF Locks(t) THEN [lock EXCEPT ![Of(t)] = NoThread] ELSE lock

\* What the caller does with an exchange that ended: 0 and 1 are answers, -1
\* means that the connection is of no use.
\* A broken one drops the connection and is tried once more; a call on a
\* connection of its own closes that.
After(t, outcome) ==
    LET p == Of(t)
    IN /\ Unlock(t)
       /\ broker_attached' =
            IF call[t].op = "attach" /\ outcome = "ok"
            THEN [broker_attached EXCEPT ![p] = TRUE] ELSE broker_attached
       /\ open' = IF call[t].op = "own" THEN [open EXCEPT ![p][call[t].fd] = 0]
                  ELSE open
       /\ \/ /\ call[t].op # "own" /\ outcome = "broken"
             /\ Goto(t, "drop") /\ UNCHANGED call
          \/ /\ outcome # "broken" /\ call[t].attaching
             /\ call' = [call EXCEPT ![t].attaching = FALSE]
             /\ Goto(t, "reget")
          \/ /\ call[t].op = "own" \/ (outcome # "broken" /\ ~call[t].attaching)
             /\ Return(t)

\* The request goes out on whatever the descriptor is now.
Send(t) ==
    LET c == open[Of(t)][call[t].fd]
    IN /\ pc[t] = "send"
       /\ \/ /\ Live(c)
             /\ conn' = [conn EXCEPT
                  ![c].in = Append(@, [by |-> t, n |-> calls[t],
                       attach |-> call[t].attaching \/ call[t].op = "attach"]),
                  ![c].users = @ \cup {Of(t)}]
             /\ call' = [call EXCEPT ![t].held = c]
             /\ Goto(t, "wait")
             /\ UNCHANGED <<open, procVars>>
          \/ /\ ~Live(c)
             /\ After(t, "broken")
             /\ UNCHANGED <<conn, broker_fd>>
       /\ UNCHANGED <<up, started, calls, hist>>

\* The header of the answer comes from the connection the read began on.
ReadHeader(t) ==
    LET c == call[t].held
    IN /\ pc[t] = "wait"
       /\ \/ /\ conn[c].out # <<>>
             /\ conn' = [conn EXCEPT ![c].out = Tail(@)]
             /\ crossed' = (crossed \/ Head(conn[c].out).by # t
                                    \/ Head(conn[c].out).n # calls[t])
             /\ \/ /\ Goto(t, "payload")
                   /\ call' = [call EXCEPT ![t].status = Head(conn[c].out).status]
                   /\ UNCHANGED <<open, procVars>>
                \/ /\ After(t, Head(conn[c].out).status)
                   /\ UNCHANGED broker_fd
          \/ /\ conn[c].out = <<>> /\ ~Live(c)
             /\ After(t, "broken")
             /\ UNCHANGED <<conn, broker_fd, crossed>>
       /\ UNCHANGED <<up, started, calls, refusedAttach>>

\* The rest is another read, from what the descriptor is by then; from a
\* connection that is not the one of the request there is nothing to come.
ReadPayload(t) ==
    LET c == open[Of(t)][call[t].fd]
    IN /\ pc[t] = "payload"
       /\ \/ c = call[t].held /\ After(t, call[t].status)
          \/ c # call[t].held /\ ~Live(c) /\ After(t, "broken")
       /\ UNCHANGED <<up, started, conn, broker_fd, calls, hist>>

\* broker_disconnect closes the connection the process has now ...
Drop(t) ==
    LET p == Of(t)
    IN /\ pc[t] = "drop"
       /\ open' = IF broker_fd[p] = 0 THEN open
                  ELSE [open EXCEPT ![p][broker_fd[p]] = 0]
       /\ Goto(t, "forget")
       /\ UNCHANGED <<up, started, conn, procVars, call, calls, hist>>

\* ... and forgets it; then the second attempt.
Forget(t) ==
    /\ pc[t] = "forget"
    /\ broker_fd' = [broker_fd EXCEPT ![Of(t)] = 0]
    /\ \/ /\ call[t].attaching
          /\ call' = [call EXCEPT ![t].attaching = FALSE]
          /\ Goto(t, "reget")
       \/ /\ ~call[t].attaching /\ call[t].op # "attach" /\ call[t].attempt < 2
          /\ call' = [call EXCEPT ![t].attempt = @ + 1, ![t].ensured = FALSE]
          /\ Goto(t, "get")
       \/ /\ ~call[t].attaching
          /\ call[t].op = "attach" \/ call[t].attempt = 2
          /\ Return(t)
    /\ UNCHANGED <<up, started, conn, open, broker_attached, lock, calls, hist>>

-----------------------------------------------------------------------------
\* RunCommand forks: the child has the memory and the descriptors as they
\* are, the lock included, and one thread; the shell waits for it.
Fork ==
    /\ Forks
    /\ Idle(Main) /\ calls[Main] > 0 /\ pc[Child] = "none"
    /\ pc' = [pc EXCEPT ![Child] = "forked", ![Main] = "waitpid"]
    /\ open' = [open EXCEPT !["child"] = open["shell"]]
    /\ broker_fd' = [broker_fd EXCEPT !["child"] = broker_fd["shell"]]
    /\ broker_attached' =
         [broker_attached EXCEPT !["child"] = broker_attached["shell"]]
    /\ lock' = [lock EXCEPT !["child"] = lock["shell"]]
    /\ UNCHANGED <<up, started, conn, call, calls, hist>>

\* Mutant: the child keeps the connection it inherited.
KeepAfterFork ==
    /\ pc[Child] = "forked"
    /\ Goto(Child, "idle")
    /\ UNCHANGED <<up, started, conn, open, procVars, call, calls, hist>>

\* native_broker_reset_after_fork.
ResetAfterFork ==
    LET fd == broker_fd["child"]
    IN /\ pc[Child] = "forked"
       /\ open' = IF fd = 0 THEN open ELSE [open EXCEPT !["child"][fd] = 0]
       /\ broker_fd' = [broker_fd EXCEPT !["child"] = 0]
       /\ broker_attached' = [broker_attached EXCEPT !["child"] = FALSE]
       /\ Goto(Child, "idle")
       /\ UNCHANGED <<up, started, conn, lock, call, calls, hist>>

\* The command ends: its descriptors close, and the shell goes on.
ChildExits ==
    /\ Idle(Child) /\ calls[Child] > 0
    /\ open' = [open EXCEPT !["child"] = [f \in Fd |-> 0]]
    /\ pc' = [pc EXCEPT ![Child] = "none", ![Main] = "idle"]
    /\ calls' = [calls EXCEPT ![Child] = MaxCalls]
    /\ UNCHANGED <<up, started, conn, procVars, call, hist>>

\* The broker (external to this module): it answers the first request of a
\* connection, carrying it out or refusing it.
Serve(c) ==
    /\ c \in DOMAIN conn /\ Live(c) /\ conn[c].in # <<>>
    /\ \E s \in {"ok", "refused"} :
         LET r == Head(conn[c].in)
         IN /\ conn' = [conn EXCEPT ![c].in = Tail(@),
                  ![c].out = Append(@, [by |-> r.by, n |-> r.n, status |-> s]),
                  ![c].attached = @ \/ (r.attach /\ s = "ok")]
            /\ refusedAttach' = (refusedAttach \/ (r.attach /\ s = "refused"))
    /\ UNCHANGED <<up, started, open, procVars, pc, call, calls, crossed>>

BrokerDies ==
    /\ up # 0
    /\ started < LastBroker
    /\ up' = 0
    /\ UNCHANGED <<started, conn, open, procVars, pc, call, calls, hist>>

\* What a thread inside a call does next.
Step(t) ==
    \/ GetConnection(t) \/ Connect(t) \/ Ensure(t)
    \/ Exchange(t) \/ Send(t) \/ ReadHeader(t) \/ ReadPayload(t)
    \/ Drop(t) \/ Forget(t)

Next ==
    \/ \E t \in Threads :
          \/ \E op \in Op : Call(t, op)
          \/ StartThread(t)
          \/ Step(t)
    \/ Fork \/ ResetAfterFork \/ ChildExits
    \/ \E c \in ConnId : Serve(c)
    \/ BrokerDies

Spec == Init /\ [][Next]_vars

\* Threads run, the broker answers what it has read.
Fairness ==
    /\ \A t \in Threads : WF_vars(Step(t))
    /\ \A c \in ConnId : WF_vars(Serve(c))
    /\ WF_vars(ResetAfterFork)

FairSpec == Spec /\ Fairness

-----------------------------------------------------------------------------
\* "Interleaving two of them does not lose a reply, it hands each caller the
\* other's": the answer a thread accepts is the answer to its own request,
\* whatever other threads do and however often the broker is restarted.
OwnAnswer == ~crossed

\* A connection carries the requests of one process only: a forked child never
\* uses what it inherited (native_broker_reset_after_fork).
NotShared ==
    \A c \in DOMAIN conn : \A p, q \in conn[c].users : p = q

\* A process that has claimed its session and is outside any call does not go
\* on with a connection that does not claim it, although the broker was
\* restarted in between (broker_connection); a refusal by the broker aside.
ClaimsAgain ==
    LET c == open["shell"][broker_fd["shell"]]
    IN \/ \E t \in Thread : pc[t] \notin {"none", "idle", "waitpid"}
       \/ ~broker_attached["shell"] \/ broker_fd["shell"] = 0
       \/ ~Live(c) \/ conn[c].attached \/ refusedAttach

InACall(t) == pc[t] \notin {"none", "idle", "waitpid"}
Returned(t) == pc[t] = "idle"

\* A call returns, though the broker goes away in the middle of it.
CallReturns == \A t \in Thread : InACall(t) ~> Returned(t)

\* What native_broker_reset_after_fork() is for: "the next call in this process
\* opens a connection of its own", so a forked child's first call gets there.
ChildReachesBroker == (pc[Child] = "exchange") ~> (pc[Child] # "exchange")

-----------------------------------------------------------------------------
(***************************************************************************)
(* Proofs, for any number of threads, descriptors, calls and brokers.      *)
(*                                                                         *)
(* NotShared is not inductive: that a process speaks only on connections   *)
(* of its own follows from what it has open, the shell's descriptors being *)
(* its own (OwnLinks) and a command's being apart from the shell's once it *)
(* is out of native_broker_reset_after_fork (ChildApart).  OwnAnswer is    *)
(* not either: what lies on a connection has to be known to be the one     *)
(* request, or the one answer, that a thread waits for there (Pending),    *)
(* and that needs broker_lock (Guarded) and NotShared.                     *)
(***************************************************************************)
Places == {"none", "idle", "get", "connect", "reget", "ensure", "connectOwn",
           "exchange", "send", "wait", "payload", "drop", "forget", "forked",
           "waitpid"}
Using == {"exchange", "send", "wait", "payload"}
Inside(t) == pc[t] \in {"send", "wait", "payload"}

Answers == [by : Threads, n : 0..MaxCalls, status : {"ok", "refused"}]
Links == [broker : 1..LastBroker, in : Seq(Request), out : Seq(Answers),
          attached : BOOLEAN, users : SUBSET Process]
Calls == [op : Op, fd : 0..MaxFd, attempt : Nat, ensured : BOOLEAN,
          held : 0..LastConn, attaching : BOOLEAN, status : {"ok", "refused"}]

ClientTypes ==
    /\ up \in {0, started} /\ started \in 1..LastBroker
    /\ conn \in Seq(Links) /\ Len(conn) <= LastConn
    /\ \A c \in DOMAIN conn : conn[c].broker <= started
    /\ open \in [Process -> [Fd -> 0..LastConn]]
    /\ \A p \in Process, f \in Fd : open[p][f] <= Len(conn)
    /\ broker_fd \in [Process -> 0..MaxFd]
    /\ broker_attached \in [Process -> BOOLEAN]
    /\ lock \in [Process -> Threads \cup {NoThread}]
    /\ pc \in [Threads -> Places]
    /\ call \in [Threads -> Calls]
    /\ calls \in [Threads -> 0..MaxCalls]

\* An exchange is made on a descriptor, under the lock if it is of the kind
\* that takes it.
Placed == \A t \in Threads : pc[t] \in Using => call[t].fd \in Fd
Guarded == \A t \in Threads : Inside(t) /\ Locks(t) => lock[Of(t)] = t

\* Who waits for an answer has asked on that connection.
Waiters == \A t \in Threads :
    pc[t] = "wait" => /\ call[t].held \in DOMAIN conn
                      /\ Of(t) \in conn[call[t].held].users

\* What the shell has open only the shell has used.
OwnLinks == \A f \in Fd :
    open["shell"][f] # 0 => conn[open["shell"][f]].users \subseteq {"shell"}

\* A command's connection, once it has let go of the shell's.
Apart(c) == /\ conn[c].users \subseteq {"child"}
            /\ \A f \in Fd : open["shell"][f] # c
ChildApart ==
    /\ call[Child].op = "plain"
    /\ pc[Child] \in Using => call[Child].fd = broker_fd["child"]
    /\ pc[Child] \notin {"none", "forked"} /\ broker_fd["child"] # 0 =>
         LET c == open["child"][broker_fd["child"]] IN c # 0 => Apart(c)

\* The shell's main thread waits for the command.
Paused == pc[Child] # "none" => pc[Main] = "waitpid"

ClientInv == /\ ClientTypes /\ Placed /\ Guarded /\ Waiters /\ Paused
             /\ OwnLinks /\ ChildApart /\ NotShared

-----------------------------------------------------------------------------
USE ZenonT(12), SMTT(20)

LEMMA NoneLeft == ASSUME NEW S, NEW q \in Seq(S), Len(q) = 0 PROVE q = <<>>
BY SMTT(20)

LEMMA TailOfOne ==
    ASSUME NEW S, NEW q \in Seq(S), Len(q) = 1 PROVE Tail(q) = <<>>
<1>1. q # <<>>
  BY SMTT(20)
<1>2. Tail(q) \in Seq(S) /\ Len(Tail(q)) = 0
  BY SMTT(20), <1>1
<1> QED
  BY <1>2, NoneLeft, Zenon

LEMMA OfThread ==
    ASSUME Constants
    PROVE  /\ \A t \in Threads : Of(t) \in Process
           /\ \A t \in Threads : Of(t) = "child" <=> t = Child
           /\ Child \in Threads /\ Main \in Threads /\ Main # Child
           /\ "shell" \in Process /\ "child" \in Process /\ "shell" # "child"
BY DEF Constants, Threads, Of, Process

LEMMA NoCallTyped ==
    ASSUME Constants PROVE NoCall \in Calls /\ NoCall.op = "plain"
BY SMTT(20) DEF NoCall, Calls, Op, Constants

LEMMA ClientInit == ASSUME Constants, Init PROVE ClientInv /\ ~crossed
<1>1. ClientTypes
  BY SMTT(20), OfThread, NoCallTyped DEF Constants, Init, ClientTypes, Places, Fd
<1>2. Placed /\ Guarded /\ Waiters /\ Paused
  BY OfThread DEF Init, Placed, Guarded, Waiters, Paused, Using, Inside
<1>3. OwnLinks /\ ChildApart
  BY OfThread, NoCallTyped DEF Init, OwnLinks, ChildApart, Using
<1>4. NotShared /\ ~crossed
  BY SMTT(20) DEF Init, NotShared
<1> QED
  BY <1>1, <1>2, <1>3, <1>4 DEF ClientInv

\* Steps that leave alone who has used which connection.  A thread goes from
\* one place to another; descriptors may be closed and forgotten.
SameUsers == /\ Len(conn') = Len(conn)
             /\ \A c \in 1..Len(conn) : conn'[c].users = conn[c].users
Closes == /\ open' \in [Process -> [Fd -> 0..LastConn]]
          /\ \A p \in Process, f \in Fd : open'[p][f] \in {open[p][f], 0}

LEMMA Calm ==
    ASSUME Constants, ClientInv, NEW t \in Threads, NEW w \in Places, NEW r \in Calls,
           SameUsers, pc' = [pc EXCEPT ![t] = w], call' = [call EXCEPT ![t] = r],
           pc[t] # "waitpid", w # "wait", w \in Using => r.fd \in Fd,
           ClientTypes', Guarded', Closes,
           t # Child => broker_fd'["child"] = broker_fd["child"],
           t = Child => /\ broker_fd'["child"] \in {broker_fd["child"], 0}
                        /\ pc[Child] \notin {"none", "forked"}
                        /\ r.op = "plain"
                        /\ w \in Using => r.fd = broker_fd'["child"]
    PROVE  ClientInv'
<1> USE OfThread
<1>0. /\ pc \in [Threads -> Places] /\ call \in [Threads -> Calls]
      /\ broker_fd \in [Process -> 0..MaxFd]
      /\ open \in [Process -> [Fd -> 0..LastConn]]
      /\ \A p \in Process, f \in Fd : open[p][f] <= Len(conn)
      /\ Len(conn) \in Nat /\ DOMAIN conn = 1..Len(conn)
  <2>1. conn \in Seq(Links)
    BY DEF ClientInv, ClientTypes
  <2>2. Len(conn) \in Nat /\ DOMAIN conn = 1..Len(conn)
    BY SMTT(20), <2>1
  <2> QED
    BY <2>2 DEF ClientInv, ClientTypes
<1>00. DOMAIN conn' = DOMAIN conn
  <2>1. conn' \in Seq(Links)'
    BY DEF ClientTypes
  <2> QED
    BY SMTT(20), <1>0, <2>1 DEF SameUsers
<1>01. \A p \in Process, f \in Fd : open[p][f] # 0 => open[p][f] \in 1..Len(conn)
  BY SMTT(20), <1>0 DEF Constants
<1>1. Placed'
  BY <1>0 DEF ClientInv, Placed
<1>2. Waiters'
  BY <1>0, <1>00 DEF ClientInv, Waiters, SameUsers
<1>3. OwnLinks'
  BY <1>01 DEF ClientInv, OwnLinks, Closes, SameUsers
<1>4. ChildApart'
  <2>1. call'[Child].op = "plain"
    BY <1>0 DEF ClientInv, ChildApart
  <2>2. pc'[Child] \in Using => call'[Child].fd = broker_fd'["child"]
    BY <1>0 DEF ClientInv, ChildApart
  <2>3. ASSUME pc'[Child] \notin {"none", "forked"}, broker_fd'["child"] # 0,
               open'["child"][broker_fd'["child"]] # 0
        PROVE  Apart(open["child"][broker_fd["child"]])'
    <3>1. pc[Child] \notin {"none", "forked"} /\ broker_fd'["child"] = broker_fd["child"]
      BY <2>3, <1>0
    <3>2. broker_fd["child"] \in Fd
      BY SMTT(20), <3>1, <2>3, <1>0 DEF Fd, Constants
    <3>3. open'["child"][broker_fd["child"]] = open["child"][broker_fd["child"]]
      BY <3>1, <3>2, <2>3 DEF Closes
    <3>4. Apart(open["child"][broker_fd["child"]])
      BY <3>1, <3>3, <2>3 DEF ClientInv, ChildApart
    <3>5. \A f \in Fd : open'["shell"][f] # open["child"][broker_fd["child"]]
      BY <3>1, <3>3, <3>4, <2>3 DEF Apart, Closes
    <3>6. open["child"][broker_fd["child"]] \in 1..Len(conn)
      BY <1>01, <3>1, <3>2, <3>3, <2>3
    <3> QED
      BY <3>1, <3>3, <3>4, <3>5, <3>6 DEF Apart, SameUsers
  <2> QED
    BY <2>1, <2>2, <2>3 DEF ChildApart
<1>5. NotShared'
  BY <1>0, <1>00 DEF ClientInv, NotShared, SameUsers
<1>6. Paused'
  BY <1>0 DEF ClientInv, Paused
<1> QED
  BY <1>1, <1>2, <1>3, <1>4, <1>5, <1>6 DEF ClientInv

\* A thread goes on outside an exchange.
Outside == Places \ {"send", "wait", "payload"}
SameTables == /\ UNCHANGED <<conn, open, broker_attached, lock>>
              /\ started' \in started..LastBroker /\ up' \in {0, started'}
              /\ calls' \in [Threads -> 0..MaxCalls]

LEMMA Moved ==
    ASSUME Constants, ClientInv, SameTables,
           NEW t \in Threads, NEW w \in Outside, NEW r \in Calls,
           pc' = [pc EXCEPT ![t] = w], call' = [call EXCEPT ![t] = r],
           pc[t] # "waitpid", w = "exchange" => r.fd \in Fd,
           broker_fd' \in {broker_fd, [broker_fd EXCEPT ![Of(t)] = 0]},
           t = Child => /\ pc[Child] \notin {"none", "forked"}
                        /\ r.op = "plain"
                        /\ w = "exchange" => r.fd = broker_fd'["child"]
    PROVE  ClientInv'
<1> USE OfThread
<1>1. w \in Places /\ w # "wait" /\ (w \in Using => w = "exchange")
  BY DEF Outside, Using
<1>2. ClientTypes'
  <2>1. broker_fd' \in [Process -> 0..MaxFd]
    <3>1. broker_fd \in [Process -> 0..MaxFd] /\ 0 \in 0..MaxFd
      BY SMTT(20) DEF ClientInv, ClientTypes, Constants
    <3> QED
      BY <3>1
  <2>2. started' \in 1..LastBroker /\ up' \in {0, started'}
    BY SMTT(20) DEF ClientInv, ClientTypes, SameTables, Constants
  <2>3. \A c \in DOMAIN conn : conn[c].broker <= started'
    <3>1. started \in Nat /\ started' \in Nat /\ started <= started'
      BY SMTT(20) DEF ClientInv, ClientTypes, SameTables, Constants
    <3>2. ASSUME NEW c \in DOMAIN conn PROVE conn[c].broker \in Nat
      <4>1. conn[c] \in Links
        BY SMTT(20) DEF ClientInv, ClientTypes
      <4> QED
        BY SMTT(20), <4>1 DEF Links, Constants
    <3>3. \A c \in DOMAIN conn : conn[c].broker <= started
      BY DEF ClientInv, ClientTypes
    <3> QED
      BY SMTT(20), <3>1, <3>2, <3>3
  <2>4. pc' \in [Threads -> Places] /\ call' \in [Threads -> Calls]
    BY <1>1 DEF ClientInv, ClientTypes
  <2> QED
    BY <2>1, <2>2, <2>3, <2>4 DEF ClientInv, ClientTypes, SameTables
<1>3. Guarded'
  BY DEF ClientInv, ClientTypes, Guarded, Inside, Locks, SameTables, Outside
<1>4. Closes /\ SameUsers
  BY DEF ClientInv, ClientTypes, Closes, SameUsers, SameTables
<1>5. /\ t # Child => broker_fd'["child"] = broker_fd["child"]
      /\ t = Child => broker_fd'["child"] \in {broker_fd["child"], 0}
  BY DEF ClientInv, ClientTypes
<1> QED
  BY <1>1, <1>2, <1>3, <1>4, <1>5, Calm

-----------------------------------------------------------------------------
LEMMA CallKeeps ==
    ASSUME Constants, ClientInv, NEW t \in Threads, NEW op \in Op, Call(t, op)
    PROVE  ClientInv'
<1> DEFINE r == [NoCall EXCEPT !.op = op, !.attempt = 1]
           w == IF op = "own" THEN "ensure" ELSE "get"
<1>1. w \in Outside /\ w # "exchange"
  BY DEF Places, Outside
<1>2. r \in Calls /\ r.op = op
  BY NoCallTyped DEF Calls
<1>3. pc' = [pc EXCEPT ![t] = w] /\ call' = [call EXCEPT ![t] = r]
  BY DEF Call, Goto
<1>4. /\ UNCHANGED <<up, started, conn, open, broker_fd, broker_attached, lock>>
      /\ pc[t] = "idle" /\ (t = Child => op = "plain")
      /\ calls[t] < MaxCalls /\ calls' = [calls EXCEPT ![t] = @ + 1]
  BY DEF Call, procVars, Idle
<1> HIDE DEF r, w
<1>5. SameTables
  BY SMTT(20), <1>4 DEF ClientInv, ClientTypes, SameTables, Constants
<1> QED
  BY <1>1, <1>2, <1>3, <1>4, <1>5, Moved

LEMMA StartThreadKeeps ==
    ASSUME Constants, ClientInv, NEW t \in Threads, StartThread(t)
    PROVE  ClientInv'
<1>1. pc' = [pc EXCEPT ![t] = "idle"] /\ pc[t] = "none" /\ t # Child /\ "idle" \in Outside
  BY DEF StartThread, Goto, Constants, Outside, Places
<1>2. UNCHANGED <<up, started, conn, open, broker_fd, broker_attached, lock, call, calls>>
  BY DEF StartThread, procVars
<1>3. call' = [call EXCEPT ![t] = call[t]] /\ call[t] \in Calls
  BY <1>2 DEF ClientInv, ClientTypes
<1>4. SameTables
  BY SMTT(20), <1>2 DEF ClientInv, ClientTypes, SameTables, Constants
<1> QED
  BY <1>1, <1>2, <1>3, <1>4, Moved

\* A thread that is inside a call.
LEMMA ChildBusy ==
    ASSUME Constants, ClientInv
    PROVE  call[Child].op = "plain" /\ call \in [Threads -> Calls]
BY DEF ClientInv, ChildApart, ClientTypes

LEMMA GetConnectionKeeps ==
    ASSUME Constants, ClientInv, NEW t \in Threads, GetConnection(t)
    PROVE  ClientInv'
<1> USE OfThread, ChildBusy
<1>0. UNCHANGED <<up, started, conn, open, broker_fd, broker_attached, lock, calls>>
  BY DEF GetConnection, procVars
<1>1. SameTables
  BY SMTT(20), <1>0 DEF ClientInv, ClientTypes, SameTables, Constants
<1>2. pc[t] \notin {"none", "forked", "waitpid"} /\ broker_fd \in [Process -> 0..MaxFd]
  BY DEF GetConnection, ClientInv, ClientTypes
<1>3. {"exchange", "connect", "ensure", "idle"} \subseteq Outside
  BY DEF Outside, Places
<1>4. CASE /\ broker_fd[Of(t)] # 0
           /\ call' = [call EXCEPT ![t].fd = broker_fd[Of(t)]]
           /\ Goto(t, "exchange")
  <2> DEFINE r == [call[t] EXCEPT !.fd = broker_fd[Of(t)]]
  <2>1. r \in Calls /\ r.op = call[t].op /\ r.fd = broker_fd[Of(t)]
    BY <1>2 DEF Calls
  <2>2. r.fd \in Fd
    BY SMTT(20), <1>2, <1>4, <2>1 DEF Fd, Constants
  <2>3. call' = [call EXCEPT ![t] = r] /\ pc' = [pc EXCEPT ![t] = "exchange"]
    BY <1>4 DEF Goto
  <2> HIDE DEF r
  <2> QED
    BY <1>0, <1>1, <1>2, <1>3, <2>1, <2>2, <2>3, Moved
<1>5. CASE Goto(t, "connect") /\ UNCHANGED call
  <2>1. call' = [call EXCEPT ![t] = call[t]] /\ pc' = [pc EXCEPT ![t] = "connect"]
    BY <1>5 DEF Goto
  <2> QED
    BY <1>0, <1>1, <1>2, <1>3, <2>1, Moved
<1>6. CASE Return(t)
  <2>1. call' = [call EXCEPT ![t] = NoCall] /\ pc' = [pc EXCEPT ![t] = "idle"]
    BY <1>6 DEF Return, Goto
  <2> QED
    BY <1>0, <1>1, <1>2, <1>3, <2>1, NoCallTyped, Moved
<1>7. CASE Goto(t, "ensure") /\ UNCHANGED call
  <2>1. call' = [call EXCEPT ![t] = call[t]] /\ pc' = [pc EXCEPT ![t] = "ensure"]
    BY <1>7 DEF Goto
  <2> QED
    BY <1>0, <1>1, <1>2, <1>3, <2>1, Moved
<1> QED
  BY <1>4, <1>5, <1>6, <1>7 DEF GetConnection

LEMMA ConnectFailsKeeps ==
    ASSUME Constants, ClientInv, NEW t \in Threads, Connect(t), ~ Opens(t)
    PROVE  ClientInv'
<1> USE OfThread, ChildBusy
<1>0. UNCHANGED <<up, started, conn, open, broker_fd, broker_attached, lock, calls>>
  BY DEF Connect
<1>1. SameTables
  BY SMTT(20), <1>0 DEF ClientInv, ClientTypes, SameTables, Constants
<1>2. pc[t] \notin {"none", "forked", "waitpid"}
  BY DEF Connect
<1>3. {"ensure", "idle"} \subseteq Outside
  BY DEF Outside, Places
<1>4. CASE Return(t)
  <2>1. call' = [call EXCEPT ![t] = NoCall] /\ pc' = [pc EXCEPT ![t] = "idle"]
    BY <1>4 DEF Return, Goto
  <2> QED
    BY <1>0, <1>1, <1>2, <1>3, <2>1, NoCallTyped, Moved
<1>5. CASE Goto(t, "ensure") /\ UNCHANGED call
  <2>1. call' = [call EXCEPT ![t] = call[t]] /\ pc' = [pc EXCEPT ![t] = "ensure"]
    BY <1>5 DEF Goto
  <2> QED
    BY <1>0, <1>1, <1>2, <1>3, <2>1, Moved
<1> QED
  BY <1>4, <1>5 DEF Connect

LEMMA EnsureKeeps ==
    ASSUME Constants, ClientInv, NEW t \in Threads, Ensure(t)
    PROVE  ClientInv'
<1> USE OfThread, ChildBusy
<1>0. UNCHANGED <<conn, open, broker_fd, broker_attached, lock, calls>>
  BY DEF Ensure, procVars
<1>1. SameTables
  <2>1. started' \in started..LastBroker /\ up' \in {0, started'}
    BY SMTT(20) DEF Ensure, ClientInv, ClientTypes, Constants
  <2> QED
    BY <1>0, <2>1 DEF ClientInv, ClientTypes, SameTables
<1>2. pc[t] \notin {"none", "forked", "waitpid"}
  BY DEF Ensure
<1>4. CASE Return(t)
  <2>1. call' = [call EXCEPT ![t] = NoCall] /\ pc' = [pc EXCEPT ![t] = "idle"]
    BY <1>4 DEF Return, Goto
  <2>2. "idle" \in Outside
    BY DEF Outside, Places
  <2> QED
    BY <1>0, <1>1, <1>2, <2>1, <2>2, NoCallTyped, Moved
<1>5. CASE /\ call' = [call EXCEPT ![t].ensured = TRUE]
           /\ Goto(t, IF call[t].op = "own" THEN "connectOwn" ELSE "get")
  <2> DEFINE r == [call[t] EXCEPT !.ensured = TRUE]
             w == IF call[t].op = "own" THEN "connectOwn" ELSE "get"
  <2>1. r \in Calls /\ r.op = call[t].op
    BY DEF Calls
  <2>2. w \in Outside /\ w # "exchange"
    BY DEF Outside, Places
  <2>3. call' = [call EXCEPT ![t] = r] /\ pc' = [pc EXCEPT ![t] = w]
    BY <1>5 DEF Goto
  <2> HIDE DEF r, w
  <2> QED
    BY <1>0, <1>1, <1>2, <2>1, <2>2, <2>3, Moved
<1> QED
  BY <1>4, <1>5 DEF Ensure

LEMMA ForgetKeeps ==
    ASSUME Constants, ClientInv, NEW t \in Threads, Forget(t)
    PROVE  ClientInv'
<1> USE OfThread, ChildBusy
<1>0. /\ UNCHANGED <<up, started, conn, open, broker_attached, lock, calls>>
      /\ broker_fd' = [broker_fd EXCEPT ![Of(t)] = 0]
  BY DEF Forget
<1>1. SameTables
  BY SMTT(20), <1>0 DEF ClientInv, ClientTypes, SameTables, Constants
<1>2. pc[t] \notin {"none", "forked", "waitpid"}
  BY DEF Forget
<1>3. {"reget", "get", "idle"} \subseteq Outside
  BY DEF Outside, Places
<1>4. CASE Return(t)
  <2>1. call' = [call EXCEPT ![t] = NoCall] /\ pc' = [pc EXCEPT ![t] = "idle"]
    BY <1>4 DEF Return, Goto
  <2> QED
    BY <1>0, <1>1, <1>2, <1>3, <2>1, NoCallTyped, Moved
<1>5. CASE call' = [call EXCEPT ![t].attaching = FALSE] /\ Goto(t, "reget")
  <2> DEFINE r == [call[t] EXCEPT !.attaching = FALSE]
  <2>1. r \in Calls /\ r.op = call[t].op
    BY DEF Calls
  <2>2. call' = [call EXCEPT ![t] = r] /\ pc' = [pc EXCEPT ![t] = "reget"]
    BY <1>5 DEF Goto
  <2> HIDE DEF r
  <2> QED
    BY <1>0, <1>1, <1>2, <1>3, <2>1, <2>2, Moved
<1>6. CASE /\ call' = [call EXCEPT ![t].attempt = @ + 1, ![t].ensured = FALSE]
           /\ Goto(t, "get")
  <2> DEFINE r == [call[t] EXCEPT !.attempt = @ + 1, !.ensured = FALSE]
  <2>1. r \in Calls /\ r.op = call[t].op
    <3>1. call[t] \in Calls /\ call[t].attempt + 1 \in Nat
      BY SMTT(20) DEF Calls
    <3> QED
      BY <3>1 DEF Calls
  <2>2. call' = [call EXCEPT ![t] = r] /\ pc' = [pc EXCEPT ![t] = "get"]
    BY <1>6 DEF Goto
  <2> HIDE DEF r
  <2> QED
    BY <1>0, <1>1, <1>2, <1>3, <2>1, <2>2, Moved
<1> QED
  BY <1>4, <1>5, <1>6 DEF Forget

LEMMA ExchangeKeeps ==
    ASSUME Constants, ClientInv, NEW t \in Threads, Exchange(t)
    PROVE  ClientInv'
<1> USE OfThread, ChildBusy
<1>0. /\ UNCHANGED <<up, started, conn, open, broker_fd, broker_attached, call, calls>>
      /\ pc[t] = "exchange" /\ pc' = [pc EXCEPT ![t] = "send"]
  BY DEF Exchange, Goto
<1>1. /\ pc \in [Threads -> Places] /\ NoThread \notin Threads
      /\ lock \in [Process -> Threads \cup {NoThread}]
  BY DEF ClientInv, ClientTypes, Constants
<1>2. IF Locks(t)
      THEN lock[Of(t)] = NoThread /\ lock' = [lock EXCEPT ![Of(t)] = t]
      ELSE lock' = lock
  BY DEF Exchange
<1>3. ClientTypes'
  <2>1. pc' \in [Threads -> Places]
    BY <1>0, <1>1 DEF Places
  <2>2. lock' \in [Process -> Threads \cup {NoThread}]
    BY <1>1, <1>2
  <2> QED
    BY <1>0, <2>1, <2>2 DEF ClientInv, ClientTypes
<1>4. Guarded'
  <2> SUFFICES ASSUME NEW s \in Threads, Inside(s)', Locks(s)'
               PROVE  lock'[Of(s)] = s
    BY DEF Guarded
  <2>1. Locks(s)
    BY <1>0 DEF Locks
  <2>2. CASE s = t
    BY <1>1, <1>2, <2>1, <2>2
  <2>3. CASE s # t
    <3>1. lock[Of(s)] = s
      BY <1>0, <1>1, <2>1, <2>3 DEF ClientInv, Guarded, Inside
    <3> QED
      BY <1>1, <1>2, <3>1
  <2> QED
    BY <2>2, <2>3
<1>5. Closes /\ SameUsers
  BY <1>0 DEF ClientInv, ClientTypes, Closes, SameUsers
<1>6. /\ "send" \in Places /\ call' = [call EXCEPT ![t] = call[t]] /\ call[t] \in Calls
      /\ call[t].fd \in Fd
  BY <1>0 DEF ClientInv, Placed, Using, Places
<1>7. t = Child => call[t].fd = broker_fd["child"]
  BY <1>0 DEF ClientInv, ChildApart, Using
<1> QED
  BY <1>0, <1>3, <1>4, <1>5, <1>6, <1>7, Calm

LEMMA DropKeeps ==
    ASSUME Constants, ClientInv, NEW t \in Threads, Drop(t)
    PROVE  ClientInv'
<1> USE OfThread, ChildBusy
<1>0. /\ UNCHANGED <<up, started, conn, broker_fd, broker_attached, lock, call, calls>>
      /\ pc[t] = "drop" /\ pc' = [pc EXCEPT ![t] = "forget"]
      /\ open' = IF broker_fd[Of(t)] = 0 THEN open
                 ELSE [open EXCEPT ![Of(t)][broker_fd[Of(t)]] = 0]
  BY DEF Drop, procVars, Goto
<1>1. /\ open \in [Process -> [Fd -> 0..LastConn]] /\ 0 \in 0..LastConn
      /\ pc \in [Threads -> Places] /\ "forget" \in Places \ Using
  BY SMTT(20) DEF ClientInv, ClientTypes, Constants, Places, Using
<1>2. Closes
  BY <1>0, <1>1 DEF Closes
<1>3. ClientTypes'
  <2>1. pc' \in [Threads -> Places]
    BY <1>0, <1>1
  <2>2. \A p \in Process, f \in Fd : open'[p][f] <= Len(conn)
    <3>1. /\ \A p \in Process, f \in Fd : open[p][f] <= Len(conn)
          /\ conn \in Seq(Links)
      BY DEF ClientInv, ClientTypes
    <3>2. 0 <= Len(conn)
      BY SMTT(20), <3>1
    <3> QED
      BY <1>2, <3>1, <3>2 DEF Closes
  <2> QED
    BY <1>0, <1>2, <2>1, <2>2 DEF ClientInv, ClientTypes, Closes
<1>4. Guarded'
  BY <1>0, <1>1 DEF ClientInv, Guarded, Inside, Locks
<1>5. SameUsers
  BY <1>0 DEF SameUsers
<1>6. call' = [call EXCEPT ![t] = call[t]] /\ call[t] \in Calls
  BY <1>0
<1>7. "forget" \in Places /\ "forget" \notin Using
  BY <1>1
<1> QED
  BY <1>0, <1>2, <1>3, <1>4, <1>5, <1>6, <1>7, Calm

\* An exchange is over, with an answer or without.
Finished(t, w, r) ==
    /\ w \in Outside \ {"exchange"} /\ r \in Calls /\ (t = Child => r.op = "plain")
    /\ pc' = [pc EXCEPT ![t] = w] /\ call' = [call EXCEPT ![t] = r]

LEMMA AfterFacts ==
    ASSUME Constants, ClientInv, NEW t \in Threads, NEW o, After(t, o), Inside(t)
    PROVE  /\ Closes /\ Guarded'
           /\ lock' \in [Process -> Threads \cup {NoThread}]
           /\ broker_attached' \in [Process -> BOOLEAN]
           /\ \E w, r : Finished(t, w, r)
<1> USE OfThread, ChildBusy
<1>1. /\ open \in [Process -> [Fd -> 0..LastConn]] /\ 0 \in 0..LastConn
      /\ pc \in [Threads -> Places] /\ NoThread \notin Threads
      /\ lock \in [Process -> Threads \cup {NoThread}]
      /\ broker_attached \in [Process -> BOOLEAN]
  BY SMTT(20) DEF ClientInv, ClientTypes, Constants
<1>2. Closes
  BY <1>1 DEF Closes, After
<1>3. broker_attached' \in [Process -> BOOLEAN]
  BY <1>1 DEF After
<1>4. lock' = IF Locks(t) THEN [lock EXCEPT ![Of(t)] = NoThread] ELSE lock
  BY DEF After, Unlock
<1>5. lock' \in [Process -> Threads \cup {NoThread}]
  BY <1>1, <1>4
<1>6. \E w, r : Finished(t, w, r)
  <2>0. {"drop", "reget", "idle"} \subseteq Outside \ {"exchange"}
    BY DEF Outside, Places
  <2>1. CASE Goto(t, "drop") /\ UNCHANGED call
    <3>1. Finished(t, "drop", call[t])
      BY <2>0, <2>1 DEF Goto, Finished
    <3> QED
      BY <3>1
  <2>2. CASE call' = [call EXCEPT ![t].attaching = FALSE] /\ Goto(t, "reget")
    <3> DEFINE r == [call[t] EXCEPT !.attaching = FALSE]
    <3>1. r \in Calls /\ r.op = call[t].op
      BY DEF Calls
    <3>2. call' = [call EXCEPT ![t] = r] /\ pc' = [pc EXCEPT ![t] = "reget"]
      BY <2>2 DEF Goto
    <3> HIDE DEF r
    <3>3. Finished(t, "reget", r)
      BY <2>0, <3>1, <3>2 DEF Finished
    <3> QED
      BY <3>3
  <2>3. CASE Return(t)
    <3>1. Finished(t, "idle", NoCall)
      BY <2>0, <2>3, NoCallTyped DEF Return, Goto, Finished
    <3> QED
      BY <3>1
  <2> QED
    BY <2>1, <2>2, <2>3 DEF After
<1>7. Guarded'
  <2> SUFFICES ASSUME NEW s \in Threads, Inside(s)', Locks(s)'
               PROVE  lock'[Of(s)] = s
    BY DEF Guarded
  <2>1. PICK w, r : Finished(t, w, r)
    BY <1>6
  <2>2. s # t /\ Inside(s) /\ Locks(s)
    BY <1>1, <2>1 DEF Finished, Inside, Outside, Locks
  <2>3. lock[Of(s)] = s
    BY <2>2 DEF ClientInv, Guarded
  <2>4. Locks(t) => lock[Of(t)] = t
    BY DEF ClientInv, Guarded
  <2> QED
    BY <1>1, <1>4, <2>2, <2>3, <2>4
<1> QED
  BY <1>2, <1>3, <1>5, <1>6, <1>7

SameLinks == /\ conn' \in Seq(Links) /\ SameUsers
             /\ \A c \in 1..Len(conn) : conn'[c].broker = conn[c].broker

LEMMA LinksTyped ==
    ASSUME ClientInv, SameLinks
    PROVE  /\ Len(conn') = Len(conn) /\ DOMAIN conn' = DOMAIN conn
           /\ \A c \in DOMAIN conn' : conn'[c].broker <= started
           /\ conn' \in Seq(Links) /\ Len(conn') <= LastConn
<1>1. conn \in Seq(Links) /\ conn' \in Seq(Links) /\ Len(conn') = Len(conn)
  BY DEF ClientInv, ClientTypes, SameLinks, SameUsers
<1>2. DOMAIN conn' = 1..Len(conn) /\ DOMAIN conn = 1..Len(conn)
  BY SMTT(20), <1>1
<1>3. \A c \in DOMAIN conn' : conn'[c].broker <= started
  BY <1>2 DEF ClientInv, ClientTypes, SameLinks
<1> QED
  BY <1>1, <1>2, <1>3 DEF ClientInv, ClientTypes

LEMMA AfterKeeps ==
    ASSUME Constants, ClientInv, NEW t \in Threads, NEW o, After(t, o), Inside(t),
           UNCHANGED <<up, started, broker_fd, calls>>, SameLinks
    PROVE  ClientInv'
<1> USE OfThread, ChildBusy
<1>1. PICK w, r : Finished(t, w, r)
  BY AfterFacts
<1>2. Closes /\ Guarded' /\ broker_attached' \in [Process -> BOOLEAN]
      /\ lock' \in [Process -> Threads \cup {NoThread}]
  BY AfterFacts
<1>3. w \in Places /\ w # "wait" /\ w \notin Using
  BY <1>1 DEF Finished, Outside, Using
<1>4. ClientTypes'
  <2>1. pc' \in [Threads -> Places] /\ call' \in [Threads -> Calls]
    BY <1>1, <1>3 DEF Finished, ClientInv, ClientTypes
  <2>2. \A p \in Process, f \in Fd : open'[p][f] <= Len(conn')
    <3>1. /\ \A p \in Process, f \in Fd : open[p][f] <= Len(conn)
          /\ conn \in Seq(Links)
      BY DEF ClientInv, ClientTypes
    <3>2. 0 <= Len(conn)
      BY SMTT(20), <3>1
    <3> QED
      BY <1>2, <3>1, <3>2, LinksTyped DEF Closes
  <2> QED
    BY <1>2, <2>1, <2>2, LinksTyped DEF ClientInv, ClientTypes, Closes
<1>5. SameUsers
  BY DEF SameLinks
<1>6. pc[t] \notin {"none", "forked", "waitpid"}
  BY DEF Inside
<1> QED
  BY <1>1, <1>2, <1>3, <1>4, <1>5, <1>6, Calm DEF Finished

LEMMA ReadPayloadKeeps ==
    ASSUME Constants, ClientInv, NEW t \in Threads, ReadPayload(t)
    PROVE  ClientInv'
<1>1. UNCHANGED <<up, started, conn, broker_fd, calls>> /\ Inside(t)
  BY DEF ReadPayload, Inside
<1>2. SameLinks
  BY <1>1 DEF SameLinks, SameUsers, ClientInv, ClientTypes
<1>3. \E o : After(t, o)
  BY DEF ReadPayload
<1> QED
  BY <1>1, <1>2, <1>3, AfterKeeps

LEMMA BrokenSendKeeps ==
    ASSUME Constants, ClientInv, NEW t \in Threads, Send(t), UNCHANGED conn,
           After(t, "broken"), UNCHANGED broker_fd
    PROVE  ClientInv'
<1>1. UNCHANGED <<up, started, conn, broker_fd, calls>> /\ Inside(t)
  BY DEF Send, Inside
<1>2. SameLinks
  BY <1>1 DEF SameLinks, SameUsers, ClientInv, ClientTypes
<1> QED
  BY <1>1, <1>2, AfterKeeps

\* What one connection becomes, and nothing else of the connections.
Changes(c, h) == /\ c \in 1..Len(conn) /\ h \in Links
                 /\ conn' = [conn EXCEPT ![c] = h]

LEMMA ChangedLinks ==
    ASSUME ClientInv, NEW c, NEW h, Changes(c, h)
    PROVE  /\ conn \in Seq(Links) /\ conn' \in Seq(Links) /\ Len(conn') = Len(conn)
           /\ DOMAIN conn = 1..Len(conn) /\ DOMAIN conn' = 1..Len(conn)
           /\ conn'[c] = h /\ \A d \in 1..Len(conn) : d # c => conn'[d] = conn[d]
<1>1. conn \in Seq(Links) /\ DOMAIN conn = 1..Len(conn)
  <2>1. conn \in Seq(Links)
    BY DEF ClientInv, ClientTypes
  <2> QED
    BY SMTT(20), <2>1
<1>2. conn' \in Seq(Links) /\ Len(conn') = Len(conn)
  BY SMTT(20), <1>1 DEF Changes
<1> QED
  BY <1>1, <1>2 DEF Changes

LEMMA ChangedAlike ==
    ASSUME ClientInv, NEW c, NEW h, Changes(c, h),
           h.users = conn[c].users, h.broker = conn[c].broker
    PROVE  SameLinks
BY ChangedLinks DEF SameLinks, SameUsers

\* The header of an answer is taken off the connection.
LEMMA HeaderTaken ==
    ASSUME Constants, ClientInv, NEW c \in 1..Len(conn), conn[c].out # <<>>,
           conn' = [conn EXCEPT ![c].out = Tail(@)]
    PROVE  /\ Changes(c, [conn[c] EXCEPT !.out = Tail(@)]) /\ SameLinks
           /\ Head(conn[c].out) \in Answers
<1>1. conn[c] \in Links
  BY SMTT(20) DEF ClientInv, ClientTypes
<1>2. conn[c].out \in Seq(Answers)
  BY <1>1 DEF Links
<1>3. Tail(conn[c].out) \in Seq(Answers) /\ Head(conn[c].out) \in Answers
  BY SMTT(20), <1>2
<1>4. Changes(c, [conn[c] EXCEPT !.out = Tail(@)])
  BY <1>1, <1>3 DEF Changes, Links
<1>5. SameLinks
  BY <1>1, <1>4, ChangedAlike DEF Links
<1> QED
  BY <1>3, <1>4, <1>5

LEMMA ReadHeaderKeeps ==
    ASSUME Constants, ClientInv, NEW t \in Threads, ReadHeader(t)
    PROVE  ClientInv'
<1> USE OfThread, ChildBusy
<1> DEFINE c == call[t].held
<1>0. UNCHANGED <<up, started, calls>> /\ pc[t] = "wait"
  BY DEF ReadHeader
<1>1. c \in 1..Len(conn) /\ call[t].fd \in Fd
      /\ (t = Child => call[t].fd = broker_fd["child"])
  <2>1. conn \in Seq(Links) /\ c \in DOMAIN conn
    BY <1>0 DEF ClientInv, ClientTypes, Waiters
  <2> QED
    BY SMTT(20), <1>0, <2>1 DEF ClientInv, Placed, ChildApart, Using
<1>2. CASE /\ conn[c].out # <<>> /\ conn' = [conn EXCEPT ![c].out = Tail(@)]
           /\ Goto(t, "payload")
           /\ call' = [call EXCEPT ![t].status = Head(conn[c].out).status]
           /\ UNCHANGED <<open, broker_fd, broker_attached, lock>>
  <2> DEFINE r == [call[t] EXCEPT !.status = Head(conn[c].out).status]
  <2>1. SameLinks /\ Head(conn[c].out) \in Answers
    BY <1>1, <1>2, HeaderTaken
  <2>2. /\ r \in Calls /\ r.op = call[t].op /\ r.fd = call[t].fd
        /\ r.attaching = call[t].attaching
    BY SMTT(20), <2>1 DEF Calls, Answers
  <2>3. call' = [call EXCEPT ![t] = r] /\ pc' = [pc EXCEPT ![t] = "payload"]
    BY <1>2 DEF Goto
  <2>4. "payload" \in Places /\ "payload" # "wait"
    BY DEF Places
  <2> HIDE DEF r
  <2>5. ClientTypes'
    BY <1>0, <1>2, <2>1, <2>2, <2>3, <2>4, LinksTyped DEF ClientInv, ClientTypes
  <2>6. Guarded'
    <3> SUFFICES ASSUME NEW s \in Threads, Inside(s)', Locks(s)'
                 PROVE  lock'[Of(s)] = s
      BY DEF Guarded
    <3>1. Inside(s) /\ Locks(s)
      BY <1>0, <2>2, <2>3 DEF Inside, Locks, ClientInv, ClientTypes
    <3> QED
      BY <1>2, <3>1 DEF ClientInv, Guarded
  <2>7. Closes /\ SameUsers
    BY <1>2, <2>1 DEF ClientInv, ClientTypes, Closes, SameLinks
  <2>8. /\ broker_fd' = broker_fd /\ pc[t] \notin {"none", "forked", "waitpid"} /\ r.fd \in Fd
        /\ t = Child => r.op = "plain" /\ r.fd = broker_fd'["child"]
    BY <1>0, <1>1, <1>2, <2>2
  <2> QED
    BY <2>2, <2>3, <2>4, <2>5, <2>6, <2>7, <2>8, Calm
<1>3. CASE /\ conn[c].out # <<>> /\ conn' = [conn EXCEPT ![c].out = Tail(@)]
           /\ After(t, Head(conn[c].out).status)
           /\ UNCHANGED broker_fd
  <2>1. SameLinks
    BY <1>1, <1>3, HeaderTaken
  <2> QED
    BY <1>0, <1>3, <2>1, AfterKeeps DEF Inside
<1>4. CASE After(t, "broken") /\ UNCHANGED <<conn, broker_fd>>
  <2>1. SameLinks
    BY <1>4 DEF SameLinks, SameUsers, ClientInv, ClientTypes
  <2> QED
    BY <1>0, <1>4, <2>1, AfterKeeps DEF Inside
<1> QED
  BY <1>2, <1>3, <1>4 DEF ReadHeader, procVars

\* A thread sends on a connection that nobody but its process has used.
LEMMA SendsOnOwn ==
    ASSUME Constants, ClientInv, NEW t \in Threads, pc[t] = "send",
           NEW c, c = open[Of(t)][call[t].fd], Live(c)
    PROVE  /\ c \in 1..Len(conn) /\ c \in 0..LastConn /\ conn[c] \in Links
           /\ DOMAIN conn = 1..Len(conn)
           /\ conn[c].users \subseteq {Of(t)}
           /\ [by |-> t, n |-> calls[t],
               attach |-> call[t].attaching \/ call[t].op = "attach"] \in Request
<1> USE OfThread, ChildBusy
<1> DEFINE p == Of(t)
<1>1. call[t].fd \in Fd /\ (t = Child => call[t].fd = broker_fd["child"])
  BY DEF ClientInv, Placed, ChildApart, Using
<1>2. /\ c \in 1..Len(conn) /\ c \in 0..LastConn /\ conn[c] \in Links
      /\ DOMAIN conn = 1..Len(conn)
  <2>1. conn \in Seq(Links) /\ open[p][call[t].fd] \in 0..LastConn /\ c <= Len(conn)
    BY <1>1 DEF ClientInv, ClientTypes
  <2>2. c # 0
    BY DEF Live
  <2> QED
    BY SMTT(20), <2>1, <2>2 DEF Constants
<1>3. [by |-> t, n |-> calls[t],
       attach |-> call[t].attaching \/ call[t].op = "attach"] \in Request
  BY DEF Request, ClientInv, ClientTypes, Calls
<1>4. CASE t = Child
  <2>1. p = "child" /\ pc[Child] \notin {"none", "forked"} /\ broker_fd["child"] # 0
    BY SMTT(20), <1>1, <1>4 DEF Fd
  <2>2. c = open["child"][broker_fd["child"]] /\ c # 0
    BY SMTT(20), <1>1, <1>2, <1>4, <2>1
  <2>3. Apart(c)
    BY <2>1, <2>2 DEF ClientInv, ChildApart
  <2> QED
    BY <1>2, <1>3, <2>1, <2>3 DEF Apart
<1>5. CASE t # Child
  <2>1. p = "shell"
    BY <1>5 DEF Process
  <2> QED
    BY SMTT(20), <1>1, <1>2, <1>3, <2>1 DEF ClientInv, OwnLinks
<1> QED
  BY <1>4, <1>5

\* The request goes out: the only step by which a process uses a connection.
Sent(t, c, q, h, r) ==
    /\ c = open[Of(t)][call[t].fd] /\ conn[c].broker = up /\ Changes(c, h)
    /\ q \in Request /\ q.by = t /\ q.n = calls[t]
    /\ h.in = Append(conn[c].in, q) /\ h.users = conn[c].users \cup {Of(t)}
    /\ h.out = conn[c].out /\ h.broker = conn[c].broker
    /\ r \in Calls /\ r.held = c /\ r.fd = call[t].fd /\ r.op = call[t].op
    /\ r.attaching = call[t].attaching
    /\ pc[t] = "send" /\ pc' = [pc EXCEPT ![t] = "wait"]
    /\ call' = [call EXCEPT ![t] = r]
    /\ UNCHANGED <<up, started, open, broker_fd, broker_attached, lock, calls, crossed>>

LEMMA SendFacts ==
    ASSUME Constants, ClientInv, NEW t \in Threads, Send(t),
           Live(open[Of(t)][call[t].fd])
    PROVE  \E c, q, h, r : Sent(t, c, q, h, r)
<1>1. PICK c : c = open[Of(t)][call[t].fd]
  OBVIOUS
<1>2. PICK q : q = [by |-> t, n |-> calls[t],
                    attach |-> call[t].attaching \/ call[t].op = "attach"]
  OBVIOUS
<1>3. /\ UNCHANGED <<up, started, open, broker_fd, broker_attached, lock, calls, crossed>>
      /\ pc[t] = "send" /\ pc' = [pc EXCEPT ![t] = "wait"]
      /\ conn' = [conn EXCEPT ![c].in = Append(@, q), ![c].users = @ \cup {Of(t)}]
      /\ call' = [call EXCEPT ![t].held = c]
  BY <1>1, <1>2 DEF Send, Goto, procVars, hist
<1>4. Live(c)
  BY <1>1
<1>5. /\ c \in 1..Len(conn) /\ c \in 0..LastConn /\ conn[c] \in Links
      /\ DOMAIN conn = 1..Len(conn) /\ q \in Request
  BY <1>1, <1>2, <1>3, <1>4, SendsOnOwn
<1>6. PICK h : h = [conn[c] EXCEPT !.in = Append(@, q), !.users = @ \cup {Of(t)}]
  OBVIOUS
<1>7. PICK r : r = [call[t] EXCEPT !.held = c]
  OBVIOUS
<1>8. Append(conn[c].in, q) \in Seq(Request) /\ Of(t) \in Process
  BY SMTT(20), <1>5, OfThread DEF Links
<1>9. /\ h \in Links /\ h.in = Append(conn[c].in, q) /\ h.out = conn[c].out
      /\ h.users = conn[c].users \cup {Of(t)} /\ h.broker = conn[c].broker
  BY <1>5, <1>6, <1>8 DEF Links
<1>10. Changes(c, h)
  BY <1>3, <1>5, <1>6, <1>9 DEF Changes
<1>11. /\ r \in Calls /\ r.held = c /\ r.fd = call[t].fd /\ r.op = call[t].op
       /\ r.attaching = call[t].attaching /\ call' = [call EXCEPT ![t] = r]
  BY <1>3, <1>5, <1>7, ChildBusy DEF Calls
<1>12. q.by = t /\ q.n = calls[t] /\ conn[c].broker = up
  BY <1>2, <1>4 DEF Live
<1> QED
  BY <1>1, <1>3, <1>5, <1>9, <1>10, <1>11, <1>12 DEF Sent

LEMMA LiveSendKeeps ==
    ASSUME Constants, ClientInv, NEW t \in Threads,
           NEW c, NEW q, NEW h, NEW r, Sent(t, c, q, h, r)
    PROVE  ClientInv'
<1> USE OfThread, ChildBusy
<1> DEFINE p == Of(t)
<1>0. /\ UNCHANGED <<up, started, open, broker_fd, broker_attached, lock, calls>>
      /\ pc[t] = "send" /\ pc' = [pc EXCEPT ![t] = "wait"]
      /\ c = open[p][call[t].fd] /\ h.users = conn[c].users \cup {p}
  BY DEF Sent
<1>1. call[t].fd \in Fd /\ (t = Child => call[t].fd = broker_fd["child"])
  BY <1>0 DEF ClientInv, Placed, ChildApart, Using
<1>17. call[t].fd # 0
  BY SMTT(20), <1>1 DEF Fd
<1>18. t = Child => /\ p = "child" /\ pc[Child] \notin {"none", "forked"}
                    /\ broker_fd["child"] # 0
  BY <1>0, <1>1, <1>17
<1>2. /\ c \in 1..Len(conn) /\ conn[c] \in Links /\ c # 0
      /\ DOMAIN conn = 1..Len(conn) /\ conn[c].users \subseteq {p}
  <2>1. c \in 1..Len(conn) /\ conn[c].broker = up
    BY DEF Sent, Changes
  <2>2. Live(c) /\ pc[t] = "send" /\ c = open[Of(t)][call[t].fd]
    BY SMTT(20), <1>0, <2>1 DEF Live
  <2>3. c # 0
    BY SMTT(20), <2>1
  <2> QED
    BY <2>2, <2>3, SendsOnOwn
<1>4. h \in Links /\ h.broker = conn[c].broker
  BY DEF Sent, Changes
<1>5. Changes(c, h)
  BY DEF Sent
<1>6. /\ r \in Calls /\ call' = [call EXCEPT ![t] = r] /\ r.fd = call[t].fd
      /\ r.op = call[t].op /\ r.attaching = call[t].attaching /\ r.held = c
  BY DEF Sent
<1>7. /\ conn' \in Seq(Links) /\ Len(conn') = Len(conn) /\ DOMAIN conn' = 1..Len(conn)
      /\ conn'[c] = h /\ \A d \in 1..Len(conn) : d # c => conn'[d] = conn[d]
  BY <1>5, ChangedLinks
<1>8. conn[c].users \subseteq {p}
  BY <1>2
<1>9. conn'[c].users = {p}
  BY <1>0, <1>7, <1>8
<1>10. ClientTypes'
  <2>1. pc' \in [Threads -> Places] /\ call' \in [Threads -> Calls]
    BY <1>0, <1>6 DEF ClientInv, ClientTypes, Places
  <2>2. \A d \in DOMAIN conn' : conn'[d].broker <= started
    BY <1>2, <1>4, <1>7 DEF ClientInv, ClientTypes
  <2> QED
    BY <1>0, <1>7, <2>1, <2>2 DEF ClientInv, ClientTypes
<1>11. Placed'
  BY <1>0, <1>1, <1>6 DEF ClientInv, ClientTypes, Placed
<1>12. Guarded'
  <2> SUFFICES ASSUME NEW s \in Threads, Inside(s)', Locks(s)'
               PROVE  lock'[Of(s)] = s
    BY DEF Guarded
  <2>1. Inside(s) /\ Locks(s)
    BY <1>0, <1>6 DEF Inside, Locks, ClientInv, ClientTypes
  <2> QED
    BY <1>0, <2>1 DEF ClientInv, Guarded
<1>13. Waiters'
  <2> SUFFICES ASSUME NEW s \in Threads, pc'[s] = "wait"
               PROVE  /\ call'[s].held \in DOMAIN conn'
                      /\ Of(s) \in conn'[call'[s].held].users
    BY DEF Waiters
  <2>1. CASE s = t
    BY <1>2, <1>6, <1>7, <1>9, <2>1
  <2>2. CASE s # t
    <3>1. pc[s] = "wait" /\ call'[s] = call[s]
      BY <1>0, <1>6, <2>2 DEF ClientInv, ClientTypes
    <3>2. call[s].held \in 1..Len(conn) /\ Of(s) \in conn[call[s].held].users
      BY <1>2, <3>1 DEF ClientInv, Waiters
    <3>3. call[s].held = c => Of(s) = p
      BY <1>8, <3>2
    <3> QED
      BY <1>7, <1>9, <3>1, <3>2, <3>3
  <2> QED
    BY <2>1, <2>2
<1>14. OwnLinks'
  <2> SUFFICES ASSUME NEW f \in Fd, open["shell"][f] # 0
               PROVE  conn'[open["shell"][f]].users \subseteq {"shell"}
    BY <1>0 DEF OwnLinks
  <2>1. open["shell"][f] \in 1..Len(conn)
    BY SMTT(20), <1>2 DEF ClientInv, ClientTypes, Constants
  <2>2. open["shell"][f] = c => p = "shell"
    <3>1. ASSUME t = Child PROVE open["shell"][f] # c
      <4>1. pc[Child] \notin {"none", "forked"} /\ broker_fd["child"] # 0
        BY <1>18, <3>1
      <4>2. c = open["child"][broker_fd["child"]] /\ c # 0
        BY <1>0, <1>1, <1>2, <1>18, <3>1
      <4> QED
        BY <4>1, <4>2 DEF ClientInv, ChildApart, Apart
    <3>2. t # Child => p = "shell"
      BY DEF Process
    <3> QED
      BY <3>1, <3>2
  <2> QED
    BY <1>7, <1>9, <2>1, <2>2 DEF ClientInv, OwnLinks
<1>15. ChildApart'
  <2>1. call'[Child].op = "plain"
    BY <1>6 DEF ClientInv, ClientTypes
  <2>2. pc'[Child] \in Using => call'[Child].fd = broker_fd'["child"]
    BY <1>0, <1>1, <1>6 DEF ClientInv, ClientTypes, ChildApart
  <2>3. ASSUME pc'[Child] \notin {"none", "forked"}, broker_fd["child"] # 0,
               open["child"][broker_fd["child"]] # 0
        PROVE  Apart(open["child"][broker_fd["child"]])'
    <3> DEFINE d == open["child"][broker_fd["child"]]
    <3>1. pc[Child] \notin {"none", "forked"}
      BY <1>0, <2>3 DEF ClientInv, ClientTypes
    <3>2. Apart(d)
      BY <2>3, <3>1 DEF ClientInv, ChildApart
    <3>3. d \in 1..Len(conn)
      <4>1. broker_fd["child"] \in Fd
        BY SMTT(20), <2>3 DEF ClientInv, ClientTypes, Fd, Constants
      <4> QED
        BY SMTT(20), <1>2, <2>3, <4>1 DEF ClientInv, ClientTypes, Constants
    <3>4. d = c => p = "child"
      <4>1. t # Child => p = "shell"
        BY DEF Process
      <4> QED
        BY <1>0, <1>1, <3>2, <4>1 DEF Apart
    <3>5. conn'[d].users \subseteq {"child"}
      BY <1>7, <1>9, <3>2, <3>3, <3>4 DEF Apart
    <3>6. open' = open /\ broker_fd' = broker_fd
      BY <1>0
    <3> QED
      BY <3>2, <3>5, <3>6 DEF Apart
  <2>4. open' = open /\ broker_fd' = broker_fd
    BY <1>0
  <2> QED
    BY <2>1, <2>2, <2>3, <2>4 DEF ChildApart
<1>16. NotShared'
  BY SMTT(20), <1>2, <1>7, <1>9 DEF ClientInv, NotShared
<1>19. Paused'
  BY <1>0 DEF ClientInv, ClientTypes, Paused
<1> QED
  BY <1>10, <1>11, <1>12, <1>13, <1>14, <1>15, <1>16, <1>19 DEF ClientInv

\* A new connection, which nobody has used.
LEMMA OpensKeeps ==
    ASSUME Constants, ClientInv, NEW t \in Threads, Connect(t), Opens(t)
    PROVE  ClientInv'
<1> USE OfThread, ChildBusy
<1> DEFINE p == Of(t)
           n == Len(conn) + 1
<1>0. /\ UNCHANGED <<up, started, broker_attached, lock, calls>>
      /\ up # 0 /\ Len(conn) < LastConn /\ pc' = [pc EXCEPT ![t] = "exchange"]
      /\ pc[t] \in {"connect", "connectOwn"}
  BY DEF Connect, Opens, Goto
<1>1. PICK fd \in Fd :
         /\ open[p][fd] = 0 /\ conn' = Append(conn, Fresh)
         /\ open' = [open EXCEPT ![p][fd] = n]
         /\ call' = [call EXCEPT ![t].fd = fd,
                        ![t].attaching = call[t].op # "own" /\ broker_attached[p]]
         /\ broker_fd' = IF call[t].op = "own" THEN broker_fd
                         ELSE [broker_fd EXCEPT ![p] = fd]
  BY DEF Opens, Lowest
<1> DEFINE r == [call[t] EXCEPT !.fd = fd,
                    !.attaching = call[t].op # "own" /\ broker_attached[p]]
<1>2. /\ conn \in Seq(Links) /\ open \in [Process -> [Fd -> 0..LastConn]]
      /\ broker_fd \in [Process -> 0..MaxFd] /\ pc \in [Threads -> Places]
      /\ \A q \in Process, f \in Fd : open[q][f] <= Len(conn)
      /\ LastConn \in Nat /\ broker_attached \in [Process -> BOOLEAN]
  BY DEF ClientInv, ClientTypes, Constants
<1>3. Fresh \in Links /\ Fresh.users = {} /\ Fresh.broker = up /\ up <= started
  BY SMTT(20), <1>0 DEF Fresh, Links, ClientInv, ClientTypes, Constants
<1>4. /\ conn' \in Seq(Links) /\ Len(conn') = n /\ conn'[n] = Fresh
      /\ DOMAIN conn' = 1..n /\ DOMAIN conn = 1..Len(conn)
      /\ \A d \in 1..Len(conn) : conn'[d] = conn[d]
      /\ n \in 1..LastConn /\ Len(conn) \in Nat
  BY SMTT(20), <1>0, <1>1, <1>2, <1>3
<1>5. /\ r \in Calls /\ r.fd = fd /\ r.op = call[t].op
      /\ call' = [call EXCEPT ![t] = r]
  <2>1. fd \in 0..MaxFd
    BY SMTT(20) DEF Fd, Constants
  <2> QED
    BY <1>1, <2>1 DEF Calls
<1> HIDE DEF r
<1>6. /\ open' \in [Process -> [Fd -> 0..LastConn]] /\ open'[p][fd] = n
      /\ \A q \in Process, f \in Fd :
            (q # p \/ f # fd) => open'[q][f] = open[q][f]
  BY SMTT(20), <1>1, <1>2, <1>4
<1>7. broker_fd' \in [Process -> 0..MaxFd] /\ fd # 0
  BY SMTT(20), <1>1, <1>2 DEF Fd, Constants
<1>8. \A q \in Process, f \in Fd : open[q][f] # n
  BY SMTT(20), <1>2, <1>4
<1> HIDE DEF n
<1>9. ClientTypes'
  <2>1. pc' \in [Threads -> Places] /\ call' \in [Threads -> Calls]
    BY <1>0, <1>2, <1>5 DEF Places
  <2>2. \A d \in DOMAIN conn' : conn'[d].broker <= started
    <3>1. \A d \in 1..n : d = n \/ d \in 1..Len(conn)
      BY SMTT(20), <1>4 DEF n
    <3> QED
      BY <1>3, <1>4, <3>1 DEF ClientInv, ClientTypes
  <2>3. \A q \in Process, f \in Fd : open'[q][f] <= Len(conn')
    <3>1. Len(conn) <= n /\ n <= n /\ n \in Nat
      BY SMTT(20), <1>4 DEF n
    <3>2. ASSUME NEW q \in Process, NEW f \in Fd PROVE open'[q][f] <= n
      <4>1. open[q][f] <= Len(conn) /\ open[q][f] \in Nat
        BY SMTT(20), <1>2
      <4>2. open'[q][f] \in {n, open[q][f]}
        BY <1>6
      <4> QED
        BY SMTT(20), <1>4, <3>1, <4>1, <4>2
    <3> QED
      BY <1>4, <3>2
  <2>4. Len(conn') <= LastConn
    BY SMTT(20), <1>4
  <2> QED
    BY <1>0, <1>4, <1>6, <1>7, <2>1, <2>2, <2>3, <2>4 DEF ClientInv, ClientTypes
<1>10. Placed'
  BY <1>0, <1>2, <1>5 DEF ClientInv, Placed
<1>11. Guarded'
  <2> SUFFICES ASSUME NEW s \in Threads, Inside(s)', Locks(s)'
               PROVE  lock'[Of(s)] = s
    BY DEF Guarded
  <2>1. Inside(s) /\ Locks(s)
    BY <1>0, <1>2, <1>5 DEF Inside, Locks
  <2> QED
    BY <1>0, <2>1 DEF ClientInv, Guarded
<1>12. Waiters'
  <2> SUFFICES ASSUME NEW s \in Threads, pc'[s] = "wait"
               PROVE  /\ call'[s].held \in DOMAIN conn'
                      /\ Of(s) \in conn'[call'[s].held].users
    BY DEF Waiters
  <2>1. pc[s] = "wait" /\ call'[s] = call[s]
    BY <1>0, <1>2, <1>5
  <2>2. call[s].held \in 1..Len(conn) /\ Of(s) \in conn[call[s].held].users
    BY <1>4, <2>1 DEF ClientInv, Waiters
  <2>3. call[s].held \in 1..n
    BY SMTT(20), <1>4, <2>2 DEF n
  <2> QED
    BY <1>4, <2>1, <2>2, <2>3
<1>13. OwnLinks'
  <2> SUFFICES ASSUME NEW f \in Fd, open'["shell"][f] # 0
               PROVE  conn'[open'["shell"][f]].users \subseteq {"shell"}
    BY DEF OwnLinks
  <2>1. CASE open'["shell"][f] = n
    BY <1>3, <1>4, <2>1
  <2>2. CASE open'["shell"][f] = open["shell"][f]
    <3>1. open["shell"][f] \in 1..Len(conn)
      BY SMTT(20), <1>2, <1>4, <2>2
    <3> QED
      BY <1>4, <2>2, <3>1 DEF ClientInv, OwnLinks
  <2> QED
    BY <1>6, <2>1, <2>2
<1>14. ChildApart'
  <2>1. call'[Child].op = "plain"
    BY <1>5
  <2>2. CASE t = Child
    <3>1. p = "child" /\ broker_fd'["child"] = fd /\ call'[Child].fd = fd
      BY <1>1, <1>2, <1>5, <2>2
    <3>2. open'["child"][broker_fd'["child"]] = n
      BY <1>6, <3>1
    <3>3. conn'[n].users \subseteq {"child"}
      BY <1>3, <1>4
    <3>4. ASSUME NEW f \in Fd PROVE open'["shell"][f] # n
      <4>1. "shell" # p
        BY <3>1
      <4>2. open'["shell"][f] = open["shell"][f]
        BY <1>6, <4>1
      <4> QED
        BY <1>8, <4>2
    <3> QED
      BY <2>1, <3>1, <3>2, <3>3, <3>4 DEF ChildApart, Apart
  <2>3. CASE t # Child
    <3>1. p = "shell" /\ broker_fd'["child"] = broker_fd["child"]
      BY <1>1, <1>2, <2>3 DEF Process
    <3>2. pc'[Child] = pc[Child] /\ call'[Child] = call[Child]
      BY <1>0, <1>2, <1>5, <2>3
    <3>3. pc'[Child] \in Using => call'[Child].fd = broker_fd'["child"]
      BY <3>1, <3>2 DEF ClientInv, ChildApart
    <3>4. ASSUME pc'[Child] \notin {"none", "forked"}, broker_fd["child"] # 0,
                 open'["child"][broker_fd["child"]] # 0
          PROVE  Apart(open["child"][broker_fd["child"]])'
      <4> DEFINE d == open["child"][broker_fd["child"]]
      <4>1. broker_fd["child"] \in Fd
        BY SMTT(20), <1>2, <3>4 DEF Fd, Constants
      <4>2. open'["child"][broker_fd["child"]] = d
        BY <1>6, <3>1, <4>1
      <4>3. Apart(d) /\ d \in 1..Len(conn)
        <5>1. Apart(d)
          BY <3>2, <3>4, <4>2 DEF ClientInv, ChildApart
        <5> QED
          BY SMTT(20), <1>2, <1>4, <3>4, <4>1, <4>2, <5>1
      <4>4. \A f \in Fd : open'["shell"][f] # d
        BY <1>6, <1>8, <4>1, <4>3 DEF Apart
      <4>5. conn'[d].users \subseteq {"child"}
        BY <1>4, <4>3 DEF Apart
      <4> QED
        BY <3>1, <4>2, <4>4, <4>5 DEF Apart
    <3> QED
      BY <2>1, <3>1, <3>3, <3>4 DEF ChildApart
  <2> QED
    BY <2>2, <2>3
<1>15. NotShared'
  <2>1. \A d \in 1..n : d = n \/ d \in 1..Len(conn)
    BY SMTT(20), <1>4 DEF n
  <2> QED
    BY <1>3, <1>4, <2>1 DEF ClientInv, NotShared
<1>16. Paused'
  BY <1>0, <1>2 DEF ClientInv, Paused
<1> QED
  BY <1>9, <1>10, <1>11, <1>12, <1>13, <1>14, <1>15, <1>16 DEF ClientInv

\* The command begins with what the shell had, and lets go of it; when it ends,
\* everything it had open closes.
LEMMA ForkKeeps == ASSUME Constants, ClientInv, Fork PROVE ClientInv'
<1> USE OfThread, ChildBusy
<1>0. /\ UNCHANGED <<up, started, conn, call, calls>>
      /\ pc' = [pc EXCEPT ![Child] = "forked", ![Main] = "waitpid"]
      /\ open' = [open EXCEPT !["child"] = open["shell"]]
      /\ broker_fd' = [broker_fd EXCEPT !["child"] = broker_fd["shell"]]
      /\ broker_attached' = [broker_attached EXCEPT !["child"] = broker_attached["shell"]]
      /\ lock' = [lock EXCEPT !["child"] = lock["shell"]]
  BY DEF Fork
<1>1. /\ open \in [Process -> [Fd -> 0..LastConn]] /\ pc \in [Threads -> Places]
      /\ \A p \in Process, f \in Fd : open[p][f] <= Len(conn)
      /\ lock \in [Process -> Threads \cup {NoThread}]
  BY DEF ClientInv, ClientTypes
<1>2. \A s \in Threads : s \notin {Child, Main} => pc'[s] = pc[s]
  BY <1>0, <1>1
<1>3. pc'[Child] = "forked" /\ pc'[Main] = "waitpid"
  BY <1>0, <1>1
<1>4. ClientTypes'
  <2>1. /\ pc' \in [Threads -> Places]
        /\ lock' \in [Process -> Threads \cup {NoThread}]
    BY <1>0, <1>1 DEF Places
  <2>2. /\ open' \in [Process -> [Fd -> 0..LastConn]]
        /\ \A p \in Process, f \in Fd : open'[p][f] <= Len(conn)
    BY <1>0, <1>1
  <2>3. broker_fd' \in [Process -> 0..MaxFd] /\ broker_attached' \in [Process -> BOOLEAN]
    BY <1>0 DEF ClientInv, ClientTypes
  <2> QED
    BY <1>0, <2>1, <2>2, <2>3 DEF ClientInv, ClientTypes
<1>5. Placed'
  BY <1>0, <1>2, <1>3 DEF ClientInv, Placed, Using
<1>6. Guarded'
  <2> SUFFICES ASSUME NEW s \in Threads, Inside(s)', Locks(s)'
               PROVE  lock'[Of(s)] = s
    BY DEF Guarded
  <2>1. s # Child /\ Inside(s) /\ Locks(s)
    BY <1>0, <1>2, <1>3 DEF Inside, Locks
  <2> QED
    BY <1>0, <1>1, <2>1 DEF ClientInv, Guarded
<1>7. Waiters'
  BY <1>0, <1>2, <1>3 DEF ClientInv, Waiters
<1>8. OwnLinks'
  <2>1. open'["shell"] = open["shell"]
    BY <1>0, <1>1
  <2> QED
    BY <1>0, <2>1 DEF ClientInv, OwnLinks
<1>9. ChildApart'
  BY <1>0, <1>3 DEF ChildApart, Using
<1>10. NotShared'
  BY <1>0 DEF ClientInv, NotShared
<1>11. Paused'
  BY <1>3 DEF Paused
<1> QED
  BY <1>4, <1>5, <1>6, <1>7, <1>8, <1>9, <1>10, <1>11 DEF ClientInv

LEMMA ResetAfterForkKeeps ==
    ASSUME Constants, ClientInv, ResetAfterFork PROVE ClientInv'
<1> USE OfThread, ChildBusy
<1>0. /\ UNCHANGED <<up, started, conn, lock, call, calls>>
      /\ pc' = [pc EXCEPT ![Child] = "idle"] /\ pc[Child] = "forked"
      /\ open' = IF broker_fd["child"] = 0 THEN open
                 ELSE [open EXCEPT !["child"][broker_fd["child"]] = 0]
      /\ broker_fd' = [broker_fd EXCEPT !["child"] = 0]
      /\ broker_attached' = [broker_attached EXCEPT !["child"] = FALSE]
  BY DEF ResetAfterFork, Goto
<1>1. /\ open \in [Process -> [Fd -> 0..LastConn]] /\ pc \in [Threads -> Places]
      /\ \A p \in Process, f \in Fd : open[p][f] <= Len(conn)
      /\ conn \in Seq(Links) /\ 0 \in 0..LastConn /\ 0 \in 0..MaxFd
      /\ broker_fd \in [Process -> 0..MaxFd]
      /\ broker_attached \in [Process -> BOOLEAN]
  BY SMTT(20) DEF ClientInv, ClientTypes, Constants
<1>2. \A s \in Threads : s # Child => pc'[s] = pc[s]
  BY <1>0, <1>1
<1>3. pc'[Child] = "idle" /\ broker_fd'["child"] = 0
  BY <1>0, <1>1
<1>4. Closes /\ open'["shell"] = open["shell"]
  BY <1>0, <1>1 DEF Closes
<1>5. ClientTypes'
  <2>1. pc' \in [Threads -> Places]
    BY <1>0, <1>1 DEF Places
  <2>2. 0 <= Len(conn)
    BY SMTT(20), <1>1
  <2>3. \A p \in Process, f \in Fd : open'[p][f] <= Len(conn)
    BY <1>1, <1>4, <2>2 DEF Closes
  <2>4. broker_fd' \in [Process -> 0..MaxFd] /\ broker_attached' \in [Process -> BOOLEAN]
    BY <1>0, <1>1
  <2> QED
    BY <1>0, <1>4, <2>1, <2>3, <2>4 DEF ClientInv, ClientTypes, Closes
<1>6. Placed' /\ Waiters'
  BY <1>0, <1>2, <1>3 DEF ClientInv, Placed, Waiters, Using
<1>7. Guarded'
  BY <1>0, <1>2, <1>3 DEF ClientInv, Guarded, Inside, Locks
<1>8. OwnLinks'
  BY <1>0, <1>4 DEF ClientInv, OwnLinks
<1>9. ChildApart'
  BY <1>0, <1>3 DEF ChildApart, Using
<1>10. NotShared'
  BY <1>0 DEF ClientInv, NotShared
<1>11. Paused'
  BY <1>0, <1>2 DEF ClientInv, Paused
<1> QED
  BY <1>5, <1>6, <1>7, <1>8, <1>9, <1>10, <1>11 DEF ClientInv

LEMMA ChildExitsKeeps ==
    ASSUME Constants, ClientInv, ChildExits PROVE ClientInv'
<1> USE OfThread, ChildBusy
<1>0. /\ UNCHANGED <<up, started, conn, broker_fd, broker_attached, lock, call>>
      /\ pc' = [pc EXCEPT ![Child] = "none", ![Main] = "idle"]
      /\ open' = [open EXCEPT !["child"] = [f \in Fd |-> 0]]
      /\ calls' = [calls EXCEPT ![Child] = MaxCalls]
  BY DEF ChildExits, procVars
<1>1. /\ open \in [Process -> [Fd -> 0..LastConn]] /\ pc \in [Threads -> Places]
      /\ \A p \in Process, f \in Fd : open[p][f] <= Len(conn)
      /\ conn \in Seq(Links) /\ 0 \in 0..LastConn /\ MaxCalls \in 0..MaxCalls
      /\ calls \in [Threads -> 0..MaxCalls]
  BY SMTT(20) DEF ClientInv, ClientTypes, Constants
<1>2. \A s \in Threads : s \notin {Child, Main} => pc'[s] = pc[s]
  BY <1>0, <1>1
<1>3. pc'[Child] = "none" /\ pc'[Main] = "idle"
  BY <1>0, <1>1
<1>4. Closes /\ open'["shell"] = open["shell"]
  BY <1>0, <1>1 DEF Closes
<1>5. ClientTypes'
  <2>1. pc' \in [Threads -> Places] /\ calls' \in [Threads -> 0..MaxCalls]
    BY <1>0, <1>1 DEF Places
  <2>2. 0 <= Len(conn)
    BY SMTT(20), <1>1
  <2>3. \A p \in Process, f \in Fd : open'[p][f] <= Len(conn)
    BY <1>1, <1>4, <2>2 DEF Closes
  <2> QED
    BY <1>0, <1>4, <2>1, <2>3 DEF ClientInv, ClientTypes, Closes
<1>6. Placed' /\ Waiters'
  BY <1>0, <1>2, <1>3 DEF ClientInv, Placed, Waiters, Using
<1>7. Guarded'
  BY <1>0, <1>2, <1>3 DEF ClientInv, Guarded, Inside, Locks
<1>8. OwnLinks'
  BY <1>0, <1>4 DEF ClientInv, OwnLinks
<1>9. ChildApart'
  BY <1>0, <1>3 DEF ChildApart, Using
<1>10. NotShared'
  BY <1>0 DEF ClientInv, NotShared
<1>11. Paused'
  BY <1>3 DEF Paused
<1> QED
  BY <1>5, <1>6, <1>7, <1>8, <1>9, <1>10, <1>11 DEF ClientInv

\* The broker answers, or goes.
Served(c, st) == [conn[c] EXCEPT !.in = Tail(@),
                     !.out = Append(@, [by |-> Head(conn[c].in).by,
                                        n |-> Head(conn[c].in).n, status |-> st]),
                     !.attached = @ \/ (Head(conn[c].in).attach /\ st = "ok")]

LEMMA ServeFacts ==
    ASSUME Constants, ClientInv, NEW c, Serve(c)
    PROVE  /\ UNCHANGED <<up, started, open, broker_fd, broker_attached, lock, pc, call,
                          calls, crossed>>
           /\ c \in 1..Len(conn) /\ conn[c].broker = up /\ conn[c].in # <<>>
           /\ Head(conn[c].in) \in Request
           /\ \E st \in {"ok", "refused"} : Changes(c, Served(c, st))
           /\ SameLinks
<1>1. /\ UNCHANGED <<up, started, open, broker_fd, broker_attached, lock, pc, call,
                     calls, crossed>>
      /\ c \in DOMAIN conn /\ conn[c].broker = up /\ conn[c].in # <<>>
  BY DEF Serve, procVars, Live
<1>2. conn \in Seq(Links) /\ c \in 1..Len(conn) /\ conn[c] \in Links
  <2>1. conn \in Seq(Links)
    BY DEF ClientInv, ClientTypes
  <2> QED
    BY SMTT(20), <1>1, <2>1
<1>3. Head(conn[c].in) \in Request /\ Tail(conn[c].in) \in Seq(Request)
  <2>1. conn[c].in \in Seq(Request)
    BY <1>2 DEF Links
  <2> QED
    BY SMTT(20), <1>1, <2>1
<1>4. PICK st \in {"ok", "refused"} :
         LET r == Head(conn[c].in)
         IN  conn' = [conn EXCEPT ![c].in = Tail(@),
                  ![c].out = Append(@, [by |-> r.by, n |-> r.n, status |-> st]),
                  ![c].attached = @ \/ (r.attach /\ st = "ok")]
  BY DEF Serve
<1>5. conn' = [conn EXCEPT ![c] = Served(c, st)]
  BY <1>2, <1>4 DEF Served
<1>6. Served(c, st) \in Links /\ Served(c, st).users = conn[c].users
      /\ Served(c, st).broker = conn[c].broker
  <2>1. [by |-> Head(conn[c].in).by, n |-> Head(conn[c].in).n, status |-> st] \in Answers
    BY <1>3 DEF Request, Answers
  <2> DEFINE a == [by |-> Head(conn[c].in).by, n |-> Head(conn[c].in).n, status |-> st]
  <2> HIDE DEF a
  <2>2. Append(conn[c].out, a) \in Seq(Answers)
    BY SMTT(20), <1>2, <2>1 DEF Links, a
  <2>3. (conn[c].attached \/ (Head(conn[c].in).attach /\ st = "ok")) \in BOOLEAN
    OBVIOUS
  <2>4. Served(c, st) = [conn[c] EXCEPT !.in = Tail(@), !.out = Append(@, a),
                           !.attached = @ \/ (Head(conn[c].in).attach /\ st = "ok")]
    BY DEF Served, a
  <2> QED
    BY <1>2, <1>3, <2>2, <2>3, <2>4 DEF Links
<1>7. Changes(c, Served(c, st))
  BY <1>2, <1>5, <1>6 DEF Changes
<1>8. SameLinks
  BY <1>6, <1>7, ChangedAlike
<1> QED
  BY <1>1, <1>2, <1>3, <1>7, <1>8

LEMMA ServeKeeps ==
    ASSUME Constants, ClientInv, NEW c, Serve(c) PROVE ClientInv'
<1> USE OfThread, ChildBusy
<1>1. /\ UNCHANGED <<up, started, open, broker_fd, broker_attached, lock, pc, call, calls>>
      /\ SameLinks /\ SameUsers
  BY ServeFacts DEF SameLinks
<1>2. /\ Len(conn') = Len(conn) /\ DOMAIN conn' = DOMAIN conn /\ DOMAIN conn = 1..Len(conn)
      /\ \A d \in 1..Len(conn) : conn'[d].users = conn[d].users
  <2>1. conn \in Seq(Links)
    BY DEF ClientInv, ClientTypes
  <2> QED
    BY SMTT(20), <1>1, <2>1, LinksTyped DEF SameUsers
<1>3. \A p \in Process, f \in Fd : open[p][f] # 0 => open[p][f] \in 1..Len(conn)
  <2>1. conn \in Seq(Links) /\ open \in [Process -> [Fd -> 0..LastConn]]
        /\ \A p \in Process, f \in Fd : open[p][f] <= Len(conn)
    BY DEF ClientInv, ClientTypes
  <2> QED
    BY SMTT(20), <2>1 DEF Constants
<1>4. ClientTypes'
  BY <1>1, <1>2, LinksTyped DEF ClientInv, ClientTypes
<1>5. Placed' /\ Guarded' /\ Paused'
  BY <1>1 DEF ClientInv, Placed, Guarded, Paused, Inside, Locks
<1>6. Waiters'
  BY <1>1, <1>2 DEF ClientInv, Waiters
<1>7. OwnLinks'
  BY <1>1, <1>2, <1>3 DEF ClientInv, OwnLinks
<1>8. ChildApart'
  <2>1. broker_fd["child"] # 0 => broker_fd["child"] \in Fd
    BY SMTT(20) DEF ClientInv, ClientTypes, Fd, Constants
  <2> QED
    BY <1>1, <1>2, <1>3, <2>1 DEF ClientInv, ChildApart, Apart
<1>9. NotShared'
  BY <1>2 DEF ClientInv, NotShared
<1> QED
  BY <1>4, <1>5, <1>6, <1>7, <1>8, <1>9 DEF ClientInv

LEMMA BrokerDiesKeeps ==
    ASSUME Constants, ClientInv, up' \in {0, up},
           UNCHANGED <<started, conn, open, broker_fd, broker_attached, lock, pc, call,
                       calls>>
    PROVE  ClientInv'
<1>1. ClientTypes'
  BY DEF ClientInv, ClientTypes
<1>2. Placed' /\ Guarded' /\ Waiters' /\ Paused'
  BY DEF ClientInv, Placed, Guarded, Waiters, Paused, Inside, Locks
<1>3. OwnLinks' /\ ChildApart' /\ NotShared'
  BY DEF ClientInv, OwnLinks, ChildApart, Apart, NotShared
<1> QED
  BY <1>1, <1>2, <1>3 DEF ClientInv

LEMMA ClientStepKeeps ==
    ASSUME Constants, ClientInv, [Next]_(vars) PROVE ClientInv'
<1>1. CASE \E t \in Threads : (\E op \in Op : Call(t, op)) \/ StartThread(t)
  BY <1>1, CallKeeps, StartThreadKeeps
<1>2. ASSUME NEW t \in Threads, Step(t) PROVE ClientInv'
  <2>1. CASE Connect(t)
    BY <2>1, OpensKeeps, ConnectFailsKeeps
  <2>2. CASE Send(t)
    <3>1. CASE Live(open[Of(t)][call[t].fd])
      BY <2>2, <3>1, SendFacts, LiveSendKeeps
    <3>2. CASE After(t, "broken") /\ UNCHANGED <<conn, broker_fd>>
      BY <2>2, <3>2, BrokenSendKeeps
    <3> QED
      BY <2>2, <3>1, <3>2 DEF Send
  <2> QED
    BY <1>2, <2>1, <2>2, GetConnectionKeeps, EnsureKeeps, ExchangeKeeps, ReadHeaderKeeps,
       ReadPayloadKeeps, DropKeeps, ForgetKeeps DEF Step
<1>3. CASE Fork \/ ResetAfterFork \/ ChildExits
  BY <1>3, ForkKeeps, ResetAfterForkKeeps, ChildExitsKeeps
<1>4. CASE \E c \in ConnId : Serve(c)
  BY <1>4, ServeKeeps
<1>5. CASE BrokerDies
  <2>1. /\ up' \in {0, up}
        /\ UNCHANGED <<started, conn, open, broker_fd, broker_attached, lock, pc, call,
                        calls>>
    BY <1>5 DEF BrokerDies, procVars
  <2> QED
    BY <2>1, BrokerDiesKeeps
<1>6. CASE UNCHANGED vars
  <2>1. /\ up' \in {0, up}
        /\ UNCHANGED <<started, conn, open, broker_fd, broker_attached, lock, pc, call,
                        calls>>
    BY <1>6 DEF vars
  <2> QED
    BY <2>1, BrokerDiesKeeps
<1> QED
  BY <1>1, <1>2, <1>3, <1>4, <1>5, <1>6 DEF Next

\* A forked command never speaks on a connection of its shell, nor the shell on
\* one of the command's, whatever descriptors the command inherits: after
\* native_broker_reset_after_fork() it opens its own (NotShared).
THEOREM ConnectionsAreNotShared == Constants => (Spec => []NotShared)
<1> SUFFICES ASSUME Constants PROVE Spec => []NotShared
  OBVIOUS
<1>1. ClientInv => NotShared
  BY DEF ClientInv
<1> QED
  BY <1>1, ClientInit, ClientStepKeeps, PTL DEF Spec
-----------------------------------------------------------------------------
\* A request, or the answer to it, is alone on its connection, and who asked
\* waits for it there; only a request that its broker has left behind may be
\* waited for by nobody.
Awaits(c, m) == pc[m.by] = "wait" /\ call[m.by].held = c /\ calls[m.by] = m.n
PendingOn(c) ==
    /\ conn[c].in # <<>> => /\ Len(conn[c].in) = 1 /\ conn[c].out = <<>>
                            /\ Awaits(c, Head(conn[c].in)) \/ conn[c].broker # up
    /\ conn[c].out # <<>> => Len(conn[c].out) = 1 /\ Awaits(c, Head(conn[c].out))
Pending == \A c \in DOMAIN conn : PendingOn(c)

\* The requests that take no lock, those of a --root session, are left to one
\* thread.
Alone == ~ Root \/ Thread = {Main}

LEMMA OneInside ==
    ASSUME Constants, Alone, ClientInv, NEW s \in Threads, NEW t \in Threads,
           Inside(s), Inside(t), Of(s) = Of(t)
    PROVE  s = t
<1>1. CASE ~ Root
  <2>1. Locks(s) /\ Locks(t)
    BY <1>1 DEF Locks, ClientInv, ClientTypes, Calls, Op
  <2> QED
    BY <2>1 DEF ClientInv, Guarded
<1>2. CASE Thread = {Main}
  BY SMTT(20), <1>2, OfThread DEF Threads
<1> QED
  BY <1>1, <1>2 DEF Alone

LEMMA OneWaiter ==
    ASSUME Constants, Alone, ClientInv, NEW s \in Threads, NEW t \in Threads,
           pc[s] = "wait", pc[t] = "wait", call[s].held = call[t].held
    PROVE  s = t
<1>1. Of(s) = Of(t)
  BY DEF ClientInv, Waiters, NotShared
<1> QED
  BY <1>1, OneInside DEF Inside

\* What is on a connection is typed.
LEMMA OnTheWire ==
    ASSUME Constants, ClientInv, NEW c \in DOMAIN conn
    PROVE  /\ conn[c] \in Links /\ conn[c].in \in Seq(Request)
           /\ conn[c].out \in Seq(Answers)
           /\ conn[c].in # <<>> => Head(conn[c].in).by \in Threads
           /\ conn[c].out # <<>> => Head(conn[c].out).by \in Threads
           /\ conn[c].broker \in 1..started
<1>1. conn[c] \in Links
  BY SMTT(20) DEF ClientInv, ClientTypes
<1>2. conn[c].in \in Seq(Request) /\ conn[c].out \in Seq(Answers)
  BY <1>1 DEF Links
<1>3. conn[c].in # <<>> => Head(conn[c].in) \in Request
  BY SMTT(20), <1>2
<1>4. conn[c].out # <<>> => Head(conn[c].out) \in Answers
  BY SMTT(20), <1>2
<1>5. conn[c].broker \in 1..started
  BY SMTT(20), <1>1 DEF Links, ClientInv, ClientTypes, Constants
<1> QED
  BY <1>1, <1>2, <1>3, <1>4, <1>5 DEF Request, Answers

StillWaiting(s) == pc'[s] = "wait" /\ call'[s] = call[s] /\ calls'[s] = calls[s]

\* A broker that has gone does not come back.
LEMMA GoneIsGone ==
    ASSUME Constants, ClientInv, NEW c \in DOMAIN conn, conn[c].broker # up,
           up' \in {0, up} \/ (up = 0 /\ up' = started + 1)
    PROVE  conn[c].broker # up'
<1>1. conn[c].broker \in 1..started /\ started \in Nat
  BY SMTT(20), OnTheWire DEF ClientInv, ClientTypes, Constants
<1> QED
  BY SMTT(20), <1>1

LEMMA WaitersStay ==
    ASSUME Constants, ClientInv, Pending, conn' = conn,
           up' \in {0, up} \/ (up = 0 /\ up' = started + 1),
           \A s \in Threads : pc[s] = "wait" => StillWaiting(s)
    PROVE  Pending'
<1> SUFFICES ASSUME NEW c \in DOMAIN conn PROVE PendingOn(c)'
  BY DEF Pending
<1>1. conn[c].in # <<>> /\ Awaits(c, Head(conn[c].in)) => Awaits(c, Head(conn[c].in))'
  BY OnTheWire DEF Awaits, StillWaiting
<1>2. conn[c].out # <<>> /\ Awaits(c, Head(conn[c].out)) => Awaits(c, Head(conn[c].out))'
  BY OnTheWire DEF Awaits, StillWaiting
<1>3. conn[c].broker # up => conn[c].broker # up'
  BY GoneIsGone
<1> QED
  BY <1>1, <1>2, <1>3 DEF Pending, PendingOn

\* The steps that are neither a request, an answer nor a new connection.
LEMMA OthersStay ==
    ASSUME Constants, ClientInv, NEW t \in Threads,
           \/ \E op \in Op : Call(t, op)
           \/ StartThread(t) \/ GetConnection(t) \/ (Connect(t) /\ ~ Opens(t))
           \/ Ensure(t) \/ Exchange(t) \/ Drop(t) \/ Forget(t)
    PROVE  /\ conn' = conn /\ crossed' = crossed
           /\ up' \in {0, up} \/ (up = 0 /\ up' = started + 1)
           /\ \A s \in Threads : pc[s] = "wait" => StillWaiting(s)
<1>0. /\ pc \in [Threads -> Places] /\ call \in [Threads -> Calls]
      /\ calls \in [Threads -> 0..MaxCalls]
  BY DEF ClientInv, ClientTypes
<1>1. CASE \E op \in Op : Call(t, op)
  BY <1>0, <1>1 DEF Call, Idle, Goto, hist, StillWaiting
<1>2. CASE StartThread(t)
  BY <1>0, <1>2 DEF StartThread, Goto, hist, StillWaiting
<1>3. CASE GetConnection(t)
  BY <1>0, <1>3 DEF GetConnection, Goto, Return, hist, StillWaiting
<1>4. CASE Connect(t) /\ ~ Opens(t)
  BY <1>0, <1>4 DEF Connect, Goto, Return, hist, StillWaiting
<1>5. CASE Ensure(t)
  BY <1>0, <1>5 DEF Ensure, Goto, Return, hist, StillWaiting
<1>6. CASE Exchange(t)
  BY <1>0, <1>6 DEF Exchange, Goto, hist, StillWaiting
<1>7. CASE Drop(t)
  BY <1>0, <1>7 DEF Drop, Goto, hist, StillWaiting
<1>8. CASE Forget(t)
  BY <1>0, <1>8 DEF Forget, Goto, Return, hist, StillWaiting
<1> QED
  BY <1>1, <1>2, <1>3, <1>4, <1>5, <1>6, <1>7, <1>8

LEMMA ForksStay ==
    ASSUME Constants, ClientInv, Fork \/ ResetAfterFork \/ ChildExits
    PROVE  /\ conn' = conn /\ crossed' = crossed /\ up' \in {0, up}
           /\ \A s \in Threads : pc[s] = "wait" => StillWaiting(s)
<1> USE OfThread
<1>0. /\ pc \in [Threads -> Places] /\ call \in [Threads -> Calls]
      /\ calls \in [Threads -> 0..MaxCalls]
  BY DEF ClientInv, ClientTypes
<1>1. CASE Fork
  BY <1>0, <1>1 DEF Fork, Idle, hist, StillWaiting
<1>2. CASE ResetAfterFork
  BY <1>0, <1>2 DEF ResetAfterFork, Goto, hist, StillWaiting
<1>3. CASE ChildExits
  <2>1. pc[Child] = "idle"
    BY <1>3 DEF ChildExits, Idle
  <2>2. pc[Main] = "waitpid"
    BY <2>1 DEF ClientInv, Paused
  <2> QED
    BY <1>0, <1>3, <2>1, <2>2 DEF ChildExits, hist, StillWaiting
<1> QED
  BY <1>1, <1>2, <1>3

\* A step on one connection: what is pending on the others stays so.
LEMMA OneChanges ==
    ASSUME Constants, ClientInv, Pending, NEW c, NEW h, Changes(c, h), up' = up,
           \A s \in Threads : pc[s] = "wait" /\ call[s].held # c => StillWaiting(s),
           PendingOn(c)'
    PROVE  Pending'
<1>0. /\ DOMAIN conn = 1..Len(conn) /\ DOMAIN conn' = 1..Len(conn)
      /\ \A d \in 1..Len(conn) : d # c => conn'[d] = conn[d]
  BY ChangedLinks
<1> SUFFICES ASSUME NEW d \in 1..Len(conn), d # c PROVE PendingOn(d)'
  BY <1>0 DEF Pending
<1>1. conn'[d] = conn[d] /\ PendingOn(d) /\ d \in DOMAIN conn
  BY <1>0 DEF Pending
<1>2. conn[d].in # <<>> /\ Awaits(d, Head(conn[d].in)) => Awaits(d, Head(conn[d].in))'
  BY <1>1, OnTheWire DEF Awaits, StillWaiting
<1>3. conn[d].out # <<>> /\ Awaits(d, Head(conn[d].out)) => Awaits(d, Head(conn[d].out))'
  BY <1>1, OnTheWire DEF Awaits, StillWaiting
<1> QED
  BY <1>1, <1>2, <1>3 DEF PendingOn

LEMMA AfterStays ==
    ASSUME Constants, ClientInv, NEW t \in Threads, NEW o, After(t, o), Inside(t),
           calls' = calls
    PROVE  \A s \in Threads : s # t /\ pc[s] = "wait" => StillWaiting(s)
<1>1. PICK w, r : Finished(t, w, r)
  BY AfterFacts
<1>2. pc \in [Threads -> Places] /\ call \in [Threads -> Calls]
  BY DEF ClientInv, ClientTypes
<1> QED
  BY <1>1, <1>2 DEF Finished, StillWaiting

LEMMA ReadPayloadPends ==
    ASSUME Constants, ClientInv, Pending, NEW t \in Threads, ReadPayload(t)
    PROVE  Pending' /\ crossed' = crossed
<1>1. UNCHANGED <<up, conn, calls, crossed>> /\ Inside(t) /\ pc[t] # "wait"
  BY DEF ReadPayload, hist, Inside
<1>2. \E o : After(t, o)
  BY DEF ReadPayload
<1>3. \A s \in Threads : pc[s] = "wait" => StillWaiting(s)
  BY <1>1, <1>2, AfterStays
<1> QED
  BY <1>1, <1>3, WaitersStay

LEMMA BrokenSendPends ==
    ASSUME Constants, ClientInv, Pending, NEW t \in Threads, Send(t),
           UNCHANGED conn, After(t, "broken")
    PROVE  Pending' /\ crossed' = crossed
<1>1. UNCHANGED <<up, conn, calls, crossed>> /\ Inside(t) /\ pc[t] # "wait"
  BY DEF Send, hist, Inside
<1>2. \A s \in Threads : pc[s] = "wait" => StillWaiting(s)
  BY <1>1, AfterStays
<1> QED
  BY <1>1, <1>2, WaitersStay

\* The answer a thread finds on the connection it waits on is its own.
LEMMA ReadHeaderPends ==
    ASSUME Constants, Alone, ClientInv, Pending, NEW t \in Threads, ReadHeader(t),
           ~ crossed
    PROVE  Pending' /\ ~ crossed'
<1> PICK c : c = call[t].held
  OBVIOUS
<1>0. UNCHANGED <<up, calls>> /\ pc[t] = "wait" /\ Inside(t)
  BY DEF ReadHeader, Inside
<1>1. c \in 1..Len(conn) /\ c \in DOMAIN conn /\ conn \in Seq(Links) /\ c # 0
  <2>1. conn \in Seq(Links) /\ c \in DOMAIN conn
    BY <1>0 DEF ClientInv, ClientTypes, Waiters
  <2> QED
    BY SMTT(20), <2>1
<1>2. PendingOn(c) /\ conn[c] \in Links /\ conn[c].out \in Seq(Answers)
  BY <1>1, OnTheWire DEF Pending
<1>3. \A s \in Threads : s # t /\ pc[s] = "wait" => StillWaiting(s)
  <2>1. CASE /\ Goto(t, "payload")
             /\ call' = [call EXCEPT ![t].status = Head(conn[c].out).status]
    BY <1>0, <2>1 DEF Goto, ClientInv, ClientTypes, StillWaiting
  <2>2. CASE \E o : After(t, o)
    BY <1>0, <2>2, AfterStays
  <2> QED
    BY <2>1, <2>2 DEF ReadHeader
<1>4. CASE /\ conn[c].out # <<>> /\ conn' = [conn EXCEPT ![c].out = Tail(@)]
           /\ crossed' = (crossed \/ Head(conn[c].out).by # t
                                  \/ Head(conn[c].out).n # calls[t])
  <2> DEFINE h == [conn[c] EXCEPT !.out = Tail(@)]
  <2>1. Changes(c, h)
    BY <1>1, <1>4, HeaderTaken
  <2>2. Awaits(c, Head(conn[c].out)) /\ Len(conn[c].out) = 1 /\ conn[c].in = <<>>
    BY <1>2, <1>4 DEF PendingOn
  <2>3. Head(conn[c].out).by = t /\ Head(conn[c].out).n = calls[t]
    <3>1. Head(conn[c].out).by \in Threads
      BY <1>1, <1>4, OnTheWire
    <3> QED
      BY <1>0, <2>2, <3>1, OneWaiter DEF Awaits
  <2>4. Tail(conn[c].out) = <<>>
    BY <1>2, <2>2, TailOfOne
  <2>5. h.in = <<>> /\ h.out = <<>>
    BY <1>2, <2>2, <2>4 DEF Links
  <2>6. conn'[c] = h
    BY <2>1, ChangedLinks
  <2> HIDE DEF h
  <2>7. PendingOn(c)'
    BY <2>5, <2>6 DEF PendingOn
  <2> QED
    BY <1>0, <1>3, <1>4, <2>1, <2>3, <2>7, OneChanges
<1>5. CASE /\ conn[c].out = <<>> /\ ~ Live(c) /\ UNCHANGED <<conn, crossed>>
  <2>1. conn[c].broker # up
    BY <1>1, <1>5 DEF Live
  <2>2. Changes(c, conn[c])
    BY SMTT(20), <1>1, <1>2, <1>5 DEF Changes
  <2>3. PendingOn(c)'
    BY <1>0, <1>2, <1>5, <2>1 DEF PendingOn
  <2> QED
    BY <1>0, <1>3, <1>5, <2>2, <2>3, OneChanges
<1> QED
  BY <1>4, <1>5 DEF ReadHeader

\* A request goes out on a connection that carries nothing.
LEMMA LiveSendPends ==
    ASSUME Constants, Alone, ClientInv, Pending, NEW t \in Threads,
           NEW c, NEW q, NEW h, NEW r, Sent(t, c, q, h, r)
    PROVE  Pending' /\ crossed' = crossed
<1>0. /\ UNCHANGED <<up, calls, crossed>> /\ conn[c].broker = up
      /\ pc[t] = "send" /\ pc' = [pc EXCEPT ![t] = "wait"]
      /\ call' = [call EXCEPT ![t] = r] /\ r.held = c /\ Changes(c, h)
      /\ q.by = t /\ q.n = calls[t] /\ q \in Request
      /\ h.in = Append(conn[c].in, q) /\ h.out = conn[c].out
  BY DEF Sent
<1>1. /\ pc \in [Threads -> Places] /\ call \in [Threads -> Calls]
      /\ calls \in [Threads -> 0..MaxCalls]
  BY DEF ClientInv, ClientTypes
<1>2. c \in DOMAIN conn /\ conn[c].users \subseteq {Of(t)}
  <2>1. /\ c \in 1..Len(conn) /\ c = open[Of(t)][call[t].fd]
        /\ conn[c].broker = up /\ pc[t] = "send"
    BY DEF Sent, Changes
  <2>2. Live(c)
    BY SMTT(20), <2>1 DEF Live
  <2> QED
    BY <2>1, <2>2, SendsOnOwn
<1>4. conn[c].in = <<>> /\ conn[c].out = <<>>
  <2>1. ASSUME NEW s \in Threads, pc[s] = "wait", call[s].held = c PROVE FALSE
    <3>1. Of(s) = Of(t)
      BY <1>2, <2>1 DEF ClientInv, Waiters
    <3>2. Inside(s) /\ Inside(t) /\ s # t
      BY <1>0, <2>1 DEF Inside
    <3> QED
      BY <3>1, <3>2, OneInside
  <2>2. conn[c].broker = up /\ PendingOn(c)
    BY <1>0, <1>2 DEF Pending
  <2>3. conn[c].in = <<>>
    BY <1>2, <2>1, <2>2, OnTheWire DEF PendingOn, Awaits
  <2>4. conn[c].out = <<>>
    BY <1>2, <2>1, <2>2, OnTheWire DEF PendingOn, Awaits
  <2> QED
    BY <2>3, <2>4
<1>7. Len(h.in) = 1 /\ Head(h.in) = q /\ h.out = <<>>
  BY SMTT(20), <1>0, <1>4
<1>9. conn'[c] = h
  BY <1>0, ChangedLinks
<1>10. Awaits(c, q)'
  BY <1>0, <1>1 DEF Awaits
<1>11. PendingOn(c)'
  BY <1>7, <1>9, <1>10 DEF PendingOn
<1>12. \A s \in Threads : pc[s] = "wait" => StillWaiting(s)
  BY <1>0, <1>1 DEF StillWaiting
<1> QED
  BY <1>0, <1>11, <1>12, OneChanges

LEMMA ServePends ==
    ASSUME Constants, ClientInv, Pending, NEW c, Serve(c)
    PROVE  Pending' /\ crossed' = crossed
<1>1. /\ UNCHANGED <<up, pc, call, calls, crossed>>
      /\ c \in 1..Len(conn) /\ conn[c].broker = up /\ conn[c].in # <<>>
      /\ Head(conn[c].in) \in Request
  BY ServeFacts
<1>2. PICK st \in {"ok", "refused"} : Changes(c, Served(c, st))
  BY ServeFacts
<1>3. c \in DOMAIN conn /\ conn'[c] = Served(c, st)
  BY <1>1, <1>2, ChangedLinks
<1>4. conn[c] \in Links /\ conn[c].in \in Seq(Request)
  BY <1>3, OnTheWire
<1>5. /\ Len(conn[c].in) = 1 /\ conn[c].out = <<>> /\ Awaits(c, Head(conn[c].in))
  BY <1>1, <1>3 DEF Pending, PendingOn
<1> PICK a : a = [by |-> Head(conn[c].in).by, n |-> Head(conn[c].in).n, status |-> st]
  OBVIOUS
<1>6. Served(c, st).in = Tail(conn[c].in) /\ Served(c, st).out = Append(conn[c].out, a)
  BY <1>4 DEF Served, Links
<1>7. a.by = Head(conn[c].in).by /\ a.n = Head(conn[c].in).n
  OBVIOUS
<1>8. Tail(conn[c].in) = <<>>
  BY <1>4, <1>5, TailOfOne
<1>9. Len(conn'[c].out) = 1 /\ Head(conn'[c].out) = a /\ conn'[c].in = <<>>
  BY SMTT(20), <1>3, <1>5, <1>6, <1>8
<1>10. Awaits(c, a)'
  BY <1>1, <1>5, <1>7 DEF Awaits
<1>11. PendingOn(c)'
  BY <1>9, <1>10 DEF PendingOn
<1>12. \A s \in Threads : pc[s] = "wait" => StillWaiting(s)
  BY <1>1 DEF StillWaiting
<1> QED
  BY <1>1, <1>2, <1>11, <1>12, OneChanges

LEMMA OpensPends ==
    ASSUME Constants, ClientInv, Pending, NEW t \in Threads, Connect(t), Opens(t)
    PROVE  Pending' /\ crossed' = crossed
<1>0. /\ UNCHANGED <<up, calls, crossed>> /\ pc' = [pc EXCEPT ![t] = "exchange"]
      /\ pc[t] \in {"connect", "connectOwn"} /\ conn' = Append(conn, Fresh)
      /\ \E fd \in Fd : call' = [call EXCEPT ![t].fd = fd,
             ![t].attaching = call[t].op # "own" /\ broker_attached[Of(t)]]
  BY DEF Connect, Opens, Goto, hist
<1>1. /\ pc \in [Threads -> Places] /\ call \in [Threads -> Calls]
      /\ conn \in Seq(Links)
  BY DEF ClientInv, ClientTypes
<1>2. \A s \in Threads : pc[s] = "wait" => StillWaiting(s)
  BY <1>0, <1>1 DEF StillWaiting
<1>3. Fresh.in = <<>> /\ Fresh.out = <<>>
  BY DEF Fresh
<1>4. /\ DOMAIN conn' = 1..(Len(conn) + 1) /\ conn'[Len(conn) + 1] = Fresh
      /\ \A d \in 1..Len(conn) : conn'[d] = conn[d] /\ d \in DOMAIN conn
      /\ \A d \in 1..(Len(conn) + 1) : d = Len(conn) + 1 \/ d \in 1..Len(conn)
  BY SMTT(20), <1>0, <1>1
<1>5. ASSUME NEW d \in 1..Len(conn) PROVE PendingOn(d)'
  <2>1. conn'[d] = conn[d] /\ PendingOn(d) /\ d \in DOMAIN conn
    BY <1>4 DEF Pending
  <2>2. conn[d].in # <<>> /\ Awaits(d, Head(conn[d].in)) => Awaits(d, Head(conn[d].in))'
    BY <1>2, <2>1, OnTheWire DEF Awaits, StillWaiting
  <2>3. conn[d].out # <<>> /\ Awaits(d, Head(conn[d].out)) => Awaits(d, Head(conn[d].out))'
    BY <1>2, <2>1, OnTheWire DEF Awaits, StillWaiting
  <2> QED
    BY <1>0, <2>1, <2>2, <2>3 DEF PendingOn
<1>6. ASSUME NEW d, d = Len(conn) + 1 PROVE PendingOn(d)'
  <2>1. conn'[d].in = <<>> /\ conn'[d].out = <<>>
    BY <1>3, <1>4, <1>6
  <2> QED
    BY <2>1 DEF PendingOn
<1> QED
  BY <1>0, <1>4, <1>5, <1>6 DEF Pending

LEMMA PendingStep ==
    ASSUME Constants, Alone, ClientInv, Pending, ~ crossed, [Next]_(vars)
    PROVE  Pending' /\ ~ crossed'
<1>1. CASE \E t \in Threads : (\E op \in Op : Call(t, op)) \/ StartThread(t)
  BY <1>1, OthersStay, WaitersStay
<1>2. ASSUME NEW t \in Threads, Step(t) PROVE Pending' /\ ~ crossed'
  <2>1. CASE Connect(t)
    <3>1. CASE Opens(t)
      BY <2>1, <3>1, OpensPends
    <3>2. CASE ~ Opens(t)
      BY <2>1, <3>2, OthersStay, WaitersStay
    <3> QED
      BY <3>1, <3>2
  <2>2. CASE Send(t)
    <3>1. CASE Live(open[Of(t)][call[t].fd])
      BY <2>2, <3>1, SendFacts, LiveSendPends
    <3>2. CASE After(t, "broken") /\ UNCHANGED <<conn, broker_fd>>
      BY <2>2, <3>2, BrokenSendPends
    <3> QED
      BY <2>2, <3>1, <3>2 DEF Send
  <2>3. CASE ReadHeader(t)
    BY <2>3, ReadHeaderPends
  <2>4. CASE ReadPayload(t)
    BY <2>4, ReadPayloadPends
  <2>5. CASE GetConnection(t) \/ Ensure(t) \/ Exchange(t) \/ Drop(t) \/ Forget(t)
    BY <2>5, OthersStay, WaitersStay
  <2> QED
    BY <1>2, <2>1, <2>2, <2>3, <2>4, <2>5 DEF Step
<1>3. CASE Fork \/ ResetAfterFork \/ ChildExits
  BY SMTT(20), <1>3, ForksStay, WaitersStay
<1>4. CASE \E c \in ConnId : Serve(c)
  BY <1>4, ServePends
<1>5. CASE BrokerDies \/ UNCHANGED vars
  <2>1. up' \in {0, up} /\ UNCHANGED <<conn, pc, call, calls, crossed>>
    BY <1>5 DEF BrokerDies, vars, hist
  <2> QED
    BY <2>1, WaitersStay DEF StillWaiting
<1> QED
  BY <1>1, <1>2, <1>3, <1>4, <1>5 DEF Next

\* The answer a thread accepts is the answer to its own request, although all
\* threads of a process share one connection, any of them may close it under the
\* others and open it anew, and brokers come and go (OwnAnswer): broker_lock
\* makes a request and its answer one unit.  privop_exchange() does without the
\* lock, so a --root session has this only while one thread makes requests.
THEOREM AnswersAreOwn == Constants /\ Alone => (Spec => []OwnAnswer)
<1> SUFFICES ASSUME Constants, Alone PROVE Spec => []OwnAnswer
  OBVIOUS
<1> DEFINE Inv == ClientInv /\ Pending /\ ~ crossed
<1>1. Init => Inv
  <2>1. Init => conn = <<>>
    BY DEF Init
  <2>2. conn = <<>> => Pending
    BY SMTT(20) DEF Pending
  <2> QED
    BY <2>1, <2>2, ClientInit
<1>2. Inv /\ [Next]_(vars) => Inv'
  BY ClientStepKeeps, PendingStep
<1>3. Inv => OwnAnswer
  BY DEF OwnAnswer
<1> QED
  BY <1>1, <1>2, <1>3, PTL DEF Spec
=============================================================================
