------------------------ MODULE BrokerLifetimeProofs ------------------------
(***************************************************************************)
(* Proofs about BrokerLifetime, for any sets of clients and brokers, about *)
(* SayVoices, for any voices and periods, and about ConsoleDevice, for any *)
(* requests.                                                               *)
(*                                                                         *)
(* NoStrandedBroker is not inductive: it says nothing of a broker between  *)
(* taking the lock and listening, or between closing its socket and        *)
(* exiting, and it is there that unlink() is called.  The strengthening is *)
(* that the lock is held through all of those stages.                      *)
(***************************************************************************)
EXTENDS BrokerLifetime, Sequences, FiniteSetTheorems, TLAPS

Holding == {"locked", "polling", "woken", "idle", "stopping", "deaf", "unlinked"}

Stages == Holding \cup {"unborn", "started", "gone"}

\* The part of TypeOK the argument needs.
Shape ==
    /\ stage \in [Broker -> Stages]
    /\ conns \in [Broker -> SUBSET Connection]
    /\ child \in [Client -> Broker \cup {None}]
    /\ DOMAIN client = Client
    /\ \A c \in Client : client[c] = "waiting" => child[c] \in Broker

\* From taking the lock to exiting, a broker has it.
LockHeld == \A b \in Broker : stage[b] \in Holding => lock = b

\* From listening to closing its socket, a broker is the one at the path.
PathHeld ==
    \A b \in Broker :
        stage[b] \in {"polling", "woken", "idle", "stopping"} => path = b

LifetimeInv == Shape /\ LockHeld /\ PathHeld /\ IdleMeansNobody

USE LifetimeConstants DEF Holding, Stages

\* Dying keeps the invariant: no other broker has the lock that is given up.
LEMMA DyingKeeps ==
    ASSUME NEW b \in Broker, LifetimeInv, Dies(b),
           path' = path \/ (stage[b] = "locked" /\ path' = None),
           child' = child, DOMAIN client' = Client,
           \A c \in Client : client'[c] = "waiting" => client[c] = "waiting"
    PROVE  LifetimeInv'
<1>1. Shape'
  BY SMT DEF LifetimeInv, Shape, Dies, Connection
<1>2. LockHeld'
  BY DEF LifetimeInv, Shape, LockHeld, Dies
<1>3. PathHeld'
  BY DEF LifetimeInv, Shape, LockHeld, PathHeld, Dies
<1>4. IdleMeansNobody'
  BY DEF LifetimeInv, Shape, IdleMeansNobody, Dies
<1> QED BY <1>1, <1>2, <1>3, <1>4 DEF LifetimeInv

\* SIGTERM keeps it, wherever the broker is.
LEMMA TerminatingKeeps ==
    ASSUME NEW b \in Broker, LifetimeInv, Terminates(b),
           child' = child, DOMAIN client' = Client,
           \A c \in Client : client'[c] = "waiting" => client[c] = "waiting"
    PROVE  LifetimeInv'
<1>1. CASE stage[b] \in {"started", "locked"}
  <2>1. Dies(b) /\ (path' = path \/ (stage[b] = "locked" /\ path' = None))
    BY <1>1 DEF Terminates
  <2> QED BY <2>1, DyingKeeps
<1>2. CASE stage[b] \in {"polling", "woken", "idle"}
  <2>1. /\ stage' = [stage EXCEPT ![b] = "stopping"]
        /\ UNCHANGED <<lock, path, backlog, conns, woken>>
    BY <1>2 DEF Terminates
  <2>2. Shape'
    BY <2>1 DEF LifetimeInv, Shape
  <2>3. LockHeld' /\ PathHeld'
    BY <1>2, <2>1 DEF LifetimeInv, Shape, LockHeld, PathHeld
  <2>4. IdleMeansNobody'
    BY <2>1 DEF LifetimeInv, Shape, IdleMeansNobody
  <2> QED BY <2>2, <2>3, <2>4 DEF LifetimeInv
<1>3. CASE stage[b] \notin {"started", "locked", "polling", "woken", "idle"}
  BY <1>3 DEF Terminates, LifetimeInv, Shape, LockHeld, PathHeld, IdleMeansNobody
<1> QED BY <1>1, <1>2, <1>3

\* What a client does leaves the brokers alone, but for starting one, telling
\* one to go, and closing its own end of connections.
LEMMA ClientKeeps ==
    ASSUME NEW c \in Client, LifetimeInv, ClientStep(c)
    PROVE  LifetimeInv'
<1> USE DEF Move
<1>0. DOMAIN client = Client
  BY DEF LifetimeInv, Shape
<1>1. CASE /\ UNCHANGED <<stage, lock, path, conns, child>>
           /\ DOMAIN client' = Client
           /\ \A k \in Client : client'[k] = "waiting" => client[k] = "waiting"
  BY <1>1 DEF LifetimeInv, Shape, LockHeld, PathHeld, IdleMeansNobody
<1>2. CASE StartBroker(c)
  <2>1. PICK b \in Broker :
          /\ stage[b] = "unborn"
          /\ stage' = [stage EXCEPT ![b] = "started"]
          /\ child' = [child EXCEPT ![c] = b]
    BY ZenonT(20), SMTT(20), <1>2 DEF StartBroker
  <2>2. Shape'
    BY <1>2, <2>1 DEF LifetimeInv, Shape, StartBroker
  <2>3. LockHeld' /\ PathHeld' /\ IdleMeansNobody'
    BY <1>2, <2>1 DEF LifetimeInv, Shape, LockHeld, PathHeld, IdleMeansNobody, StartBroker
  <2> QED BY <2>2, <2>3 DEF LifetimeInv
<1>3. CASE GiveUp(c)
  <2>1. child[c] \in Broker /\ Terminates(child[c]) /\ child' = child
    BY <1>3 DEF GiveUp, LifetimeInv, Shape
  <2>2. /\ DOMAIN client' = Client
        /\ \A k \in Client : client'[k] = "waiting" => client[k] = "waiting"
    BY <1>0, <1>3 DEF GiveUp
  <2> QED BY <2>1, <2>2, TerminatingKeeps
<1>4. CASE Leave(c)
  <2>1. /\ UNCHANGED <<stage, lock, path, child>>
        /\ conns' = [b \in Broker |-> Closed(conns[b], c)]
        /\ DOMAIN client' = Client
        /\ \A k \in Client : client'[k] = "waiting" => client[k] = "waiting"
    BY <1>0, <1>4 DEF Leave
  <2>2. ASSUME NEW S \in SUBSET Connection
        PROVE  /\ Closed(S, c) \in SUBSET Connection
               /\ (\A k \in S : k[2] = "closed") => \A k \in Closed(S, c) : k[2] = "closed"
    BY DEF Closed, Connection
  <2>3. \A b \in Broker : conns[b] \in SUBSET Connection /\ conns'[b] = Closed(conns[b], c)
    BY <2>1 DEF LifetimeInv, Shape
  <2>4. Shape'
    BY <2>1, <2>2, <2>3 DEF LifetimeInv, Shape
  <2>5. IdleMeansNobody'
    BY <2>1, <2>2, <2>3 DEF LifetimeInv, Shape, IdleMeansNobody
  <2> QED BY <2>1, <2>4, <2>5 DEF LifetimeInv, LockHeld, PathHeld
<1>5. CASE Ensure(c)
  BY <1>0, <1>1, <1>5 DEF Ensure
<1>6. CASE TakeStartLock(c) \/ FindStarted(c) \/ SeeStarted(c)
  BY <1>0, <1>1, <1>6 DEF TakeStartLock, FindStarted, SeeStarted
<1>7. CASE Connect(c) \/ Reconnect(c)
  BY <1>0, <1>1, <1>7 DEF Connect, Reconnect
<1> QED BY <1>2, <1>3, <1>4, <1>5, <1>6, <1>7 DEF ClientStep

\* One pass of the loop only changes what the broker itself has accepted.
LEMMA PassKeeps ==
    ASSUME NEW b \in Broker, NEW held \in SUBSET Connection, NEW to,
           LifetimeInv, Pass(b, held),
           stage' = [stage EXCEPT ![b] = to],
           to = "polling" \/ (to = "idle" /\ held = {})
    PROVE  LifetimeInv'
<1>1. /\ stage[b] = "woken"
      /\ conns' = [conns EXCEPT ![b] = held]
      /\ UNCHANGED <<lock, path, startLock, child, client>>
  BY DEF Pass
<1>2. Shape'
  BY <1>1 DEF LifetimeInv, Shape
<1>3. LockHeld' /\ PathHeld'
  BY <1>1 DEF LifetimeInv, Shape, LockHeld, PathHeld
<1>4. IdleMeansNobody'
  BY <1>1 DEF LifetimeInv, Shape, IdleMeansNobody
<1> QED BY <1>2, <1>3, <1>4 DEF LifetimeInv

\* The steps of a broker.
LEMMA BrokerKeeps ==
    ASSUME NEW b \in Broker, LifetimeInv,
           BrokerStep(b) \/ Terminate(b) \/ Crash(b)
    PROVE  LifetimeInv'
<1>0. DOMAIN client = Client
  BY DEF LifetimeInv, Shape
<1>1. CASE TakeLock(b) /\ lock = None
  <2>1. Shape' /\ IdleMeansNobody'
    BY <1>1 DEF TakeLock, LifetimeInv, Shape, IdleMeansNobody
  <2>2. LockHeld' /\ PathHeld'
    BY <1>1 DEF TakeLock, LifetimeInv, Shape, LockHeld, PathHeld
  <2> QED BY <2>1, <2>2 DEF LifetimeInv
<1>2. CASE TakeLock(b) /\ lock # None
  <2>1. Shape' /\ IdleMeansNobody'
    BY <1>2 DEF TakeLock, LifetimeInv, Shape, IdleMeansNobody
  <2>2. LockHeld' /\ PathHeld'
    BY <1>2 DEF TakeLock, LifetimeInv, Shape, LockHeld, PathHeld
  <2> QED BY <2>1, <2>2 DEF LifetimeInv
<1>3. CASE Listen(b)
  <2>1. Shape' /\ IdleMeansNobody'
    BY <1>3 DEF Listen, LifetimeInv, Shape, IdleMeansNobody
  <2>2. LockHeld' /\ PathHeld'
    BY <1>3 DEF Listen, LifetimeInv, Shape, LockHeld, PathHeld
  <2> QED BY <2>1, <2>2 DEF LifetimeInv
<1>4. CASE Wake(b)
  <2>1. Shape' /\ IdleMeansNobody'
    BY <1>4 DEF Wake, LifetimeInv, Shape, IdleMeansNobody
  <2>2. LockHeld' /\ PathHeld'
    BY <1>4 DEF Wake, LifetimeInv, Shape, LockHeld, PathHeld
  <2> QED BY <2>1, <2>2 DEF LifetimeInv
<1>5. CASE Serve(b)
  <2>1. PICK held \in SUBSET Connection : Pass(b, held)
    BY <1>5 DEF Serve
  <2> QED BY ZenonT(20), SMTT(20), <1>5, <2>1, PassKeeps DEF Serve
<1>6. CASE IdleExit(b)
  BY ZenonT(20), SMTT(20), <1>6, PassKeeps DEF IdleExit
<1>7. CASE CloseServer(b)
  <2>1. Shape' /\ IdleMeansNobody'
    BY <1>7 DEF CloseServer, LifetimeInv, Shape, IdleMeansNobody
  <2>2. LockHeld' /\ PathHeld'
    BY <1>7 DEF CloseServer, LifetimeInv, Shape, LockHeld, PathHeld
  <2> QED BY <2>1, <2>2 DEF LifetimeInv
<1>8. CASE Unlink(b)
  <2>1. Shape' /\ IdleMeansNobody'
    BY <1>8 DEF Unlink, LifetimeInv, Shape, IdleMeansNobody
  <2>2. LockHeld' /\ PathHeld'
    BY <1>8 DEF Unlink, LifetimeInv, Shape, LockHeld, PathHeld
  <2> QED BY <2>1, <2>2 DEF LifetimeInv
<1>9. CASE ExitBroker(b)
  BY <1>0, <1>9, DyingKeeps DEF ExitBroker
<1>10. CASE Terminate(b)
  BY <1>0, <1>10, TerminatingKeeps DEF Terminate
<1>11. CASE Crash(b)
  BY <1>0, <1>11, DyingKeeps DEF Crash
<1> QED BY <1>1, <1>2, <1>3, <1>4, <1>5, <1>6, <1>7, <1>8, <1>9, <1>10, <1>11
        DEF BrokerStep

-----------------------------------------------------------------------------
\* LifetimeInv is inductive.
THEOREM LifetimeInductive == Spec => []LifetimeInv
<1>1. Init => LifetimeInv
  BY DEF Init, LifetimeInv, Shape, LockHeld, PathHeld, IdleMeansNobody, Connection
<1>2. LifetimeInv /\ [Next]_vars => LifetimeInv'
  <2> SUFFICES ASSUME LifetimeInv, [Next]_vars PROVE LifetimeInv'
    OBVIOUS
  <2>1. CASE \E c \in Client : ClientStep(c)
    BY <2>1, ClientKeeps
  <2>2. CASE \E b \in Broker : BrokerStep(b) \/ Terminate(b) \/ Crash(b)
    BY <2>2, BrokerKeeps
  <2>3. CASE UNCHANGED vars
    BY <2>3 DEF vars, LifetimeInv, Shape, LockHeld, PathHeld, IdleMeansNobody
  <2> QED BY <2>1, <2>2, <2>3 DEF Next
<1> QED BY <1>1, <1>2, PTL DEF Spec

\* However many clients start brokers, and whenever brokers are stopped or
\* killed, a broker that listens is at the path and holds the lock.
THEOREM NoBrokerStranded == Spec => []NoStrandedBroker
<1>1. LifetimeInv => NoStrandedBroker
  BY DEF LifetimeInv, LockHeld, PathHeld, NoStrandedBroker, Listening
<1> QED BY <1>1, LifetimeInductive, PTL

\* The idle exit never cuts off a client the broker had accepted.
THEOREM IdleBrokerIsAlone == Spec => []IdleMeansNobody
<1>1. LifetimeInv => IdleMeansNobody
  BY DEF LifetimeInv
<1> QED BY <1>1, LifetimeInductive, PTL

-----------------------------------------------------------------------------
\* The table of connections.  Its size is a part of TypeOK; closing one client's
\* ends changes connections that are in it, so that two may become one.

\* A table that has no more connections than it has room for.
Fits(S) == IsFiniteSet(S) /\ Cardinality(S) <= MaxConnections

TypeInv ==
    /\ TypeOK
    /\ \A b \in Broker : IsFiniteSet(conns[b])
    /\ \A c \in Client : client[c] = "waiting" => child[c] \in Broker

LEMMA EmptyFits == Fits({})
BY FS_EmptySet DEF Fits

LEMMA PartFits ==
    ASSUME NEW S, NEW T, Fits(S), T \subseteq S
    PROVE  Fits(T)
<1>1. IsFiniteSet(T) /\ Cardinality(T) <= Cardinality(S)
  BY FS_Subset DEF Fits
<1>2. Cardinality(T) \in Nat /\ Cardinality(S) \in Nat
  BY <1>1, FS_CardinalityType DEF Fits
<1> QED BY <1>1, <1>2 DEF Fits

\* What accept_connection adds to a table that is not full.
LEMMA OneMoreFits ==
    ASSUME NEW S, NEW k, Fits(S), Cardinality(S) < MaxConnections
    PROVE  Fits(S \cup {k})
<1>1. /\ IsFiniteSet(S \cup {k})
      /\ Cardinality(S \cup {k}) = IF k \in S THEN Cardinality(S) ELSE Cardinality(S) + 1
  BY FS_AddElement DEF Fits
<1>2. Cardinality(S) \in Nat
  BY FS_CardinalityType DEF Fits
<1> QED BY <1>1, <1>2 DEF Fits

LEMMA ClosedFits ==
    ASSUME NEW c, NEW S, Fits(S)
    PROVE  Fits(Closed(S, c))
<1> DEFINE f == [k \in S |-> <<k[1], IF k[1] = c THEN "closed" ELSE k[2]>>]
<1>1. f \in Surjection(S, Closed(S, c))
  BY DEF Surjection, Closed
<1>2. IsFiniteSet(Closed(S, c)) /\ Cardinality(Closed(S, c)) <= Cardinality(S)
  BY <1>1, FS_Surjection DEF Fits
<1>3. Cardinality(Closed(S, c)) \in Nat /\ Cardinality(S) \in Nat
  BY <1>2, FS_CardinalityType DEF Fits
<1> QED BY <1>2, <1>3 DEF Fits

\* One pass of the loop leaves a table that fits.
LEMMA PassFits ==
    ASSUME NEW b \in Broker, NEW held \in SUBSET Connection, TypeInv, Pass(b, held)
    PROVE  Fits(held)
<1> DEFINE kept == conns[b] \ woken[b].hup
<1>1. Fits(conns[b])
  BY DEF TypeInv, TypeOK, Fits
<1>2. Fits(kept)
  BY <1>1, PartFits
<1>3. CASE held = kept
  BY <1>2, <1>3
<1>4. ASSUME NEW k, Cardinality(kept) < MaxConnections, held = kept \cup {k}
      PROVE  Fits(held)
  BY <1>2, <1>4, OneMoreFits
<1> QED BY ZenonT(20), SMTT(20), <1>3, <1>4 DEF Pass

\* What dies or is told to go keeps its types.
LEMMA DyingTyped ==
    ASSUME NEW b \in Broker, TypeInv, Dies(b) \/ Terminates(b),
           path' \in {path, None},
           UNCHANGED child,
           startLock' \in {startLock, None},
           client' \in [Client -> {"away", "blocked", "starting", "waiting",
                                   "ensured", "connected", "failed"}],
           \A c \in Client : client'[c] = "waiting" => client[c] = "waiting"
    PROVE  TypeInv'
<1> USE DEF TypeInv, TypeOK
<1>1. CASE Dies(b)
  <2>1. Asleep \in [hup : SUBSET Connection, new : BOOLEAN]
    BY DEF Asleep
  <2>2. conns' \in [Broker -> SUBSET Connection] /\ \A k \in Broker : Fits(conns'[k])
    BY <1>1, EmptyFits DEF Dies, Fits
  <2>3. /\ stage' \in [Broker -> {"unborn", "started", "locked", "polling", "woken",
                                  "idle", "stopping", "deaf", "unlinked", "gone"}]
        /\ lock' \in Broker \cup {None}
        /\ backlog' \in [Broker -> SUBSET Connection]
        /\ woken' \in [Broker -> [hup : SUBSET Connection, new : BOOLEAN]]
    BY <1>1, <2>1 DEF Dies
  <2> QED BY <2>2, <2>3 DEF Fits
<1>2. CASE ~Dies(b)
  <2>1. UNCHANGED <<lock, backlog, conns, woken>>
    BY <1>2 DEF Terminates
  <2>2. stage' \in [Broker -> {"unborn", "started", "locked", "polling", "woken",
                               "idle", "stopping", "deaf", "unlinked", "gone"}]
    BY SMTT(30), ZenonT(20), <1>2 DEF Terminates
  <2> QED BY <2>1, <2>2
<1> QED BY <1>1, <1>2

\* The steps of a client.
LEMMA ClientTyped ==
    ASSUME NEW c \in Client, TypeInv, ClientStep(c)
    PROVE  TypeInv'
<1> USE DEF TypeInv, TypeOK
<1>0. ASSUME NEW to \in {"away", "blocked", "starting", "waiting",
                         "ensured", "connected", "failed"},
             Move(c, to)
      PROVE  /\ client' \in [Client -> {"away", "blocked", "starting", "waiting",
                                        "ensured", "connected", "failed"}]
             /\ to # "waiting" =>
                  \A k \in Client : client'[k] = "waiting" => client[k] = "waiting"
  BY <1>0 DEF Move
<1>1. ASSUME NEW how \in {"open", "closed"}, Reachable, Connects(c, how)
      PROVE  backlog' \in [Broker -> SUBSET Connection]
  BY <1>1 DEF Reachable, Listening, Connects, Connection
<1>2. CASE Ensure(c)
  BY <1>0, <1>1, <1>2 DEF Ensure
<1>3. CASE TakeStartLock(c)
  BY <1>0, <1>3 DEF TakeStartLock
<1>4. CASE FindStarted(c)
  BY <1>0, <1>1, <1>4 DEF FindStarted
<1>5. CASE StartBroker(c)
  <2>1. PICK b \in Broker :
          /\ stage' = [stage EXCEPT ![b] = "started"]
          /\ child' = [child EXCEPT ![c] = b]
    BY ZenonT(20), SMTT(20), <1>5 DEF StartBroker
  <2>2. /\ client' = [client EXCEPT ![c] = "waiting"]
        /\ UNCHANGED <<lock, path, backlog, conns, woken, startLock>>
    BY <1>5 DEF StartBroker, Move
  <2> QED BY <2>1, <2>2
<1>6. CASE SeeStarted(c)
  BY <1>0, <1>1, <1>6 DEF SeeStarted
<1>7. CASE GiveUp(c)
  <2>1. child[c] \in Broker /\ Terminates(child[c]) /\ UNCHANGED child
    BY <1>7 DEF GiveUp
  <2>2. path' \in {path, None}
    BY <2>1 DEF Terminates
  <2>3. startLock' = None
    BY <1>7 DEF GiveUp
  <2>4. Move(c, "failed")
    BY <1>7 DEF GiveUp
  <2> QED BY <1>0, <2>1, <2>2, <2>3, <2>4, DyingTyped
<1>8. CASE Connect(c)
  BY <1>0, <1>1, <1>8 DEF Connect
<1>9. CASE Reconnect(c)
  BY <1>0, <1>9 DEF Reconnect
<1>10. CASE Leave(c)
  <2>1. /\ backlog' = [b \in Broker |-> Closed(backlog[b], c)]
        /\ conns' = [b \in Broker |-> Closed(conns[b], c)]
        /\ startLock' \in {startLock, None}
        /\ UNCHANGED <<stage, lock, path, woken, child>>
    BY <1>10 DEF Leave
  <2>2. Move(c, "away")
    BY <1>10 DEF Leave
  <2>3. \A S \in SUBSET Connection : Closed(S, c) \in SUBSET Connection
    BY DEF Closed, Connection
  <2>4. /\ backlog' \in [Broker -> SUBSET Connection]
        /\ conns' \in [Broker -> SUBSET Connection]
    BY SMTT(30), ZenonT(20), <2>1, <2>3
  <2>5. \A b \in Broker : Fits(conns'[b])
    BY <2>1, ClosedFits DEF Fits
  <2> QED BY <1>0, <2>1, <2>2, <2>4, <2>5 DEF Fits
<1> QED BY <1>2, <1>3, <1>4, <1>5, <1>6, <1>7, <1>8, <1>9, <1>10 DEF ClientStep

\* The steps of a broker.
LEMMA BrokerTyped ==
    ASSUME NEW b \in Broker, TypeInv, BrokerStep(b) \/ Terminate(b) \/ Crash(b)
    PROVE  TypeInv'
<1> USE DEF TypeInv, TypeOK
<1>1. CASE TakeLock(b)
  BY <1>1 DEF TakeLock
<1>2. CASE Listen(b)
  BY <1>2 DEF Listen
<1>3. CASE Wake(b)
  <2>1. [hup |-> {k \in conns[b] : k[2] = "closed"}, new |-> backlog[b] # {}]
          \in [hup : SUBSET Connection, new : BOOLEAN]
    OBVIOUS
  <2>2. woken' \in [Broker -> [hup : SUBSET Connection, new : BOOLEAN]]
    BY <1>3, <2>1 DEF Wake
  <2> QED BY SMTT(30), ZenonT(20), <1>3, <2>2 DEF Wake
<1>4. ASSUME NEW held \in SUBSET Connection, NEW to \in {"polling", "idle"},
             Pass(b, held), stage' = [stage EXCEPT ![b] = to]
      PROVE  TypeInv'
  <2>1. Fits(held)
    BY <1>4, PassFits
  <2>2. /\ conns' = [conns EXCEPT ![b] = held]
        /\ woken' = [woken EXCEPT ![b] = Asleep]
        /\ UNCHANGED <<lock, path, startLock, child, client>>
    BY <1>4 DEF Pass
  <2>3. backlog' \in [Broker -> SUBSET Connection]
    BY <1>4 DEF Pass
  <2>4. conns' \in [Broker -> SUBSET Connection] /\ \A k \in Broker : Fits(conns'[k])
    BY <2>1, <2>2 DEF Fits
  <2>5. woken' \in [Broker -> [hup : SUBSET Connection, new : BOOLEAN]]
    BY <2>2 DEF Asleep
  <2> QED BY <1>4, <2>2, <2>3, <2>4, <2>5 DEF Fits
<1>5. CASE Serve(b)
  BY <1>4, <1>5 DEF Serve
<1>6. CASE IdleExit(b)
  BY <1>4, <1>6 DEF IdleExit
<1>7. CASE CloseServer(b)
  BY <1>7 DEF CloseServer
<1>8. CASE Unlink(b)
  BY <1>8 DEF Unlink
<1>9. CASE ExitBroker(b) \/ Crash(b)
  BY <1>9, DyingTyped DEF ExitBroker, Crash
<1>10. CASE Terminate(b)
  <2>1. path' \in {path, None}
    BY <1>10 DEF Terminate, Terminates
  <2> QED BY <1>10, <2>1, DyingTyped DEF Terminate
<1> QED BY <1>1, <1>2, <1>3, <1>5, <1>6, <1>7, <1>8, <1>9, <1>10 DEF BrokerStep

\* Every variable keeps its type, and with it the table of connections its
\* bound, however many clients connect, probe and leave.
THEOREM TableIsBounded == Spec => []TypeOK
<1>1. Init => TypeInv
  BY EmptyFits, FS_EmptySet DEF Init, TypeInv, TypeOK, Fits, Asleep, Connection
<1>2. TypeInv /\ [Next]_vars => TypeInv'
  <2> SUFFICES ASSUME TypeInv, [Next]_vars PROVE TypeInv'
    OBVIOUS
  <2>1. CASE \E c \in Client : ClientStep(c)
    BY <2>1, ClientTyped
  <2>2. CASE \E b \in Broker : BrokerStep(b) \/ Terminate(b) \/ Crash(b)
    BY <2>2, BrokerTyped
  <2>3. CASE UNCHANGED vars
    BY <2>3 DEF vars, TypeInv, TypeOK
  <2> QED BY <2>1, <2>2, <2>3 DEF Next
<1>3. TypeInv => TypeOK
  BY DEF TypeInv
<1> QED BY <1>1, <1>2, <1>3, PTL DEF Spec
-----------------------------------------------------------------------------
(***************************************************************************)
(* The voices of `say', which the same loop keeps (SayVoices).  That no    *)
(* voice outstays its period is not inductive: a sleeping broker has to be *)
(* known to wake before the first of the deadlines, and the loop not to be *)
(* past one of them.                                                       *)
(***************************************************************************)
CONSTANTS Voice, MaxVoices, Idle, BrokerIdle, Horizon
VARIABLES now, warm, children, wake, state, deadline

V == INSTANCE SayVoices

\* The voices in the table, each with the second it was last asked for.
VoiceTable ==
    /\ warm = [v \in V!Known |-> warm[v]]
    /\ V!Known \subseteq Voice /\ IsFiniteSet(V!Known)
    /\ Cardinality(V!Known) <= MaxVoices
    /\ \A v \in V!Known : warm[v] \in Nat /\ warm[v] <= now

\* Neither the loop nor poll() is past a deadline, and poll() ends at the first.
Punctual ==
    /\ \A v \in V!Known : now <= warm[v] + Idle
    /\ state # "gone" => now <= deadline
    /\ state = "poll" => /\ now <= wake /\ wake <= deadline
                         /\ \A v \in V!Known : wake <= warm[v] + Idle

VoiceInv ==
    /\ now \in 0..Horizon /\ deadline \in Nat /\ wake \in Nat
    /\ state \in {"poll", "loop", "gone"}
    /\ VoiceTable /\ Punctual

LEMMA SameCardinality == \A S : V!Cardinality(S) = Cardinality(S)
  BY DEF V!Cardinality, Cardinality

LEMMA VoiceInvInit == ASSUME V!Constants, V!Init PROVE VoiceInv
<1>1. V!Known = {}
  BY DEF V!Init, V!Known
<1>2. IsFiniteSet(V!Known) /\ Cardinality(V!Known) = 0
  BY <1>1, FS_EmptySet
<1> QED
  BY <1>1, <1>2 DEF V!Constants, V!Init, VoiceInv, VoiceTable, Punctual, V!Known

\* Dropping entries keeps the table's shape.
LEMMA KeptIsSmaller ==
    ASSUME V!Constants, VoiceInv, NEW S, S \subseteq V!Known
    PROVE  IsFiniteSet(S) /\ Cardinality(S) <= MaxVoices /\ Cardinality(S) \in Nat
<1>1. IsFiniteSet(S) /\ Cardinality(S) <= Cardinality(V!Known)
  BY FS_Subset DEF VoiceInv, VoiceTable
<1>2. Cardinality(V!Known) \in Nat /\ Cardinality(S) \in Nat
  BY <1>1, FS_CardinalityType DEF VoiceInv, VoiceTable
<1> QED BY <1>1, <1>2 DEF VoiceInv, VoiceTable, V!Constants

\* Looking at the voices, and leaving the loop or going on with it.
LEMMA WakesKeeps == ASSUME V!Constants, VoiceInv, V!Wakes PROVE VoiceInv'
<1> DEFINE kept == V!Known \ (V!Ended \cup V!Expired)
<1>1. warm' = [v \in kept |-> warm[v]]
  BY DEF V!Wakes, V!Without
<1>2. V!Known' = kept
  BY <1>1 DEF V!Known
<1>3. IsFiniteSet(kept) /\ Cardinality(kept) <= MaxVoices
  BY KeptIsSmaller
<1>4. VoiceTable'
  BY SMTT(20), ZenonT(20), <1>1, <1>2, <1>3 DEF VoiceTable, VoiceInv, V!Wakes
<1>5. Punctual'
  BY <1>1, <1>2 DEF Punctual, VoiceInv, V!Wakes, VoiceTable
<1> QED BY <1>4, <1>5 DEF VoiceInv, V!Wakes

\* Asking for a voice: it is in the table from now on, if there is room.
LEMMA WarmKeeps ==
    ASSUME V!Constants, VoiceInv, NEW v \in Voice, V!Warm(v) PROVE VoiceInv'
<1> DEFINE kept == V!Known \ (V!Ended \cup V!Expired)
<1>0. kept \subseteq V!Known
  OBVIOUS
<1>1. IsFiniteSet(kept) /\ Cardinality(kept) <= MaxVoices /\ Cardinality(kept) \in Nat
  BY <1>0, KeptIsSmaller
<1>2. CASE v \in kept \/ Cardinality(kept) < MaxVoices
  <2>1. warm' = [x \in kept \cup {v} |-> IF x = v THEN now ELSE warm[x]]
    BY <1>2, SameCardinality DEF V!Warm
  <2>2. V!Known' = kept \cup {v}
    BY <2>1 DEF V!Known
  <2>3. IsFiniteSet(kept \cup {v}) /\ Cardinality(kept \cup {v}) <= MaxVoices
    <3>1. IsFiniteSet(kept \cup {v})
          /\ Cardinality(kept \cup {v}) = IF v \in kept THEN Cardinality(kept)
                                          ELSE Cardinality(kept) + 1
      BY ZenonT(20), SMTT(20), <1>1, FS_AddElement
    <3> QED BY <3>1, <1>1, <1>2 DEF V!Constants
  <2>4. VoiceTable'
    BY <2>1, <2>2, <2>3, <1>0 DEF VoiceTable, VoiceInv, V!Warm
  <2>5. Punctual'
    BY <2>1, <2>2, <1>0 DEF Punctual, VoiceInv, V!Warm, VoiceTable, V!Constants
  <2> QED BY <2>4, <2>5 DEF VoiceInv, V!Warm
<1>3. CASE ~(v \in kept \/ Cardinality(kept) < MaxVoices)
  <2>1. warm' = [x \in kept |-> warm[x]]
    BY <1>3, SameCardinality DEF V!Warm
  <2>2. V!Known' = kept
    BY <2>1 DEF V!Known
  <2>3. VoiceTable'
    BY <2>1, <2>2, <1>0, <1>1 DEF VoiceTable, VoiceInv, V!Warm
  <2>4. Punctual'
    BY <2>1, <2>2, <1>0 DEF Punctual, VoiceInv, V!Warm, VoiceTable
  <2> QED BY <2>3, <2>4 DEF VoiceInv, V!Warm
<1> QED BY <1>2, <1>3

\* poll()'s timeout is the first deadline there is.
LEMMA SleepKeeps == ASSUME V!Constants, VoiceInv, V!Sleep PROVE VoiceInv'
<1>1. PICK due \in V!Deadlines :
          /\ \A d \in V!Deadlines : due <= d
          /\ wake' = IF due <= now THEN now ELSE due
  BY DEF V!Sleep
<1>2. due \in Nat /\ due <= deadline /\ \A v \in V!Known : due <= warm[v] + Idle
  BY <1>1 DEF V!Deadlines, V!Constants, VoiceInv, VoiceTable
<1>3. UNCHANGED <<now, warm, deadline>> /\ V!Known' = V!Known /\ state' = "poll"
      /\ state = "loop"
  BY DEF V!Sleep, V!Known
<1>4. VoiceTable'
  BY <1>3 DEF VoiceTable, VoiceInv
<1>5. Punctual'
  BY <1>1, <1>2, <1>3 DEF Punctual, VoiceInv, VoiceTable, V!Constants
<1> QED BY <1>1, <1>2, <1>3, <1>4, <1>5 DEF VoiceInv

\* The other steps touch neither the table nor, past a deadline, the clock.
LEMMA OtherVoiceSteps ==
    ASSUME V!Constants, VoiceInv,
           \/ V!Claimed \/ V!Stop \/ V!Tick \/ UNCHANGED V!vars
           \/ \E v \in Voice : V!ChildEnds(v)
    PROVE  VoiceInv'
<1>1. UNCHANGED warm /\ V!Known' = V!Known
  BY DEF V!Claimed, V!Stop, V!Tick, V!ChildEnds, V!vars, V!Known
<1>2. now' \in 0..Horizon /\ now <= now' /\ deadline' \in Nat /\ wake' = wake
      /\ state' = state
  BY DEF V!Claimed, V!Stop, V!Tick, V!ChildEnds, V!vars, VoiceInv, V!Constants
<1>3. VoiceTable'
  BY <1>1, <1>2 DEF VoiceTable, VoiceInv
<1>4. CASE V!Tick
  <2>1. Punctual'
    BY <1>1, <1>4 DEF V!Tick, Punctual, VoiceInv, VoiceTable, V!Constants
  <2> QED BY <1>2, <1>3, <2>1 DEF VoiceInv
<1>5. CASE ~V!Tick
  <2>1. now' = now /\ (deadline' = deadline \/ deadline' = now + BrokerIdle)
        /\ (deadline' = deadline \/ state = "loop")
    BY <1>5 DEF V!Claimed, V!Stop, V!ChildEnds, V!vars
  <2>2. Punctual'
    BY <1>1, <1>2, <2>1 DEF Punctual, VoiceInv, V!Constants
  <2> QED BY <1>2, <1>3, <2>2 DEF VoiceInv
<1> QED BY <1>4, <1>5

LEMMA VoiceInvariant == V!Constants => (V!FairSpec => []VoiceInv)
<1> SUFFICES ASSUME V!Constants PROVE V!FairSpec => []VoiceInv
  OBVIOUS
<1>1. V!Init => VoiceInv
  BY VoiceInvInit
<1>2. VoiceInv /\ [V!Next]_V!vars => VoiceInv'
  BY WakesKeeps, WarmKeeps, SleepKeeps, OtherVoiceSteps DEF V!Next
<1> QED BY <1>1, <1>2, PTL DEF V!FairSpec

\* No voice outstays its idle period while the broker runs, and the broker does
\* not sleep past its own deadline, for any number of voices and any periods
\* (NoVoiceOutstays of SayVoices: say_poll_timeout(), reap_say_voices()).
THEOREM NoVoiceIsForgotten == V!Constants => (V!FairSpec => []V!NoVoiceOutstays)
<1> SUFFICES ASSUME V!Constants PROVE V!FairSpec => []V!NoVoiceOutstays
  OBVIOUS
<1>1. VoiceInv => V!NoVoiceOutstays
  BY DEF VoiceInv, VoiceTable, Punctual, V!NoVoiceOutstays, V!Constants
<1> QED BY <1>1, VoiceInvariant, PTL

\* The table of voices never holds more than MAX_SAY_VOICES, whatever was
\* warmed, reaped and touched (TypeOK of SayVoices: warm_say_voice()).
THEOREM VoiceTableIsBounded == V!Constants => (V!FairSpec => []V!TypeOK)
<1> SUFFICES ASSUME V!Constants PROVE V!FairSpec => []V!TypeOK
  OBVIOUS
<1>1. VoiceInv => V!TypeOK
  BY SameCardinality DEF VoiceInv, VoiceTable, V!TypeOK
<1> QED BY <1>1, VoiceInvariant, PTL
-----------------------------------------------------------------------------
(***************************************************************************)
(* A console unit's requests (ConsoleDevice), for any set of them.  A      *)
(* request that is still to be answered is in exactly one place: on the    *)
(* unit's queue, on the list the close has detached, or with the worker;   *)
(* whoever answers it takes it from there.  0 stands for no request.       *)
(***************************************************************************)
CONSTANTS Reads, Writes, MaxSends, MaxInput
VARIABLES queue, at, aborted, done, worker, asleep, signalled, input, closing,
          detached, waiting, answers, sends, fed

D == INSTANCE ConsoleDevice WITH woken <- signalled

HIDE LifetimeConstants DEF Holding, Stages
USE ZenonT(20), SMTT(20)

Members(q) == {q[i] : i \in DOMAIN q}
Once(q) == \A i, j \in DOMAIN q : q[i] = q[j] => i = j

RequestPlaces == {"free", "queued", "running", "served", "answered"}
ConsoleTypes ==
    /\ queue \in Seq(D!Request) /\ detached \in Seq(D!Request)
    /\ at \in [D!Request -> RequestPlaces] /\ answers \in [D!Request -> Nat]
    /\ done \in [D!Request -> BOOLEAN]
    /\ worker \in D!Request \cup {0} /\ 0 \notin D!Request

InOnePlace ==
    /\ Once(queue) /\ Once(detached)
    /\ closing = "open" => detached = <<>>
    /\ closing # "open" => queue = <<>>
    /\ \A r \in Members(queue) \cup Members(detached) : at[r] = "queued"
    /\ worker # 0 => at[worker] \in {"running", "served"}

Unanswered ==
    \A r \in D!Request : at[r] \in {"queued", "running", "served"}
                       => answers[r] = 0 /\ ~done[r]

ConsoleInv == ConsoleTypes /\ InOnePlace /\ Unanswered /\ D!AnsweredOnce

LEMMA NoMembers == Members(<<>>) = {} /\ Once(<<>>)
BY SMTT(20) DEF Members, Once

\* What the three changes to a list do to the requests on it.
LEMMA AppendMembers ==
    ASSUME NEW S, NEW q \in Seq(S), NEW r \in S, Once(q), r \notin Members(q)
    PROVE  /\ Append(q, r) \in Seq(S) /\ Once(Append(q, r))
           /\ Members(Append(q, r)) = Members(q) \cup {r}
<1> DEFINE n == Len(q)
           a == Append(q, r)
<1>1. n \in Nat /\ DOMAIN q = 1..n
  BY SMTT(20)
<1>2. a \in Seq(S) /\ DOMAIN a = 1..(n + 1) /\ a[n + 1] = r
        /\ \A i \in 1..n : a[i] = q[i]
  BY SMTT(20), <1>1
<1> HIDE DEF a, n
<1>3. \A i \in 1..n : a[i] # r
  BY <1>1, <1>2 DEF Members
<1>4. \A i \in 1..(n + 1) : i \in 1..n \/ i = n + 1
  BY SMTT(20), <1>1
<1>5. Once(a)
  BY <1>1, <1>2, <1>3, <1>4 DEF Once
<1>6. n + 1 \in 1..(n + 1) /\ \A i \in 1..n : i \in 1..(n + 1)
  BY SMTT(20), <1>1
<1>7. Members(a) = Members(q) \cup {r}
  BY <1>1, <1>2, <1>4, <1>6 DEF Members
<1> QED
  BY <1>2, <1>5, <1>7 DEF a

LEMMA TailMembers ==
    ASSUME NEW S, NEW q \in Seq(S), q # <<>>, Once(q)
    PROVE  /\ Head(q) \in Members(q) /\ Head(q) \in S
           /\ Tail(q) \in Seq(S) /\ Once(Tail(q))
           /\ Members(Tail(q)) = Members(q) \ {Head(q)}
<1> DEFINE n == Len(q)
           t == Tail(q)
<1>1. n \in Nat /\ n >= 1 /\ DOMAIN q = 1..n /\ Head(q) = q[1] /\ Head(q) \in S
  BY SMTT(20)
<1>2. t \in Seq(S) /\ DOMAIN t = 1..(n - 1) /\ \A i \in 1..(n - 1) : t[i] = q[i + 1]
  BY SMTT(20), <1>1
<1> HIDE DEF t, n
<1>3. \A i \in 1..(n - 1) : i + 1 \in 1..n /\ i + 1 # 1
  BY SMTT(20), <1>1
<1>4. 1 \in 1..n /\ \A i \in 1..n : i = 1 \/ (i - 1 \in 1..(n - 1) /\ (i - 1) + 1 = i)
  BY SMTT(20), <1>1
<1>5. Once(t)
  <2> SUFFICES ASSUME NEW i \in 1..(n - 1), NEW j \in 1..(n - 1), t[i] = t[j]
               PROVE  i = j
    BY <1>2 DEF Once
  <2>1. i + 1 = j + 1
    BY ZenonT(30), SMTT(20), <1>1, <1>2, <1>3 DEF Once
  <2> QED
    BY SMTT(20), <1>1, <2>1
<1>6. Members(t) \subseteq Members(q) \ {q[1]}
  <2> SUFFICES ASSUME NEW i \in 1..(n - 1)
               PROVE  t[i] \in Members(q) /\ t[i] # q[1]
    BY <1>2 DEF Members
  <2>1. PICK k \in 1..n : k = i + 1 /\ k # 1 /\ t[i] = q[k]
    BY <1>2, <1>3
  <2> QED
    BY <1>1, <1>4, <2>1 DEF Members, Once
<1>7. Members(q) \ {q[1]} \subseteq Members(t)
  <2> SUFFICES ASSUME NEW i \in 1..n, q[i] # q[1]
               PROVE  q[i] \in Members(t)
    BY <1>1 DEF Members
  <2>1. PICK k \in 1..(n - 1) : k + 1 = i
    BY <1>4
  <2> QED
    BY <1>2, <2>1 DEF Members
<1> QED
  BY SMTT(20), <1>1, <1>2, <1>4, <1>5, <1>6, <1>7 DEF t, Members

LEMMA UnlinkedMembers ==
    ASSUME NEW S, NEW q \in Seq(S), NEW r, Once(q)
    PROVE  /\ D!Unlinked(q, r) \in Seq(S) /\ Once(D!Unlinked(q, r))
           /\ Members(D!Unlinked(q, r)) = Members(q) \ {r}
<1> DEFINE n == Len(q)
           u == D!Unlinked(q, r)
<1>0. DOMAIN q = 1..n /\ \A i \in 1..n : q[i] \in S
  BY SMTT(20)
<1>3. n \in Nat
  BY SMTT(20)
<1>1. CASE \A i \in DOMAIN q : q[i] # r
  BY <1>1 DEF D!Unlinked, Members
<1>2. CASE \E i \in DOMAIN q : q[i] = r
  <2>1. PICK k \in 1..n : q[k] = r /\ k = CHOOSE i \in DOMAIN q : q[i] = r
    BY <1>0, <1>2
  <2> HIDE DEF n
  <2>2. u = [j \in 1..(n - 1) |-> IF j < k THEN q[j] ELSE q[j + 1]]
    BY <1>2, <2>1 DEF D!Unlinked, n
  <2>3. n - 1 \in Nat /\ k \in Nat
    BY SMTT(20), <1>3
  <2> DEFINE m(j) == IF j < k THEN j ELSE j + 1
  <2>4. \A j \in 1..(n - 1) : m(j) \in 1..n /\ m(j) # k
    BY SMTT(20), <1>3
  <2>5. \A j \in 1..(n - 1) : u[j] = q[m(j)] /\ u[j] \in S
    BY <1>0, <2>2, <2>4
  <2>6. u \in Seq(S) /\ DOMAIN u = 1..(n - 1)
    <3>1. u \in [1..(n - 1) -> S]
      BY <2>2, <2>5
    <3> QED
      BY SMTT(20), <2>3, <3>1
  <2>7. \A i, j \in 1..(n - 1) : m(i) = m(j) => i = j
    BY SMTT(20), <1>3
  <2>8. \A i \in 1..n : i = k \/ \E j \in 1..(n - 1) : m(j) = i
    <3> SUFFICES ASSUME NEW i \in 1..n, i # k
                 PROVE  \E j \in 1..(n - 1) : m(j) = i
      OBVIOUS
    <3>1. CASE i < k
      <4>1. i \in 1..(n - 1) /\ m(i) = i
        BY SMTT(20), <1>3, <3>1
      <4> QED
        BY <4>1
    <3>2. CASE i > k
      <4>1. i - 1 \in 1..(n - 1) /\ m(i - 1) = i
        BY SMTT(20), <1>3, <3>2
      <4> QED
        BY <4>1
    <3> QED
      BY SMTT(20), <1>3, <3>1, <3>2
  <2> HIDE DEF m, u
  <2>9. Once(u)
    BY SMTT(20), <1>0, <2>4, <2>5, <2>6, <2>7 DEF Once
  <2>10. Members(u) \subseteq Members(q) \ {r}
    BY SMTT(20), <1>0, <2>1, <2>4, <2>5, <2>6 DEF Members, Once
  <2>11. Members(q) \ {r} \subseteq Members(u)
    <3> SUFFICES ASSUME NEW i \in 1..n, q[i] # r
                 PROVE  q[i] \in Members(u)
      BY <1>0 DEF Members
    <3>1. PICK j \in 1..(n - 1) : m(j) = i
      BY <2>1, <2>8
    <3> QED
      BY <2>5, <2>6, <3>1 DEF Members
  <2> QED
    BY <2>6, <2>9, <2>10, <2>11 DEF u
<1> QED
  BY <1>1, <1>2

LEMMA ConsoleInit == 0 \notin D!Request /\ D!Init => ConsoleInv
<1> SUFFICES ASSUME 0 \notin D!Request, D!Init PROVE ConsoleInv
  OBVIOUS
<1>1. done \in [D!Request -> BOOLEAN]
  BY Zenon DEF D!Init
<1>2. ConsoleTypes
  BY SMTT(20), <1>1 DEF D!Init, ConsoleTypes, RequestPlaces
<1> QED
  BY SMTT(20), <1>2, NoMembers DEF D!Init, ConsoleInv, InOnePlace, Unanswered, D!AnsweredOnce

\* The application's own calls: a request is sent while it is free, and let
\* go when it is done.
LEMMA SendInv ==
    ASSUME ConsoleInv, NEW r \in D!Request, D!amiga_console_SendIO(r) PROVE ConsoleInv'
<1> USE DEF ConsoleInv, ConsoleTypes, RequestPlaces, D!amiga_console_SendIO
<1>1. r \notin Members(queue)
  BY DEF InOnePlace
<1>2. /\ queue' \in Seq(D!Request) /\ Once(queue')
      /\ Members(queue') = Members(queue) \cup {r}
  BY SMTT(20), <1>1, AppendMembers DEF InOnePlace
<1>3. ConsoleTypes'
  BY <1>2
<1>4. InOnePlace'
  BY SMTT(20), <1>2, NoMembers DEF InOnePlace
<1>5. Unanswered' /\ D!AnsweredOnce'
  BY SMTT(20) DEF Unanswered, D!AnsweredOnce
<1> QED
  BY <1>3, <1>4, <1>5

LEMMA WaitInv ==
    ASSUME ConsoleInv, NEW r \in D!Request, D!amiga_console_WaitIO(r) PROVE ConsoleInv'
<1> USE DEF ConsoleInv, ConsoleTypes, RequestPlaces, D!amiga_console_WaitIO
<1>1. at[r] \notin {"queued", "running", "served"}
  BY DEF Unanswered
<1>2. ConsoleTypes'
  OBVIOUS
<1>3. InOnePlace'
  BY SMTT(20), <1>1 DEF InOnePlace
<1>4. Unanswered' /\ D!AnsweredOnce'
  BY DEF Unanswered, D!AnsweredOnce
<1> QED
  BY <1>2, <1>3, <1>4

\* The abort answers the request only when it has taken it off the queue.
LEMMA AbortInv ==
    ASSUME ConsoleInv, NEW r \in D!Request, D!amiga_console_AbortIO(r) PROVE ConsoleInv'
<1> USE DEF ConsoleInv, ConsoleTypes, RequestPlaces
<1>1. CASE D!OnTheQueue(r)
  <2>1. r \in Members(queue) /\ at[r] = "queued" /\ answers[r] = 0 /\ closing = "open"
    BY SMTT(20), <1>1, NoMembers DEF D!OnTheQueue, Members, InOnePlace, Unanswered
  <2>2. /\ D!Unlinked(queue, r) \in Seq(D!Request) /\ Once(D!Unlinked(queue, r))
        /\ Members(D!Unlinked(queue, r)) = Members(queue) \ {r}
    BY UnlinkedMembers DEF InOnePlace
  <2>3. /\ queue' = D!Unlinked(queue, r) /\ at' = [at EXCEPT ![r] = "answered"]
        /\ done' = [done EXCEPT ![r] = TRUE]
        /\ answers' = [answers EXCEPT ![r] = @ + 1]
        /\ UNCHANGED <<worker, closing, detached>>
    BY <1>1 DEF D!amiga_console_AbortIO, D!Answer
  <2>4. ConsoleTypes'
    BY SMTT(20), <2>2, <2>3
  <2>5. InOnePlace'
    BY SMTT(20), <2>1, <2>2, <2>3, NoMembers DEF InOnePlace
  <2>6. Unanswered' /\ D!AnsweredOnce'
    BY SMTT(20), <2>1, <2>3 DEF Unanswered, D!AnsweredOnce
  <2> QED
    BY <2>4, <2>5, <2>6
<1>2. CASE ~D!OnTheQueue(r)
  <2>1. UNCHANGED <<queue, done, answers, at, worker, closing, detached>>
    BY <1>2 DEF D!amiga_console_AbortIO
  <2> QED
    BY <2>1 DEF InOnePlace, Unanswered, D!AnsweredOnce
<1> QED
  BY <1>1, <1>2

\* The worker takes the head of the queue, serves it and answers it.
LEMMA TakeInv ==
    ASSUME ConsoleInv, D!WorkerTakes PROVE ConsoleInv'
<1> USE DEF ConsoleInv, ConsoleTypes, RequestPlaces, D!WorkerTakes
<1> DEFINE h == Head(queue)
<1>1. /\ h \in Members(queue) /\ h \in D!Request
      /\ queue' \in Seq(D!Request) /\ Once(queue')
      /\ Members(queue') = Members(queue) \ {h}
  BY TailMembers DEF InOnePlace
<1> HIDE DEF h
<1>2. worker' = h /\ at' = [at EXCEPT ![h] = "running"]
  BY DEF h
<1>3. closing = "open" /\ detached = <<>> /\ at[h] = "queued"
  BY <1>1 DEF InOnePlace
<1>4. ConsoleTypes'
  BY <1>1, <1>2
<1>5. InOnePlace'
  BY SMTT(20), <1>1, <1>2, <1>3, NoMembers DEF InOnePlace
<1>6. Unanswered' /\ D!AnsweredOnce'
  BY <1>1, <1>2, <1>3 DEF Unanswered, D!AnsweredOnce
<1> QED
  BY <1>4, <1>5, <1>6

LEMMA ServeInv ==
    ASSUME ConsoleInv, D!queued_input_read \/ D!DeviceWrites PROVE ConsoleInv'
<1> USE DEF ConsoleInv, ConsoleTypes, RequestPlaces
<1>1. /\ worker \in D!Request /\ at[worker] = "running"
      /\ at' = at \/ at' = [at EXCEPT ![worker] = "served"]
      /\ UNCHANGED <<queue, detached, done, answers, worker, closing>>
  BY DEF D!queued_input_read, D!DeviceWrites, D!Request
<1>2. ConsoleTypes'
  BY <1>1
<1>3. InOnePlace'
  <2>1. at'[worker] \in {"running", "served"}
    BY <1>1
  <2>2. worker \notin Members(queue) \cup Members(detached)
    BY <1>1 DEF InOnePlace
  <2>4. Members(queue) \cup Members(detached) \subseteq D!Request
    BY SMTT(20) DEF Members
  <2>3. \A r \in Members(queue) \cup Members(detached) : at'[r] = at[r]
    BY <1>1, <2>2, <2>4
  <2> QED
    BY <1>1, <2>1, <2>3 DEF InOnePlace
<1>4. Unanswered' /\ D!AnsweredOnce'
  BY <1>1 DEF Unanswered, D!AnsweredOnce
<1> QED
  BY <1>2, <1>3, <1>4

LEMMA CompleteInv ==
    ASSUME ConsoleInv, D!complete_request PROVE ConsoleInv'
<1> USE DEF ConsoleInv, ConsoleTypes, RequestPlaces, D!complete_request, D!Answer
<1>1. worker \in D!Request /\ answers[worker] = 0
  BY DEF Unanswered
<1>2. ConsoleTypes'
  BY SMTT(20), <1>1
<1>3. InOnePlace'
  BY SMTT(20), <1>1 DEF InOnePlace
<1>4. Unanswered' /\ D!AnsweredOnce'
  BY SMTT(20), <1>1 DEF Unanswered, D!AnsweredOnce
<1> QED
  BY <1>2, <1>3, <1>4

\* The close takes the whole queue, then answers what it took one by one.
LEMMA CloseInv ==
    ASSUME ConsoleInv, D!amiga_console_CloseDevice PROVE ConsoleInv'
<1> USE DEF ConsoleInv, ConsoleTypes, RequestPlaces, D!amiga_console_CloseDevice
<1>1. ConsoleTypes'
  BY SMTT(20)
<1>2. InOnePlace'
  BY NoMembers DEF InOnePlace
<1>3. Unanswered' /\ D!AnsweredOnce'
  BY DEF Unanswered, D!AnsweredOnce
<1> QED
  BY <1>1, <1>2, <1>3

LEMMA DrainInv ==
    ASSUME ConsoleInv, D!CloseDrains PROVE ConsoleInv'
<1> USE DEF ConsoleInv, ConsoleTypes, RequestPlaces, D!CloseDrains, D!Answer
<1> DEFINE h == Head(detached)
<1>1. /\ h \in Members(detached) /\ h \in D!Request
      /\ detached' \in Seq(D!Request) /\ Once(detached')
      /\ Members(detached') = Members(detached) \ {h}
  BY TailMembers DEF InOnePlace
<1> HIDE DEF h
<1>2. /\ at' = [at EXCEPT ![h] = "answered"]
      /\ done' = [done EXCEPT ![h] = TRUE]
      /\ answers' = [answers EXCEPT ![h] = @ + 1]
  BY DEF h
<1>3. queue = <<>> /\ at[h] = "queued" /\ answers[h] = 0
  BY <1>1 DEF InOnePlace, Unanswered
<1>4. ConsoleTypes'
  BY SMTT(20), <1>1, <1>2
<1>5. InOnePlace'
  BY SMTT(20), <1>1, <1>2, <1>3, NoMembers DEF InOnePlace
<1>6. Unanswered' /\ D!AnsweredOnce'
  BY SMTT(20), <1>1, <1>2, <1>3 DEF Unanswered, D!AnsweredOnce
<1> QED
  BY <1>4, <1>5, <1>6

LEMMA ConsoleNext == ConsoleInv /\ [D!Next]_(D!vars) => ConsoleInv'
<1> SUFFICES ASSUME ConsoleInv, [D!Next]_(D!vars) PROVE ConsoleInv'
  OBVIOUS
<1>1. CASE \E r \in D!Request : \/ D!amiga_console_SendIO(r)
                              \/ D!amiga_console_WaitIO(r)
                              \/ D!amiga_console_AbortIO(r)
  BY <1>1, SendInv, WaitInv, AbortInv
<1>2. CASE D!WorkerStep
  BY <1>2, TakeInv, ServeInv, CompleteInv DEF D!WorkerStep
<1>3. CASE D!amiga_console_CloseDevice
  BY <1>3, CloseInv
<1>4. CASE D!CloseDrains
  BY <1>4, DrainInv
<1>5. CASE D!CloseJoins \/ D!amiga_console_FeedInput \/ UNCHANGED D!vars
  BY <1>5 DEF D!CloseJoins, D!amiga_console_FeedInput, D!vars, ConsoleInv, ConsoleTypes,
              InOnePlace, Unanswered, D!AnsweredOnce
<1> QED
  BY <1>1, <1>2, <1>3, <1>4, <1>5 DEF D!Next, D!CloseStep

\* Whatever the order in which worker, aborts and close reach a request,
\* ConsoleInv holds in every reachable state.
THEOREM ConsoleInductive == 0 \notin D!Request => (D!Spec => []ConsoleInv)
<1> SUFFICES ASSUME 0 \notin D!Request PROVE D!Spec => []ConsoleInv
  OBVIOUS
<1>1. D!Init => ConsoleInv
  BY ConsoleInit
<1> QED
  BY <1>1, ConsoleNext, PTL DEF D!Spec

\* complete_request, AbortIO and the drain of CloseDevice between them answer
\* a request at most once.
THEOREM RequestsAnsweredOnce == 0 \notin D!Request => (D!Spec => []D!AnsweredOnce)
<1> SUFFICES ASSUME 0 \notin D!Request PROVE D!Spec => []D!AnsweredOnce
  OBVIOUS
<1>1. D!Spec => []ConsoleInv
  BY ConsoleInductive
<1>2. ConsoleInv => D!AnsweredOnce
  BY DEF ConsoleInv
<1> QED
  BY <1>1, <1>2, PTL
=============================================================================
