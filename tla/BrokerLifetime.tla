--------------------------- MODULE BrokerLifetime ---------------------------
(***************************************************************************)
(* The life of the broker behind one socket path: how clients start it     *)
(* (native_broker_ensure of src/src/broker_client.c), how it takes the     *)
(* path, serves and leaves (main, accept_connection, drop_connection and   *)
(* stop_server of src/src/broker.c), and what happens when it is killed.   *)
(*                                                                         *)
(* Two locks are involved: clients serialise starting a broker with        *)
(* <socket>.start.lock, and a broker holds <socket>.lock for life.  Both   *)
(* go with the process that holds them.  Time is abstract: a deadline that *)
(* is set may have passed whenever it is looked at.                        *)
(*                                                                         *)
(* A connection is its client and whether the client still has it open.    *)
(* Probing the socket (broker_is_reachable) makes one that is closed at    *)
(* once; several of one client's are not told apart.                       *)
(***************************************************************************)
EXTENDS Naturals, FiniteSets

CONSTANTS
    Client,         \* processes that use the broker
    Broker,         \* the broker processes ever started: a bound
    None,
    MaxConnections  \* MAX_CONNECTIONS

ASSUME LifetimeConstants ==
    /\ None \notin Client \cup Broker
    /\ MaxConnections \in Nat \ {0}

VARIABLES
    stage,      \* where each broker process is
    lock,       \* the broker holding <socket>.lock
    path,       \* the broker whose socket is at the path, even if it is gone
    backlog,    \* connections a broker has not accepted yet
    conns,      \* connections a broker has accepted
    woken,      \* what poll() reported: [hup, new]
    startLock,  \* the client holding <socket>.start.lock
    child,      \* the broker each client has started
    client      \* where each client is

vars == <<stage, lock, path, backlog, conns, woken, startLock, child, client>>

Connection == Client \X {"open", "closed"}
Asleep     == [hup |-> {}, new |-> FALSE]

\* Brokers whose server_fd is open and listening.
Listening == {b \in Broker : stage[b] \in {"polling", "woken", "idle", "stopping"}}

TypeOK ==
    /\ stage \in [Broker -> {"unborn", "started", "locked", "polling", "woken",
                             "idle", "stopping", "deaf", "unlinked", "gone"}]
    /\ lock \in Broker \cup {None}
    /\ path \in Broker \cup {None}
    /\ backlog \in [Broker -> SUBSET Connection]
    /\ conns \in [Broker -> SUBSET Connection]
    /\ \A b \in Broker : Cardinality(conns[b]) <= MaxConnections
    /\ woken \in [Broker -> [hup : SUBSET Connection, new : BOOLEAN]]
    /\ startLock \in Client \cup {None}
    /\ child \in [Client -> Broker \cup {None}]
    /\ client \in [Client -> {"away", "blocked", "starting", "waiting",
                              "ensured", "connected", "failed"}]

Init ==
    /\ stage = [b \in Broker |-> "unborn"]
    /\ lock = None
    /\ path = None
    /\ backlog = [b \in Broker |-> {}]
    /\ conns = [b \in Broker |-> {}]
    /\ woken = [b \in Broker |-> Asleep]
    /\ startLock = None
    /\ child = [c \in Client |-> None]
    /\ client = [c \in Client |-> "away"]

-----------------------------------------------------------------------------
\* The client.

Reachable == path \in Listening

\* connect(): the connection waits in the backlog of the broker at the path.
Connects(c, how) == backlog' = [backlog EXCEPT ![path] = @ \cup {<<c, how>>}]

\* The bound on brokers leaves one for every client that may yet start one.
BrokersLeft ==
    Cardinality({b \in Broker : stage[b] = "unborn"})
      > Cardinality({c \in Client : client[c] \in {"blocked", "starting"}})

Move(c, to) == client' = [client EXCEPT ![c] = to]

\* native_broker_ensure: nothing to do when the broker is reachable ...
Ensure(c) ==
    /\ client[c] = "away"
    /\ BrokersLeft
    /\ \/ Reachable /\ Connects(c, "closed") /\ Move(c, "ensured")
       \/ ~Reachable /\ Move(c, "blocked") /\ UNCHANGED backlog
    /\ UNCHANGED <<stage, lock, path, conns, woken, startLock, child>>

\* ... or else the start lock is taken ...
TakeStartLock(c) ==
    /\ client[c] = "blocked"
    /\ startLock = None
    /\ startLock' = c
    /\ Move(c, "starting")
    /\ UNCHANGED <<stage, lock, path, backlog, conns, woken, child>>

\* Mutant: the start lock is not given back on this path.
FindStartedKeepingLock(c) ==
    /\ client[c] = "starting"
    /\ Reachable
    /\ Connects(c, "closed")
    /\ Move(c, "ensured")
    /\ UNCHANGED <<stage, lock, path, conns, woken, startLock, child>>

\* ... somebody may have started a broker in the meantime ...
FindStarted(c) ==
    /\ client[c] = "starting"
    /\ Reachable
    /\ Connects(c, "closed")
    /\ startLock' = None
    /\ Move(c, "ensured")
    /\ UNCHANGED <<stage, lock, path, conns, woken, child>>

\* ... or this client does ...
StartBroker(c) ==
    /\ client[c] = "starting"
    /\ ~Reachable
    /\ \E b \in Broker :
         /\ stage[b] = "unborn"
         /\ stage' = [stage EXCEPT ![b] = "started"]
         /\ child' = [child EXCEPT ![c] = b]
    /\ Move(c, "waiting")
    /\ UNCHANGED <<lock, path, backlog, conns, woken, startLock>>

\* ... and waits, holding the lock, until it can be reached.
SeeStarted(c) ==
    /\ client[c] = "waiting"
    /\ Reachable
    /\ Connects(c, "closed")
    /\ startLock' = None
    /\ Move(c, "ensured")
    /\ UNCHANGED <<stage, lock, path, conns, woken, child>>

\* The broker's connections close with it, and it gives up its lock.
Dies(b) ==
    /\ stage' = [stage EXCEPT ![b] = "gone"]
    /\ lock' = IF lock = b THEN None ELSE lock
    /\ backlog' = [backlog EXCEPT ![b] = {}]
    /\ conns' = [conns EXCEPT ![b] = {}]
    /\ woken' = [woken EXCEPT ![b] = Asleep]

\* SIGTERM ends a broker, through stop_server once main has installed it.
Terminates(b) ==
    \/ /\ stage[b] \in {"started", "locked"}
       /\ Dies(b)
       /\ path' \in IF stage[b] = "locked" THEN {path, None} ELSE {path}
    \/ /\ stage[b] \in {"polling", "woken", "idle"}
       /\ stage' = [stage EXCEPT ![b] = "stopping"]
       /\ UNCHANGED <<lock, path, backlog, conns, woken>>
    \/ /\ stage[b] \in {"stopping", "deaf", "unlinked", "gone"}
       /\ UNCHANGED <<stage, lock, path, backlog, conns, woken>>

\* A hundred tries without an answer: the child is told to go.
GiveUp(c) ==
    /\ client[c] = "waiting"
    /\ ~Reachable
    /\ Terminates(child[c])
    /\ startLock' = None
    /\ Move(c, "failed")
    /\ UNCHANGED child

\* broker_connection.
Connect(c) ==
    /\ client[c] = "ensured"
    /\ \/ Reachable /\ Connects(c, "open") /\ Move(c, "connected")
       \/ ~Reachable /\ Move(c, "away") /\ UNCHANGED backlog
    /\ UNCHANGED <<stage, lock, path, conns, woken, startLock, child>>

HeldBy(c) == {b \in Broker : <<c, "open">> \in backlog[b] \cup conns[b]}

\* A request finds the connection dead: it is dropped and opened again.
Reconnect(c) ==
    /\ client[c] = "connected"
    /\ HeldBy(c) = {}
    /\ Move(c, "away")
    /\ UNCHANGED <<stage, lock, path, backlog, conns, woken, startLock, child>>

\* The client exits, or is killed, wherever it is; what it holds is closed.
Closed(S, c) == {<<k[1], IF k[1] = c THEN "closed" ELSE k[2]>> : k \in S}

Leave(c) ==
    /\ client[c] \in {"connected", "blocked", "starting", "waiting", "failed"}
    /\ Move(c, "away")
    /\ backlog' = [b \in Broker |-> Closed(backlog[b], c)]
    /\ conns' = [b \in Broker |-> Closed(conns[b], c)]
    /\ startLock' = IF startLock = c THEN None ELSE startLock
    /\ UNCHANGED <<stage, lock, path, woken, child>>

-----------------------------------------------------------------------------
\* The broker.

\* Mutant: the lock file is not locked.
TakeLockRegardless(b) ==
    /\ stage[b] = "started"
    /\ lock' = b
    /\ stage' = [stage EXCEPT ![b] = "locked"]
    /\ UNCHANGED <<path, backlog, conns, woken, startLock, child, client>>

\* acquire_socket_lock and main: a second broker for the path leaves at once.
TakeLock(b) ==
    /\ stage[b] = "started"
    /\ \/ /\ lock = None
          /\ lock' = b
          /\ stage' = [stage EXCEPT ![b] = "locked"]
       \/ /\ lock # None
          /\ stage' = [stage EXCEPT ![b] = "gone"]
          /\ UNCHANGED lock
    /\ UNCHANGED <<path, backlog, conns, woken, startLock, child, client>>

\* main: whatever is at the path is removed, and the broker's socket put there.
Listen(b) ==
    /\ stage[b] = "locked"
    /\ path' = b
    /\ stage' = [stage EXCEPT ![b] = "polling"]
    /\ UNCHANGED <<lock, backlog, conns, woken, startLock, child, client>>

\* Mutant: held connections are not watched.
WakeForNewOnly(b) ==
    /\ stage[b] = "polling"
    /\ woken' = [woken EXCEPT ![b] = [hup |-> {}, new |-> backlog[b] # {}]]
    /\ stage' = [stage EXCEPT ![b] = "woken"]
    /\ UNCHANGED <<lock, path, backlog, conns, startLock, child, client>>

\* poll() returns: with what is ready, or with nothing when its time is up.
Wake(b) ==
    /\ stage[b] = "polling"
    /\ woken' = [woken EXCEPT ![b] =
                   [hup |-> {k \in conns[b] : k[2] = "closed"},
                    new |-> backlog[b] # {}]]
    /\ stage' = [stage EXCEPT ![b] = "woken"]
    /\ UNCHANGED <<lock, path, backlog, conns, startLock, child, client>>

\* Mutant: the table is not checked for room.
PassUnbounded(b, held) ==
    LET kept == conns[b] \ woken[b].hup IN
    /\ stage[b] = "woken"
    /\ \/ ~woken[b].new /\ held = kept /\ UNCHANGED backlog
       \/ /\ woken[b].new
          /\ \E k \in backlog[b] :
               /\ backlog' = [backlog EXCEPT ![b] = @ \ {k}]
               /\ held = kept \cup {k}
    /\ conns' = [conns EXCEPT ![b] = held]
    /\ woken' = [woken EXCEPT ![b] = Asleep]
    /\ UNCHANGED <<lock, path, startLock, child, client>>

\* One pass of main's loop: every connection that has hung up is dropped
\* (drop_connection), then one that is waiting is accepted or, when the table
\* is full, refused (accept_connection).  held is what is left of the table.
Pass(b, held) ==
    LET kept == conns[b] \ woken[b].hup IN
    /\ stage[b] = "woken"
    /\ \/ ~woken[b].new /\ held = kept /\ UNCHANGED backlog
       \/ /\ woken[b].new
          /\ \E k \in backlog[b] :
               /\ backlog' = [backlog EXCEPT ![b] = @ \ {k}]
               /\ held = IF Cardinality(kept) < MaxConnections
                           THEN kept \cup {k} ELSE kept
    /\ conns' = [conns EXCEPT ![b] = held]
    /\ woken' = [woken EXCEPT ![b] = Asleep]
    /\ UNCHANGED <<lock, path, startLock, child, client>>

Serve(b) ==
    /\ \E held \in SUBSET Connection : Pass(b, held)
    /\ stage' = [stage EXCEPT ![b] = "polling"]

\* Mutant: the deadline is looked at before the new connection is accepted.
IdleExitFirst(b) ==
    /\ conns[b] \ woken[b].hup = {}
    /\ \E held \in SUBSET Connection : Pass(b, held)
    /\ stage' = [stage EXCEPT ![b] = "idle"]

\* The deadline, set while the table is empty (refresh_idle_deadline), is
\* looked at last in the pass.
IdleExit(b) ==
    /\ Pass(b, {})
    /\ stage' = [stage EXCEPT ![b] = "idle"]

\* stop_server: the socket is closed, and with it what nobody accepted ...
CloseServer(b) ==
    /\ stage[b] \in {"idle", "stopping"}
    /\ stage' = [stage EXCEPT ![b] = "deaf"]
    /\ backlog' = [backlog EXCEPT ![b] = {}]
    /\ UNCHANGED <<lock, path, conns, woken, startLock, child, client>>

\* ... then whatever is at the path is removed ...
Unlink(b) ==
    /\ stage[b] = "deaf"
    /\ stage' = [stage EXCEPT ![b] = "unlinked"]
    /\ path' = None
    /\ UNCHANGED <<lock, backlog, conns, woken, startLock, child, client>>

\* ... and the process exits, which frees the lock.
ExitBroker(b) ==
    /\ stage[b] = "unlinked"
    /\ Dies(b)
    /\ UNCHANGED <<path, startLock, child, client>>

\* broker-stop sends SIGTERM; anything may kill the broker outright.
Terminate(b) ==
    /\ stage[b] \in {"started", "locked", "polling", "woken", "idle"}
    /\ Terminates(b)
    /\ UNCHANGED <<startLock, child, client>>

Crash(b) ==
    /\ stage[b] \notin {"unborn", "gone"}
    /\ Dies(b)
    /\ UNCHANGED <<path, startLock, child, client>>

-----------------------------------------------------------------------------
ClientStep(c) ==
    \/ Ensure(c) \/ TakeStartLock(c) \/ FindStarted(c) \/ StartBroker(c)
    \/ SeeStarted(c) \/ GiveUp(c) \/ Connect(c) \/ Reconnect(c) \/ Leave(c)

BrokerStep(b) ==
    \/ TakeLock(b) \/ Listen(b) \/ Wake(b) \/ Serve(b) \/ IdleExit(b)
    \/ CloseServer(b) \/ Unlink(b) \/ ExitBroker(b)

Next ==
    \/ \E c \in Client : ClientStep(c)
    \/ \E b \in Broker : BrokerStep(b) \/ Terminate(b) \/ Crash(b)

Spec == Init /\ [][Next]_vars

\* Both programs keep running.  The start lock is granted to whoever waits long
\* enough, and the wait for a broker ends after a hundred tries.  An empty table
\* keeps its deadline, so one that is found empty over and over meets it.
Fairness ==
    /\ \A c \in Client :
         /\ SF_vars(TakeStartLock(c))
         /\ WF_vars(FindStarted(c) \/ StartBroker(c))
         /\ WF_vars(SeeStarted(c) \/ GiveUp(c))
         /\ WF_vars(Connect(c))
    /\ \A b \in Broker :
         /\ WF_vars(BrokerStep(b))
         /\ SF_vars(IdleExit(b))

FairSpec == Spec /\ Fairness

-----------------------------------------------------------------------------
\* A broker that listens is the one at the path and holds the lock: no second
\* broker's unlink() strands it, as main's comment says used to happen.
NoStrandedBroker == \A b \in Listening : path = b /\ lock = b

\* A broker that leaves for idleness has no client connected that it accepted
\* (the check of idle_deadline comes after accept_connection in main).
IdleMeansNobody ==
    \A b \in Broker : stage[b] = "idle" => \A k \in conns[b] : k[2] = "closed"

\* native_broker_ensure returns, whoever else is starting or stopping a broker.
EnsureReturns ==
    \A c \in Client :
        client[c] = "blocked" ~> client[c] \notin {"blocked", "starting", "waiting"}

\* Once every client has gone for good, so has every broker: none is left
\* behind by a probe, a client that died early or a connection it never read
\* (the comment at idle_deadline).
NobodyLeftBehind ==
    <>[](\A c \in Client : client[c] \in {"away", "failed"})
        => <>[](\A b \in Broker : stage[b] \in {"unborn", "gone"})
=============================================================================
