---------------------------- MODULE BrokerPorts ----------------------------
(***************************************************************************)
(* Public message ports of ace-broker (src/src/broker.c): the registry of  *)
(* port names, the delivery channel of each process, the messages that     *)
(* have been delivered and not yet replied to, and the broadcast history.  *)
(*                                                                         *)
(* A sender waits in WaitPort(), which has no timeout, so the broker owes  *)
(* every message it accepts one outcome: the reply, or ABANDONED when the  *)
(* port, its owner's channel or its owner's connection goes away first.    *)
(*                                                                         *)
(* Abstracted: payloads, passed descriptors, responses to requests, and    *)
(* the order of the records one handler pushes to one channel for several  *)
(* abandoned messages: a channel's stream is a sequence of bursts, one per *)
(* handler, each the set of records pushed.  A request that is refused     *)
(* changes nothing and is no action.  A write to a peer that has gone      *)
(* fails (SIGPIPE is ignored); a peer that is there takes what it is sent. *)
(***************************************************************************)
EXTENDS Naturals, Sequences, FiniteSets

CONSTANTS
    Fd,             \* descriptors of connections, which the kernel reuses
    Pid,            \* client processes (SO_PEERCRED)
    Name,           \* port names
    NoPid, NoFd,
    MaxPorts,       \* MAX_PORTS
    MaxChannels,    \* MAX_PORT_CHANNELS
    MaxMessages,    \* MAX_PORT_MESSAGES
    MaxEvents,      \* MAX_BROADCAST_EVENTS
    LastPort, LastMessage, LastEvent    \* bounds on what is ever created

ASSUME PortConstants ==
    /\ NoPid \notin Pid
    /\ NoFd \notin Fd
    /\ {MaxPorts, MaxChannels, MaxMessages, MaxEvents} \subseteq Nat \ {0}
    /\ {LastPort, LastMessage, LastEvent} \subseteq Nat

VARIABLES
    conn,       \* conn[c]: the process at the other end, NoPid when closed
    alive,      \* connections whose peer has not closed its end
    attached,   \* connections with a port_channel_id, even a replaced one
    dropping,   \* the connection whose handler failed, about to be dropped
    ports,      \* the port table: [id, fd, pid, name]
    channels,   \* the channel table: [fd, pid]
    messages,   \* the message table: [id, port, sender, owner]
    nextPort, nextMessage,
    stream,     \* stream[c]: every burst pushed down connection c
    events,     \* broadcast_events, oldest first
    said,       \* history: every broadcast the broker has accepted
    asked       \* history: <<id, c>>, message id's outcome is owed to c

vars == <<conn, alive, attached, dropping, ports, channels, messages,
          nextPort, nextMessage, stream, events, said, asked>>

Put(m)       == [op |-> "put", id |-> m.id, port |-> m.port]
Answer(m)    == [op |-> "reply", id |-> m.id, port |-> m.port]
Abandoned(m) == [op |-> "abandoned", id |-> m.id, port |-> m.port]
Broadcast(e) == [op |-> "broadcast", event |-> e]

Port    == [id : Nat, fd : Fd, pid : Pid, name : Name]
Channel == [fd : Fd, pid : Pid]
Message == [id : Nat, port : Nat, sender : Fd, owner : Pid]
Event   == [n : Nat, by : Pid]
Record  == [op : {"put", "reply", "abandoned"}, id : Nat, port : Nat]
               \cup [op : {"broadcast"}, event : Event]

TypeOK ==
    /\ conn \in [Fd -> Pid \cup {NoPid}]
    /\ alive \subseteq Fd
    /\ attached \subseteq Fd
    /\ dropping \in Fd \cup {NoFd}
    /\ ports \subseteq Port
    /\ channels \subseteq Channel
    /\ messages \subseteq Message
    /\ nextPort \in Nat
    /\ nextMessage \in Nat
    /\ stream \in [Fd -> Seq(SUBSET Record)]
    /\ events \in Seq(Event)
    /\ said \in Seq(Event)
    /\ asked \subseteq Nat \X Fd

Init ==
    /\ conn = [c \in Fd |-> NoPid]
    /\ alive = {}
    /\ attached = {}
    /\ dropping = NoFd
    /\ ports = {}
    /\ channels = {}
    /\ messages = {}
    /\ nextPort = 1
    /\ nextMessage = 1
    /\ stream = [c \in Fd |-> <<>>]
    /\ events = <<>>
    /\ said = <<>>
    /\ asked = {}

-----------------------------------------------------------------------------
\* push_port_record(), for one burst: it fails when the peer has gone.
Pushed(st, c, burst) ==
    IF c \in alive THEN [st EXCEPT ![c] = Append(@, burst)] ELSE st

\* Mutant: what happened before ABANDONED existed.
TellNobody(st, gone) == st

\* abandon_port_message() for each message of `gone': the sender is told.
Told(st, gone) ==
    [c \in Fd |->
        LET mine == {m \in gone : m.sender = c}
        IN  IF c \in alive /\ mine # {}
            THEN Append(st[c], {Abandoned(m) : m \in mine})
            ELSE st[c]]

\* Mutant: a port or a channel goes without a look at the message table.
NoMessages(key) == {}

\* abandon_messages_for_port() ends these,
MessagesForPort(id) == {m \in messages : m.port = id}

\* and abandon_messages_for_owner() these.
MessagesForOwner(pid) == {m \in messages : m.owner = pid}

\* Mutant: a newcomer is not told what was broadcast before it.
ReplayNothing(c) == <<>>

\* replay_broadcast_events(), after a response that could be written.
Replay(c) ==
    IF c \in alive THEN [i \in 1..Len(events) |-> {Broadcast(events[i])}]
                   ELSE <<>>

\* Mutant: the sender is recorded by pid.
MessageByPid(port, from) ==
    [id |-> nextMessage, port |-> port.id, sender |-> from.pid,
     owner |-> port.pid]

\* The entry PORT_PUT makes for a message to a port: the sender is recorded by
\* connection rather than by pid.
NewMessage(port, from) ==
    [id |-> nextMessage, port |-> port.id, sender |-> from.fd,
     owner |-> port.pid]

\* handle_client() reads a whole request from c.  What a peer sent before it
\* closed is still served; writing the response to it fails, handle_client()
\* returns -1 and the poll loop drops the connection before it does anything
\* else.
Serving(c) ==
    /\ conn[c] # NoPid
    /\ dropping = NoFd
    /\ dropping' = IF c \in alive THEN NoFd ELSE c

Registry == <<ports, channels, messages, nextPort, nextMessage, events>>

\* accept_connection()
Accept(c, p) ==
    /\ conn[c] = NoPid
    /\ dropping = NoFd
    /\ conn' = [conn EXCEPT ![c] = p]
    /\ alive' = alive \cup {c}
    /\ UNCHANGED <<attached, dropping, Registry, stream, said, asked>>

\* The process closes its end, exits or is killed.
HangUp(c) ==
    /\ c \in alive
    /\ alive' = alive \ {c}
    /\ UNCHANGED <<conn, attached, dropping, Registry, stream, said, asked>>

\* PORT_ADD, add_port(): one port per name.
PortAdd(c, n) ==
    /\ Serving(c)
    /\ nextPort <= LastPort
    /\ \A p \in ports : p.name # n
    /\ Cardinality(ports) < MaxPorts
    /\ ports' = ports \cup
           {[id |-> nextPort, fd |-> c, pid |-> conn[c], name |-> n]}
    /\ nextPort' = nextPort + 1
    /\ UNCHANGED <<conn, alive, attached, channels, messages, nextMessage,
                   stream, events, said, asked>>

\* PORT_REM: whoever asks, the port goes and its messages are abandoned.
PortRem(c, id) ==
    /\ Serving(c)
    /\ \E p \in ports : p.id = id
    /\ ports' = {p \in ports : p.id # id}
    /\ messages' = messages \ MessagesForPort(id)
    /\ stream' = Told(stream, MessagesForPort(id))
    /\ UNCHANGED <<conn, alive, attached, channels, nextPort, nextMessage,
                   events, said, asked>>

\* PORT_ATTACH, attach_port_channel(): c becomes the channel of its process in
\* place of an earlier one, whose undelivered conversations end; after the
\* response the broadcast history is replayed down c.
PortAttach(c) ==
    LET pid      == conn[c]
        existing == {h \in channels : h.pid = pid}
        gone     == IF existing = {} THEN {} ELSE MessagesForOwner(pid)
        told     == Told(stream, gone)
    IN /\ Serving(c)
       /\ c \notin attached
       /\ Cardinality(channels \ existing) < MaxChannels
       /\ attached' = attached \cup {c}
       /\ channels' = (channels \ existing) \cup {[fd |-> c, pid |-> pid]}
       /\ messages' = messages \ gone
       /\ stream' = [told EXCEPT ![c] = @ \o Replay(c)]
       /\ UNCHANGED <<conn, alive, ports, nextPort, nextMessage, events, said,
                      asked>>

\* PORT_PUT to a name: both ends need a channel.  When the owner's channel
\* cannot be written the message is forgotten and the caller is told EIO.
PortPut(c, n) ==
    /\ Serving(c)
    /\ nextMessage <= LastMessage
    /\ Cardinality(messages) < MaxMessages
    /\ \E p \in ports, to \in channels, from \in channels :
        LET m == NewMessage(p, from)
        IN /\ p.name = n
           /\ to.pid = p.pid
           /\ from.pid = conn[c]
           /\ nextMessage' = nextMessage + 1
           /\ stream' = Pushed(stream, to.fd, {Put(m)})
           /\ IF to.fd \in alive
              THEN /\ messages' = messages \cup {m}
                   /\ asked' = asked \cup {<<m.id, m.sender>>}
              ELSE UNCHANGED <<messages, asked>>
    /\ UNCHANGED <<conn, alive, attached, ports, channels, nextPort, events,
                   said>>

\* Mutant: an answered message is not cleared.
PortReplyKeeps(c, id) ==
    /\ Serving(c)
    /\ \E m \in messages :
        /\ m.id = id
        /\ conn[c] = m.owner
        /\ messages' = messages
        /\ stream' = Pushed(stream, m.sender, {Answer(m)})
    /\ UNCHANGED <<conn, alive, attached, ports, channels, nextPort,
                   nextMessage, events, said, asked>>

\* PORT_REPLY: only the process the message was delivered to may answer; the
\* message is cleared whether or not the reply could be written.
PortReply(c, id) ==
    /\ Serving(c)
    /\ \E m \in messages :
        /\ m.id = id
        /\ conn[c] = m.owner
        /\ messages' = messages \ {m}
        /\ stream' = Pushed(stream, m.sender, {Answer(m)})
    /\ UNCHANGED <<conn, alive, attached, ports, channels, nextPort,
                   nextMessage, events, said, asked>>

\* PORT_BROADCAST: remember_broadcast_event() keeps the last MaxEvents, then
\* every channel but the sender's is given the event.
PortBroadcast(c) ==
    LET e == [n |-> Len(said) + 1, by |-> conn[c]]
        kept == IF Len(events) = MaxEvents THEN Tail(events) ELSE events
        others == {h.fd : h \in {h \in channels : h.pid # conn[c]}}
    IN /\ Serving(c)
       /\ Len(said) < LastEvent
       /\ events' = Append(kept, e)
       /\ said' = Append(said, e)
       /\ stream' = [d \in Fd |-> IF d \in others \cap alive
                                  THEN Append(stream[d], {Broadcast(e)})
                                  ELSE stream[d]]
       /\ UNCHANGED <<conn, alive, attached, ports, channels, messages,
                      nextPort, nextMessage, asked>>

\* What drop_connection_ports() and drop_connection_port_channels() abandon.
Orphans(c) ==
    {m \in messages :
        \/ \E p \in ports : p.fd = c /\ m \in MessagesForPort(p.id)
        \/ \E h \in channels : h.fd = c /\ m \in MessagesForOwner(h.pid)}

\* drop_connection(), after a hangup, a failed handler or a request that could
\* not be parsed: ports first, then channels, then what c itself was owed.
Drop(c) ==
    LET gone == Orphans(c)
    IN /\ conn[c] # NoPid
       /\ dropping \in {NoFd, c}
       /\ dropping' = NoFd
       /\ ports' = {p \in ports : p.fd # c}
       /\ channels' = {h \in channels : h.fd # c}
       /\ messages' = {m \in messages \ gone : m.sender # c}
       /\ stream' = [Told(stream, gone) EXCEPT ![c] = <<>>]
       /\ conn' = [conn EXCEPT ![c] = NoPid]
       /\ alive' = alive \ {c}
       /\ attached' = attached \ {c}
       /\ asked' = {a \in asked : a[2] # c}
       /\ UNCHANGED <<nextPort, nextMessage, events, said>>

Next ==
    \E c \in Fd :
        \/ \E p \in Pid : Accept(c, p)
        \/ HangUp(c)
        \/ Drop(c)
        \/ PortAttach(c)
        \/ \E n \in Name : PortAdd(c, n) \/ PortPut(c, n)
        \/ \E id \in 1..LastPort : PortRem(c, id)
        \/ \E id \in 1..LastMessage : PortReply(c, id)
        \/ PortBroadcast(c)

Spec == Init /\ [][Next]_vars

DropHungUp(c) == c \notin alive /\ Drop(c)

\* poll() goes on reporting a connection whose peer has closed until it has been
\* dropped, and every pass of the loop visits every connection that is reported,
\* whatever happens to the others: strong fairness, because a failed handler's
\* own drop comes before the next connection's.
Fairness == \A c \in Fd : SF_vars(DropHungUp(c))

FairSpec == Spec /\ Fairness

-----------------------------------------------------------------------------
(***************************************************************************)
(* Properties                                                              *)
(***************************************************************************)

\* The handler of a message in the table can still run and its outcome can
\* still be sent: the port is registered by the owner, the owner has a channel,
\* and the sender's connection is open.  So no message sits in the table with
\* nobody left to end it, and no outcome goes to a descriptor that the kernel
\* has given to somebody else.
Answerable ==
    \A m \in messages :
        /\ \E p \in ports : p.id = m.port /\ p.pid = m.owner
        /\ \E h \in channels : h.pid = m.owner
        /\ conn[m.sender] # NoPid
        /\ <<m.id, m.sender>> \in asked

\* The burst holds an outcome of message id.
Ends(id, burst) ==
    \E r \in burst : r.op \in {"reply", "abandoned"} /\ r.id = id

\* The bursts of a stream that end message id.
Outcomes(id, q) == {k \in 1..Len(q) : Ends(id, q[k])}

\* Every message the broker accepted is either still in the table and has had no
\* outcome, or has had exactly one, for as long as the connection it is owed to
\* is up: "silently forgetting it leaves the sender waiting for the life of the
\* process", and a second outcome would be taken for another message's.
OneOutcomeEach ==
    \A a \in asked :
        a[2] \in alive =>
            IF \E m \in messages : m.id = a[1]
            THEN Outcomes(a[1], stream[a[2]]) = {}
            ELSE \E k \in 1..Len(stream[a[2]]) :
                     Outcomes(a[1], stream[a[2]]) = {k}

\* A message in the table is in the stream of the channel its owner reads now,
\* once: a process that replaced its channel (exec) is never owed for a message
\* that went down the old one.
InFlightIsDelivered ==
    \A m \in messages, h \in channels :
        h.pid = m.owner =>
            \E k \in 1..Len(stream[h.fd]) :
                /\ Put(m) \in stream[h.fd][k]
                /\ \A j \in 1..Len(stream[h.fd]) :
                       Put(m) \in stream[h.fd][j] => j = k

\* The bursts of a stream that carry the broadcast e.
News(e, q) == {k \in 1..Len(q) : Broadcast(e) \in q[k]}

\* A channel hears what the other processes broadcast in the order the broker
\* accepted it, nothing twice and nothing left out between the replay and the
\* first live event, back to the oldest event still remembered when it attached.
HearsInOrder ==
    \A h \in channels :
        h.fd \in alive =>
            /\ \A m, n \in 1..Len(said) :
                   \A i \in News(said[m], stream[h.fd]), j \in News(said[n], stream[h.fd]) :
                       i < j <=> m < n
            /\ \E k \in 0..Len(said) :
                   /\ k + MaxEvents <= Len(said) \/ k = 0
                   /\ \A n \in 1..Len(said) :
                          said[n].by # h.pid =>
                              (News(said[n], stream[h.fd]) # {} <=> n > k)
            /\ \A i \in 1..Len(stream[h.fd]) : \A r \in stream[h.fd][i] :
                   r.op = "broadcast" => \E n \in 1..Len(said) : r.event = said[n]

\* The conversation about message id, as its sender sees it.
Conversation(id) ==
    LET owed == {c \in alive : <<id, c>> \in asked}
        got(op) == \E c \in owed : \E k \in 1..Len(stream[c]) :
                      \E r \in stream[c][k] : r.op = op /\ r.id = id
    IN  IF id >= nextMessage THEN "unsent"
        ELSE IF owed = {} THEN "forgotten"
        ELSE IF \E m \in messages : m.id = id THEN "pending"
        ELSE IF got("reply") THEN "replied"
        ELSE IF got("abandoned") THEN "abandoned"
        ELSE "lost"

Promise == INSTANCE PortConversation
               WITH Id <- 1..LastMessage,
                    state <- [id \in 1..LastMessage |-> Conversation(id)]

\* The registry, the channels and the streams together implement the promise to
\* a sender: one outcome, reply or abandoned, final, whatever interleaving of
\* requests, hangups and drops leads to it.
KeepsThePromise == Promise!Spec

HungUp(id) ==
    \E m \in messages :
        /\ m.id = id
        /\ \/ \E p \in ports : p.id = m.port /\ p.fd \notin alive
           \/ \E h \in channels : h.pid = m.owner /\ h.fd \notin alive
Ended(id) == \A m \in messages : m.id # id

\* Once the connection that registered the port, or the owner's channel, has
\* hung up, a message to it does not stay in the table: its sender is told.
HangUpEndsConversations == \A id \in 1..LastMessage : HungUp(id) ~> Ended(id)
=============================================================================
