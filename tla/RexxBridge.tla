----------------------------- MODULE RexxBridge -----------------------------
(***************************************************************************)
(* ARexx messages between processes (src/src/rexx_port_bridge.c, with      *)
(* CreatePort, DeletePort and PutMsg of src/src/aros_exec_runtime.c and    *)
(* the delivery thread of src/src/broker_client.c).                        *)
(*                                                                         *)
(* Every process has two threads that matter: the AROS thread, which       *)
(* creates and deletes ports, sends messages and replies to them, and the  *)
(* reader thread, which runs bridge_handler on each record the broker      *)
(* pushes down the process's delivery channel.  A call that makes a broker *)
(* request is split where the request is made: what the reader does in     *)
(* between is the point.                                                   *)
(*                                                                         *)
(* The broker's own part is the promise PortConversation, which            *)
(* BrokerPorts implements: conv is its state.  Messages are abstracted to  *)
(* their identity and to whether the result is a failure; a private        *)
(* message (Regina's resource requests) carries the name of a port of its  *)
(* sender, to which the process that gets it, RexxMast, sends it on.       *)
(*                                                                         *)
(* Left out: an empty command, which is answered on the spot and never     *)
(* sent, messages that are not RexxMsgs, and allocations that fail.        *)
(***************************************************************************)
EXTENDS Naturals, FiniteSets, SequencesExt

CONSTANTS
    Proc,           \* processes linked with the bridge
    Msg,            \* RexxMsgs, each sent at most once
    NoProc, NoMsg,
    MaxChannels,    \* MAX_PORT_CHANNELS
    MaxMessages,    \* MAX_PORT_MESSAGES
    LastPort,       \* bound on the ports ever registered
    LastId          \* bound on the messages the broker ever accepts

Id     == 1..LastId
PortId == 1..LastPort

VARIABLES
    up,         \* processes still running
    owner,      \* broker: owner[n] of port n, NoProc when n is not registered
    nextPort,   \* broker: the next port id
    channel,    \* broker: processes with a delivery channel
    conv,       \* broker: what became of each message id
    about,      \* broker: about[i], the sender and the port of message i, and
                \*   (history) the record it was sent for
    mail,       \* mail[p]: records pushed to p's channel and not yet read
    sent,       \* sent_messages of each process: [msg, ret, id]
    received,   \* received_messages of each process: [id, back]
    localPorts, \* local_ports of each process
    private,    \* port ids that name a private route (private_values)
    standIn,    \* messages queued on each process's remote_sender_port
    call,       \* where the AROS thread of each process is
    result      \* result[m]: what the sender of m has been told

broker == <<owner, nextPort, channel, conv, about, mail>>
vars   == <<up, owner, nextPort, channel, conv, about, mail, sent, received,
            localPorts, private, standIn, call, result>>

Promise == INSTANCE PortConversation WITH state <- conv

Idle   == [at |-> "idle"]
Record == [msg : Msg \cup {NoMsg}, ret : Id \cup {0}, id : Id \cup {0}]
Call   ==
    {Idle}
      \cup [at : {"added", "unpublished"}, port : PortId]
      \cup [at : {"recorded"}, record : Record, to : PortId, back : PortId \cup {0}]
      \cup [at : {"accepted"}, record : Record, id : Id]

TypeOK ==
    /\ up \subseteq Proc
    /\ channel \subseteq Proc
    /\ owner \in [PortId -> Proc \cup {NoProc}]
    /\ nextPort \in 1..(LastPort + 1)
    /\ Promise!TypeOK
    /\ \A i \in Id : conv[i] # "unsent" =>
         /\ about[i].from \in Proc
         /\ about[i].port \in PortId
         /\ about[i].record \in Record
    /\ \A p \in Proc :
         /\ sent[p] \subseteq Record
         /\ received[p] \subseteq [id : Id, back : PortId \cup {0}]
         /\ localPorts[p] \subseteq PortId
         /\ standIn[p] \subseteq Id
         /\ call[p] \in Call
    /\ private \subseteq PortId
    /\ result \in [Msg -> {"unsent", "waiting", "local", "ok", "fatal"}]

Init ==
    /\ up = Proc
    /\ owner = [n \in PortId |-> NoProc]
    /\ nextPort = 1
    /\ channel = {}
    /\ Promise!Init
    /\ about = <<>>
    /\ mail = [p \in Proc |-> <<>>]
    /\ sent = [p \in Proc |-> {}]
    /\ received = [p \in Proc |-> {}]
    /\ localPorts = [p \in Proc |-> {}]
    /\ private = {}
    /\ standIn = [p \in Proc |-> {}]
    /\ call = [p \in Proc |-> Idle]
    /\ result = [m \in Msg |-> "unsent"]

-----------------------------------------------------------------------------
\* The broker's side of a request.

\* PORT_ATTACH, which fails when the channel table is full.
CanAttach(p) == p \in channel \/ Cardinality(channel) < MaxChannels

\* ensure_channel, where the caller does not look at its result.
TryChannel(p) == channel' = IF CanAttach(p) THEN channel \cup {p} ELSE channel

Pending == {i \in Id : conv[i] = "pending"}

Pushed(p, r) == [mail EXCEPT ![p] = Append(@, r)]

\* PORT_REPLY: the outcome goes to the sender's channel.  An id the broker no
\* longer knows is ESRCH, which the bridge does not look at.
BrokerReply(i, rc) ==
    IF i \in Pending
    THEN /\ Promise!Reply(i)
         /\ mail' = Pushed(about[i].from, [op |-> "reply", id |-> i, rc |-> rc])
    ELSE UNCHANGED <<conv, mail>>

\* Every pending message in A is abandoned, in the order of the message table,
\* and every message in F is forgotten, its sender having gone.
BrokerDepart(A, F) ==
    /\ Promise!Depart(A \ F, F)
    /\ \E order \in SetToSeqs({[op |-> "abandoned", id |-> i, rc |-> "fatal"] : i \in A \ F}) :
         mail' = [p \in Proc |-> mail[p] \o
                    SelectSeq(order, LAMBDA r : about[r.id].from = p)]

-----------------------------------------------------------------------------
\* The AROS thread.

\* CreatePort: the name is registered with the broker ...
PortAdd(p) ==
    /\ p \in up /\ call[p] = Idle
    /\ nextPort \in PortId
    /\ owner' = [owner EXCEPT ![nextPort] = p]
    /\ nextPort' = nextPort + 1
    /\ call' = [call EXCEPT ![p] = [at |-> "added", port |-> nextPort]]
    /\ UNCHANGED <<up, channel, conv, about, mail, sent, received, localPorts,
                   private, standIn, result>>

\* ... and then recorded locally, so that deliveries find the port, and the
\* channel is opened unless it already is.
Published(p) ==
    /\ p \in up /\ call[p].at = "added"
    /\ localPorts' = [localPorts EXCEPT ![p] = @ \cup {call[p].port}]
    /\ TryChannel(p)
    /\ call' = [call EXCEPT ![p] = Idle]
    /\ UNCHANGED <<up, owner, nextPort, conv, about, mail, sent, received,
                   private, standIn, result>>

\* DeletePort: the port is forgotten locally ...
Unpublished(p) ==
    /\ p \in up /\ call[p] = Idle
    /\ \E n \in localPorts[p] \ private :
         /\ localPorts' = [localPorts EXCEPT ![p] = @ \ {n}]
         /\ call' = [call EXCEPT ![p] = [at |-> "unpublished", port |-> n]]
    /\ UNCHANGED <<up, broker, sent, received, private, standIn, result>>

\* ... and then with PORT_REM, which abandons what was sent to it.
PortRem(p) ==
    /\ p \in up /\ call[p].at = "unpublished"
    /\ owner' = [owner EXCEPT ![call[p].port] = NoProc]
    /\ BrokerDepart({i \in Pending : about[i].port = call[p].port}, {})
    /\ call' = [call EXCEPT ![p] = Idle]
    /\ UNCHANGED <<up, nextPort, channel, about, sent, received, localPorts,
                   private, standIn, result>>

\* private_port_route: the generated name is only ever told to the receiver of
\* the message being serialised, so nothing arrives for it before it is local.
PrivatePort(p) ==
    /\ p \in up /\ call[p] = Idle
    /\ nextPort \in PortId
    /\ localPorts[p] \cap private = {}
    /\ CanAttach(p)
    /\ owner' = [owner EXCEPT ![nextPort] = p]
    /\ nextPort' = nextPort + 1
    /\ localPorts' = [localPorts EXCEPT ![p] = @ \cup {nextPort}]
    /\ private' = private \cup {nextPort}
    /\ TryChannel(p)
    /\ UNCHANGED <<up, conv, about, mail, sent, received, standIn, call, result>>

\* The bound on message ids leaves one for every call that may yet take one.
IdsLeft ==
    Cardinality({i \in Id : conv[i] = "unsent"})
      > Cardinality({p \in Proc : call[p].at = "recorded"})

\* ace_rexx_port_forward records what it is about to send to port n.  The id is
\* not known yet: calloc leaves it 0.
Recorded(p, msg, ret, n, back) ==
    LET r == [msg |-> msg, ret |-> ret, id |-> 0]
    IN  /\ IdsLeft
        /\ sent' = [sent EXCEPT ![p] = @ \cup {r}]
        /\ call' = [call EXCEPT ![p] =
                      [at |-> "recorded", record |-> r, to |-> n, back |-> back]]

\* PutMsg to a port FindPort found in another process, now or earlier.
Forward(p, m) ==
    /\ p \in up /\ call[p] = Idle
    /\ result[m] = "unsent"
    /\ CanAttach(p)
    /\ TryChannel(p)
    /\ \E n \in 1..(nextPort - 1) \ private :
         /\ owner[n] # p
         /\ \E back \in {0} \cup (localPorts[p] \cap private) :
              Recorded(p, m, 0, n, back)
    /\ result' = [result EXCEPT ![m] = "waiting"]
    /\ UNCHANGED <<up, owner, nextPort, conv, about, mail, received, localPorts,
                   private, standIn>>

\* The same without a channel: the message is left to the local path, which
\* queues it on the stand-in port.
ForwardUnattached(p, m) ==
    /\ p \in up /\ call[p] = Idle
    /\ result[m] = "unsent"
    /\ ~CanAttach(p)
    /\ \E n \in 1..(nextPort - 1) \ private : owner[n] # p
    /\ result' = [result EXCEPT ![m] = "local"]
    /\ UNCHANGED <<up, broker, sent, received, localPorts, private, standIn, call>>

\* Mutant: a message that has been sent on may still be replied to.
HeldAfterForward(p, r) ==
    /\ r \in received[p]
    /\ r.id \notin standIn[p]

\* A message this process was given and still holds: neither sent on to its
\* private port nor queued on remote_sender_port.
Held(p, r) ==
    /\ r \in received[p]
    /\ \A s \in sent[p] : s.ret # r.id
    /\ r.id \notin standIn[p]

\* Mutant: any message is sent on, private or not.
ForwardPrivateAny(p, r) ==
    /\ p \in up /\ call[p] = Idle
    /\ Held(p, r)
    /\ Recorded(p, NoMsg, r.id, r.back, 0)
    /\ UNCHANGED <<up, broker, received, localPorts, private, standIn, result>>

\* PutMsg to the proxy of a private message: it is sent on to the port its
\* sender named.
ForwardPrivate(p, r) ==
    /\ p \in up /\ call[p] = Idle
    /\ Held(p, r)
    /\ r.back # 0
    /\ Recorded(p, NoMsg, r.id, r.back, 0)
    /\ UNCHANGED <<up, broker, received, localPorts, private, standIn, result>>

\* PORT_PUT finds the port and both channels, and has room.
Deliverable(p, n) ==
    /\ owner[n] \in channel
    /\ p \in channel
    /\ Cardinality(Pending) < MaxMessages

\* native_broker_port_put: the broker delivers the message and answers with its
\* id, which is on its way back to the caller.
PutAccepted(p) ==
    /\ p \in up /\ call[p].at = "recorded"
    /\ Deliverable(p, call[p].to)
    /\ LET i == CHOOSE j \in Id : conv[j] = "unsent" /\ \A k \in Id :
                  conv[k] = "unsent" => j <= k
       IN  /\ Promise!Ask(i)
           /\ about' = about @@ (i :> [from |-> p, port |-> call[p].to,
                                       record |-> call[p].record])
           /\ mail' = Pushed(owner[call[p].to],
                        [op |-> "put", id |-> i, port |-> call[p].to,
                         back |-> call[p].back])
           /\ call' = [call EXCEPT ![p] =
                         [at |-> "accepted", record |-> call[p].record, id |-> i]]
    /\ UNCHANGED <<up, owner, nextPort, channel, sent, received, localPorts,
                   private, standIn, result>>

\* Mutant: the result is left as it was, without RC_FATAL.
ReleaseAsItWas(p, r, rc) ==
    /\ result' = IF r.msg # NoMsg THEN [result EXCEPT ![r.msg] = "ok"] ELSE result
    /\ UNCHANGED standIn

\* release_sender.  A message that came from another process has
\* remote_sender_port for its reply port.
Release(p, r, rc) ==
    IF r.msg # NoMsg
    THEN /\ result' = [result EXCEPT ![r.msg] = rc]
         /\ UNCHANGED standIn
    ELSE /\ standIn' = [standIn EXCEPT ![p] = @ \cup {r.ret}]
         /\ UNCHANGED result

\* The broker refuses it: the record is unlinked and the caller released.
PutRefused(p) ==
    /\ p \in up /\ call[p].at = "recorded"
    /\ ~Deliverable(p, call[p].to)
    /\ sent' = [sent EXCEPT ![p] = @ \ {call[p].record}]
    /\ Release(p, call[p].record, "fatal")
    /\ call' = [call EXCEPT ![p] = Idle]
    /\ UNCHANGED <<up, broker, received, localPorts, private>>

\* Mutant: the id is never stored.
StoreNoId(p) ==
    /\ p \in up /\ call[p].at = "accepted"
    /\ call' = [call EXCEPT ![p] = Idle]
    /\ UNCHANGED <<up, broker, sent, received, localPorts, private, standIn, result>>

\* native_broker_port_put has returned: the record gets its id.
StoreId(p) ==
    /\ p \in up /\ call[p].at = "accepted"
    /\ sent' = [sent EXCEPT ![p] =
                  (@ \ {call[p].record}) \cup {[call[p].record EXCEPT !.id = call[p].id]}]
    /\ call' = [call EXCEPT ![p] = Idle]
    /\ UNCHANGED <<up, broker, received, localPorts, private, standIn, result>>

\* ReplyMsg on a message from another process (ace_rexx_port_reply).
Reply(p, r) ==
    /\ p \in up /\ call[p] = Idle
    /\ Held(p, r)
    /\ received' = [received EXCEPT ![p] = @ \ {r}]
    /\ BrokerReply(r.id, "ok")
    /\ UNCHANGED <<up, owner, nextPort, channel, about, sent, localPorts,
                   private, standIn, call, result>>

-----------------------------------------------------------------------------
\* The reader thread: bridge_handler on the first record of the channel.

Reads(p, op) ==
    /\ p \in up
    /\ mail[p] # <<>>
    /\ Head(mail[p]).op = op

\* Reads the record, and pushes an answer for message i.
ReadAndReply(p, i, rc) ==
    LET rest == [mail EXCEPT ![p] = Tail(@)]
    IN  IF i \in Pending
        THEN /\ Promise!Reply(i)
             /\ mail' = [rest EXCEPT ![about[i].from] =
                           Append(@, [op |-> "reply", id |-> i, rc |-> rc])]
        ELSE mail' = rest /\ UNCHANGED conv

JustRead(p) == mail' = [mail EXCEPT ![p] = Tail(@)] /\ UNCHANGED conv

\* A delivery for a port this process knows is queued on it.
TakePut(p) ==
    /\ Reads(p, "put")
    /\ LET r == Head(mail[p])
       IN  /\ r.port \in localPorts[p]
           /\ received' = [received EXCEPT ![p] = @ \cup {[id |-> r.id, back |-> r.back]}]
    /\ JustRead(p)
    /\ UNCHANGED <<up, owner, nextPort, channel, about, sent, localPorts, private,
                   standIn, call, result>>

\* Mutant: a delivery that cannot be rebuilt is dropped without an answer.
RejectPutSilently(p) ==
    /\ Reads(p, "put")
    /\ Head(mail[p]).port \in localPorts[p]
    /\ JustRead(p)
    /\ UNCHANGED <<up, owner, nextPort, channel, about, sent, received, localPorts,
                   private, standIn, call, result>>

\* A delivery that cannot be rebuilt here is answered with an empty payload.
RejectPut(p) ==
    /\ Reads(p, "put")
    /\ Head(mail[p]).port \in localPorts[p]
    /\ ReadAndReply(p, Head(mail[p]).id, "fatal")
    /\ UNCHANGED <<up, owner, nextPort, channel, about, sent, received, localPorts,
                   private, standIn, call, result>>

\* A delivery for any other port is dropped.
DropPut(p) ==
    /\ Reads(p, "put")
    /\ Head(mail[p]).port \notin localPorts[p]
    /\ JustRead(p)
    /\ UNCHANGED <<up, owner, nextPort, channel, about, sent, received, localPorts,
                   private, standIn, call, result>>

\* take_sent: the records that have the id of this outcome.
TakeSent(p, i) == {r \in sent[p] : r.id = i}

\* An outcome whose record is a message of this process releases it.
TakeOutcome(p) ==
    \E r \in TakeSent(p, Head(mail[p]).id) :
      /\ r.msg # NoMsg
      /\ sent' = [sent EXCEPT ![p] = @ \ {r}]
      /\ Release(p, r, Head(mail[p]).rc)
      /\ JustRead(p)
      /\ UNCHANGED <<up, owner, nextPort, channel, about, received, localPorts,
                     private, call>>

\* route_private_return: the outcome of a message that was sent on is the
\* answer to the message it was made from.
ReturnPrivate(p) ==
    \E r \in TakeSent(p, Head(mail[p]).id) :
      /\ r.ret # 0
      /\ sent' = [sent EXCEPT ![p] = @ \ {r}]
      /\ received' = [received EXCEPT ![p] = {q \in @ : q.id # r.ret}]
      /\ ReadAndReply(p, r.ret, Head(mail[p]).rc)
      /\ UNCHANGED <<up, owner, nextPort, channel, about, localPorts, private,
                     standIn, call, result>>

\* An outcome no record has the id of is dropped.
DropOutcome(p) ==
    /\ TakeSent(p, Head(mail[p]).id) = {}
    /\ JustRead(p)
    /\ UNCHANGED <<up, owner, nextPort, channel, about, sent, received, localPorts,
                   private, standIn, call, result>>

Outcome(p) ==
    /\ Reads(p, "reply") \/ Reads(p, "abandoned")
    /\ TakeOutcome(p) \/ ReturnPrivate(p) \/ DropOutcome(p)

\* A process exits or is killed, with everything it held.
Die(p) ==
    /\ p \in up
    /\ up' = up \ {p}
    /\ owner' = [n \in PortId |-> IF owner[n] = p THEN NoProc ELSE owner[n]]
    /\ channel' = channel \ {p}
    /\ BrokerDepart({i \in Pending : owner[about[i].port] = p},
                    {i \in Id : conv[i] # "unsent" /\ about[i].from = p})
    /\ sent' = [sent EXCEPT ![p] = {}]
    /\ received' = [received EXCEPT ![p] = {}]
    /\ localPorts' = [localPorts EXCEPT ![p] = {}]
    /\ standIn' = [standIn EXCEPT ![p] = {}]
    /\ call' = [call EXCEPT ![p] = Idle]
    /\ UNCHANGED <<nextPort, about, private, result>>

Thread(p) ==
    \/ Published(p) \/ PortRem(p)
    \/ PutAccepted(p) \/ PutRefused(p) \/ StoreId(p)

Reader(p) == TakePut(p) \/ RejectPut(p) \/ DropPut(p) \/ Outcome(p)

Answer(p) == \E r \in received[p] : Reply(p, r)

Next ==
    \E p \in Proc :
      \/ PortAdd(p) \/ PrivatePort(p) \/ Unpublished(p)
      \/ \E m \in Msg : Forward(p, m) \/ ForwardUnattached(p, m)
      \/ \E r \in received[p] : ForwardPrivate(p, r)
      \/ Answer(p) \/ Thread(p) \/ Reader(p)
      \/ Die(p)

Spec == Init /\ [][Next]_vars

\* Fairness: a thread inside a call goes on with it, a reader with a record to
\* read reads it, and a process holding a message gets round to replying (as
\* RexxMast does on every path).  Nothing makes a process send, create a port,
\* delete one or exit.
Fairness ==
    \A p \in Proc :
      WF_vars(Thread(p)) /\ WF_vars(Reader(p)) /\ WF_vars(Answer(p))

FairSpec == Spec /\ Fairness

-----------------------------------------------------------------------------
\* Process p's record of message i has its id.
HasRecord(p, i) == \E r \in sent[p] : r.id = i

\* Every message the broker still owes an outcome for can be found when the
\* outcome comes: its sender's sent_messages has exactly one record with its
\* id, except while the sender is between PORT_PUT's answer and storing the id.
RecordKept ==
    \A i \in Pending :
      LET p == about[i].from
      IN  IF call[p].at = "accepted" /\ call[p].id = i
          THEN call[p].record \in sent[p]
          ELSE Cardinality({r \in sent[p] : r.id = i}) = 1

\* A sender is released with what became of its own message: with success only
\* if that very message was replied to, and with RC_FATAL only if it was
\* replied to, abandoned or never accepted.
OwnOutcome ==
    \A m \in Msg :
      LET mine == {i \in Id : conv[i] # "unsent" /\ about[i].record.msg = m}
      IN  /\ result[m] = "ok" => \E i \in mine : conv[i] \in {"replied", "forgotten"}
          /\ result[m] = "fatal" =>
               \A i \in mine : conv[i] \in {"replied", "abandoned", "forgotten"}

\* A private message that has been sent on stays in received_messages until the
\* outcome of the second hop is returned: route_private_return finds it.
SentOnStaysReceived ==
    \A p \in Proc : \A s \in sent[p] :
      s.ret # 0 => \E r \in received[p] : r.id = s.ret

\* Process q is given message i, which is not private: it has it, or has yet to
\* read it and knows its port, or is about to remove that port.
Given(q, i) ==
    \/ [id |-> i, back |-> 0] \in received[q]
    \/ \E k \in 1..Len(mail[q]) :
         LET r == mail[q][k]
         IN  /\ r.op = "put" /\ r.id = i /\ r.back = 0
             /\ \/ r.port \in localPorts[q]
                \/ call[q] = [at |-> "unpublished", port |-> r.port]

AnswerDue(p, q, i) == i \in Pending /\ HasRecord(p, i) /\ Given(q, i)
Settled(p, i) == p \notin up \/ ~HasRecord(p, i)

\* Once a sender has stored its message's id and the receiver is given the
\* message, the sender is released, whether the receiver then replies, rejects
\* it, deletes the port or dies (a sender that dies needs no answer).
GivenIsAnswered ==
    \A p, q \in Proc : \A i \in Id : AnswerDue(p, q, i) ~> Settled(p, i)

\* An outcome that has been read has found its record: the record is made
\* before the send "because the reply can arrive on the reader thread before
\* native_broker_port_put() has returned here".
OutcomeNotLost ==
    \A i \in Id :
      conv[i] \in {"replied", "abandoned"} =>
        LET p == about[i].from
            m == about[i].record.msg
        IN  m # NoMsg /\ result[m] = "waiting" =>
              \E k \in 1..Len(mail[p]) : mail[p][k].op # "put" /\ mail[p][k].id = i
=============================================================================
