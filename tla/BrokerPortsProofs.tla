------------------------- MODULE BrokerPortsProofs -------------------------
(***************************************************************************)
(* Proofs about BrokerPorts, for any number of connections, processes,     *)
(* ports and messages.  That a message in the table can still be ended     *)
(* (Answerable) needs only that a channel's connection is open.  That      *)
(* every message ends once (OneOutcomeEach) needs, besides, that an id is  *)
(* owed to one connection and that a stream holds outcomes only of ids     *)
(* owed to it: the part of IInv called Bookkeeping.                        *)
(***************************************************************************)
EXTENDS BrokerPorts, TLAPS

LEMMA RecordTypes ==
    ASSUME NEW m \in Message, NEW e \in Event
    PROVE  /\ Put(m) \in Record
           /\ Answer(m) \in Record
           /\ Abandoned(m) \in Record
           /\ Broadcast(e) \in Record
BY DEF Message, Record, Put, Answer, Abandoned, Broadcast

Streams == [Fd -> Seq(SUBSET Record)]

LEMMA PushedType ==
    ASSUME NEW st \in Streams, NEW c \in Fd, NEW burst \in SUBSET Record
    PROVE  Pushed(st, c, burst) \in Streams
<1>1. Append(st[c], burst) \in Seq(SUBSET Record)
  BY DEF Streams
<1> QED
  BY <1>1 DEF Streams, Pushed

LEMMA ToldType ==
    ASSUME NEW st \in Streams, NEW gone \in SUBSET Message
    PROVE  Told(st, gone) \in Streams
<1> SUFFICES ASSUME NEW c \in Fd
             PROVE  Told(st, gone)[c] \in Seq(SUBSET Record)
  BY Zenon DEF Told, Streams
<1> DEFINE mine == {m \in gone : m.sender = c}
<1>1. {Abandoned(m) : m \in mine} \in SUBSET Record
  BY DEF Message, Abandoned, Record
<1>2. st[c] \in Seq(SUBSET Record)
  BY DEF Streams
<1> QED
  BY <1>1, <1>2 DEF Told

LEMMA ReplayType ==
    ASSUME TypeOK, NEW c \in Fd
    PROVE  Replay(c) \in Seq(SUBSET Record)
<1>1. \A i \in 1..Len(events) : {Broadcast(events[i])} \in SUBSET Record
  <2> SUFFICES ASSUME NEW i \in 1..Len(events)
               PROVE  Broadcast(events[i]) \in Record
    OBVIOUS
  <2>1. events[i] \in Event
    BY DEF TypeOK
  <2> QED
    BY <2>1 DEF Broadcast, Record
<1>2. Len(events) \in Nat
  BY DEF TypeOK
<1> QED
  BY <1>1, <1>2 DEF Replay

LEMMA TypeInit == Init => TypeOK
BY DEF Init, TypeOK

LEMMA TypeStep == TypeOK /\ [Next]_vars => TypeOK'
<1> SUFFICES ASSUME TypeOK, [Next]_vars PROVE TypeOK'
  OBVIOUS
<1> USE DEF Streams
<1>1. ASSUME NEW c \in Fd, NEW p \in Pid, Accept(c, p) PROVE TypeOK'
  BY <1>1 DEF TypeOK, Accept, Registry
<1>2. ASSUME NEW c \in Fd, HangUp(c) PROVE TypeOK'
  BY <1>2 DEF TypeOK, HangUp, Registry
<1>3. ASSUME NEW c \in Fd, Drop(c) PROVE TypeOK'
  <2> DEFINE gone == Orphans(c)
  <2>1. gone \subseteq messages
    BY DEF Orphans
  <2>2. Told(stream, gone) \in Streams
    BY <2>1, ToldType, Zenon DEF TypeOK
  <2>3. stream' = [Told(stream, gone) EXCEPT ![c] = <<>>]
    BY <1>3 DEF Drop
  <2> HIDE DEF gone
  <2>4. stream' \in Streams
    BY <2>2, <2>3
  <2>5. messages' \subseteq messages
    BY <1>3 DEF Drop
  <2> QED
    BY <1>3, <2>4, <2>5 DEF TypeOK, Drop
<1>4. ASSUME NEW c \in Fd, PortAttach(c) PROVE TypeOK'
  <2> DEFINE existing == {h \in channels : h.pid = conn[c]}
             gone == IF existing = {} THEN {} ELSE MessagesForOwner(conn[c])
  <2>1. gone \subseteq messages
    BY DEF MessagesForOwner
  <2>2. Told(stream, gone) \in Streams
    BY <2>1, ToldType, Zenon DEF TypeOK
  <2>3. stream' = [Told(stream, gone) EXCEPT
                       ![c] = Told(stream, gone)[c] \o Replay(c)]
    BY <1>4 DEF PortAttach
  <2>4. Told(stream, gone)[c] \o Replay(c) \in Seq(SUBSET Record)
    BY <2>2, ReplayType
  <2>5. stream' \in Streams
    BY <2>2, <2>3, <2>4
  <2>6. conn[c] \in Pid
    BY <1>4 DEF PortAttach, Serving, TypeOK
  <2>7. channels' \subseteq Channel /\ messages' \subseteq Message
    BY <1>4, <2>6 DEF PortAttach, TypeOK, Channel
  <2> QED
    BY <1>4, <2>5, <2>7 DEF TypeOK, PortAttach, Serving
<1>5. ASSUME NEW c \in Fd, NEW n \in Name, PortAdd(c, n) PROVE TypeOK'
  <2>1. conn[c] \in Pid
    BY <1>5 DEF PortAdd, Serving, TypeOK
  <2> QED
    BY <1>5, <2>1 DEF TypeOK, PortAdd, Serving, Port
<1>6. ASSUME NEW c \in Fd, NEW n \in Name, PortPut(c, n) PROVE TypeOK'
  <2>1. PICK p \in ports, to \in channels, from \in channels :
          LET m == NewMessage(p, from)
          IN /\ nextMessage' = nextMessage + 1
             /\ stream' = Pushed(stream, to.fd, {Put(m)})
             /\ IF to.fd \in alive
                THEN /\ messages' = messages \cup {m}
                     /\ asked' = asked \cup {<<m.id, m.sender>>}
                ELSE UNCHANGED <<messages, asked>>
    BY <1>6, Zenon DEF PortPut
  <2> DEFINE m == NewMessage(p, from)
  <2>2. m \in Message /\ to.fd \in Fd /\ <<m.id, m.sender>> \in Nat \X Fd
    BY DEF TypeOK, Port, Channel, NewMessage, Message
  <2>3. {Put(m)} \in SUBSET Record
    BY <2>2 DEF Message, Put, Record
  <2>4. stream' \in Streams
    BY <2>1, <2>2, <2>3, PushedType, Zenon DEF TypeOK
  <2>5. messages' \subseteq Message /\ asked' \subseteq Nat \X Fd
    BY <2>1, <2>2 DEF TypeOK
  <2>6. nextMessage' \in Nat
    BY <2>1 DEF TypeOK
  <2> QED
    BY <1>6, <2>4, <2>5, <2>6, Zenon DEF TypeOK, PortPut, Serving
<1>7. ASSUME NEW c \in Fd, NEW id \in 1..LastPort, PortRem(c, id) PROVE TypeOK'
  <2>1. stream' \in Streams
    BY <1>7, ToldType, Zenon DEF TypeOK, PortRem, MessagesForPort
  <2> QED
    BY <1>7, <2>1 DEF TypeOK, PortRem, Serving
<1>8. ASSUME NEW c \in Fd, NEW id \in 1..LastMessage, PortReply(c, id)
      PROVE  TypeOK'
  <2>1. PICK m \in messages :
          /\ messages' = messages \ {m}
          /\ stream' = Pushed(stream, m.sender, {Answer(m)})
    BY <1>8 DEF PortReply
  <2>2. m.sender \in Fd /\ {Answer(m)} \in SUBSET Record
    BY DEF TypeOK, Message, Answer, Record
  <2>3. stream' \in Streams
    BY <2>1, <2>2, PushedType, Zenon DEF TypeOK
  <2> QED
    BY <1>8, <2>1, <2>3, Zenon DEF TypeOK, PortReply, Serving
<1>9. ASSUME NEW c \in Fd, PortBroadcast(c) PROVE TypeOK'
  <2> DEFINE e == [n |-> Len(said) + 1, by |-> conn[c]]
             kept == IF Len(events) = MaxEvents THEN Tail(events) ELSE events
  <2>1. e \in Event
    BY <1>9 DEF PortBroadcast, Serving, TypeOK, Event
  <2>2. kept \in Seq(Event)
    BY PortConstants DEF TypeOK
  <2>3. {Broadcast(e)} \in SUBSET Record
    BY <2>1 DEF Broadcast, Record
  <2>4. events' = Append(kept, e) /\ said' = Append(said, e)
    BY <1>9 DEF PortBroadcast
  <2>5. \A d \in Fd : Append(stream[d], {Broadcast(e)}) \in Seq(SUBSET Record)
    BY <2>3 DEF TypeOK
  <2>6. stream' \in Streams
    BY <1>9, <2>5 DEF PortBroadcast, TypeOK
  <2>7. events' \in Seq(Event) /\ said' \in Seq(Event)
    BY <2>1, <2>2, <2>4 DEF TypeOK
  <2> QED
    BY <1>9, <2>6, <2>7, Zenon DEF TypeOK, PortBroadcast, Serving
<1>10. CASE UNCHANGED vars
  BY <1>10 DEF TypeOK, vars
<1> QED
  BY <1>1, <1>2, <1>3, <1>4, <1>5, <1>6, <1>7, <1>8, <1>9, <1>10 DEF Next

\* The type invariant.
THEOREM PortTypes == Spec => []TypeOK
BY TypeInit, TypeStep, PTL DEF Spec

-----------------------------------------------------------------------------
(***************************************************************************)
(* Outcomes in a stream                                                    *)
(***************************************************************************)

Bursts == Seq(SUBSET Record)

LEMMA AppendQuiet ==
    ASSUME NEW q \in Bursts, NEW burst \in SUBSET Record, NEW id,
           ~Ends(id, burst)
    PROVE  Outcomes(id, Append(q, burst)) = Outcomes(id, q)
<1>1. /\ Len(Append(q, burst)) = Len(q) + 1
      /\ Append(q, burst)[Len(q) + 1] = burst
      /\ \A k \in 1..Len(q) : Append(q, burst)[k] = q[k]
  BY DEF Bursts
<1>2. Len(q) \in Nat
  BY DEF Bursts
<1> QED
  BY <1>1, <1>2 DEF Outcomes

LEMMA AppendEnds ==
    ASSUME NEW q \in Bursts, NEW burst \in SUBSET Record, NEW id,
           Ends(id, burst)
    PROVE  Outcomes(id, Append(q, burst)) = Outcomes(id, q) \cup {Len(q) + 1}
<1>1. /\ Len(Append(q, burst)) = Len(q) + 1
      /\ Append(q, burst)[Len(q) + 1] = burst
      /\ \A k \in 1..Len(q) : Append(q, burst)[k] = q[k]
  BY DEF Bursts
<1>2. Len(q) \in Nat
  BY DEF Bursts
<1> QED
  BY <1>1, <1>2 DEF Outcomes

LEMMA ConcatQuiet ==
    ASSUME NEW q \in Bursts, NEW r \in Bursts, NEW id,
           \A k \in 1..Len(r) : ~Ends(id, r[k])
    PROVE  Outcomes(id, q \o r) = Outcomes(id, q)
<1>1. /\ Len(q \o r) = Len(q) + Len(r)
      /\ \A k \in 1..Len(q \o r) :
            (q \o r)[k] = IF k <= Len(q) THEN q[k] ELSE r[k - Len(q)]
  BY DEF Bursts
<1>2. Len(q) \in Nat /\ Len(r) \in Nat
  BY DEF Bursts
<1> QED
  BY <1>1, <1>2 DEF Outcomes

\* What abandoning `gone' does to the outcomes of id in c's stream.
After(gone, c, id) ==
    IF c \in alive /\ \E m \in gone : m.id = id /\ m.sender = c
    THEN Outcomes(id, stream[c]) \cup {Len(stream[c]) + 1}
    ELSE Outcomes(id, stream[c])

LEMMA ToldOutcomes ==
    ASSUME TypeOK, NEW gone, gone \subseteq messages, NEW c \in Fd,
           NEW id \in Nat
    PROVE  Outcomes(id, Told(stream, gone)[c]) = After(gone, c, id)
<1> DEFINE mine == {m \in gone : m.sender = c}
           burst == {Abandoned(m) : m \in mine}
<1>1. stream[c] \in Bursts
  BY DEF TypeOK, Bursts
<1>2. burst \in SUBSET Record
  BY DEF TypeOK, Message, Abandoned, Record
<1>3. Ends(id, burst) <=> \E m \in gone : m.id = id /\ m.sender = c
  <2>1. \A m \in mine : Abandoned(m).op = "abandoned" /\ Abandoned(m).id = m.id
    BY DEF Abandoned
  <2> QED
    BY <2>1 DEF Ends
<1>4. CASE c \in alive /\ mine # {}
  <2>1. Told(stream, gone)[c] = Append(stream[c], burst)
    BY <1>4 DEF Told
  <2> HIDE DEF burst
  <2>2. CASE Ends(id, burst)
    <3>1. Outcomes(id, Append(stream[c], burst))
            = Outcomes(id, stream[c]) \cup {Len(stream[c]) + 1}
      BY <1>1, <1>2, <2>2, AppendEnds
    <3> QED
      BY <1>3, <1>4, <2>1, <2>2, <3>1 DEF After
  <2>3. CASE ~Ends(id, burst)
    <3>1. Outcomes(id, Append(stream[c], burst)) = Outcomes(id, stream[c])
      BY <1>1, <1>2, <2>3, AppendQuiet
    <3> QED
      BY <1>3, <2>1, <2>3, <3>1 DEF After
  <2> QED
    BY <2>2, <2>3
<1>5. CASE ~(c \in alive /\ mine # {})
  <2>1. Told(stream, gone)[c] = stream[c]
    BY <1>5 DEF Told
  <2> QED
    BY <1>5, <2>1 DEF After
<1> QED
  BY <1>4, <1>5

-----------------------------------------------------------------------------
(***************************************************************************)
(* The invariant                                                           *)
(***************************************************************************)

\* Nothing is registered on, or owed to, a connection that is closed.
OpenOnly ==
    /\ \A h \in channels : conn[h.fd] # NoPid
    /\ \A c \in alive : conn[c] # NoPid
    /\ \A a \in asked : conn[a[2]] # NoPid

\* An id names one message, owed to one connection; a stream holds outcomes of
\* the ids owed to it only.
Bookkeeping ==
    /\ \A m \in messages : m.id < nextMessage /\ <<m.id, m.sender>> \in asked
    /\ \A m, n \in messages : m.id = n.id => m = n
    /\ \A a \in asked : a[1] < nextMessage
    /\ \A a, b \in asked : a[1] = b[1] => a = b
    /\ \A c \in Fd, id \in Nat :
           Outcomes(id, stream[c]) # {} => <<id, c>> \in asked

IInv ==
    /\ TypeOK
    /\ OpenOnly
    /\ Answerable
    /\ Bookkeeping
    /\ OneOutcomeEach

LEMMA InitInv == Init => IInv
<1> SUFFICES ASSUME Init PROVE IInv
  OBVIOUS
<1>1. TypeOK
  BY TypeInit
<1>2. OpenOnly /\ Answerable /\ OneOutcomeEach
  BY DEF Init, OpenOnly, Answerable, OneOutcomeEach
<1>3. Bookkeeping
  BY DEF Init, Bookkeeping, Outcomes
<1> QED
  BY <1>1, <1>2, <1>3 DEF IInv

\* A step that ends the messages `gone', telling the senders that are there, and
\* forgets what was owed to d, if it drops a connection d.
LEMMA EndStep ==
    ASSUME IInv, NEW gone, gone \subseteq messages, NEW d \in Fd \cup {NoFd},
           TypeOK',
           alive' \subseteq alive, d \notin alive',
           messages' = {m \in messages \ gone : m.sender # d},
           asked' = {a \in asked : a[2] # d},
           nextMessage' = nextMessage,
           \A c \in Fd \ {d}, id \in Nat :
               Outcomes(id, stream'[c]) = After(gone, c, id),
           \A id \in Nat : d \in Fd => Outcomes(id, stream'[d]) = {}
    PROVE  Bookkeeping' /\ OneOutcomeEach'
<1>1. \A m \in messages : <<m.id, m.sender>> \in asked /\ m.id \in Nat
                            /\ m.sender \in Fd
  BY Zenon DEF IInv, Bookkeeping, TypeOK, Message
<1>2. Bookkeeping'
  <2>1. \A c \in Fd, id \in Nat :
            Outcomes(id, stream'[c]) # {} => <<id, c>> \in asked'
    <3> SUFFICES ASSUME NEW c \in Fd, NEW id \in Nat,
                        Outcomes(id, stream'[c]) # {}
                 PROVE  <<id, c>> \in asked'
      OBVIOUS
    <3>1. c # d
      OBVIOUS
    <3>2. After(gone, c, id) # {}
      BY <3>1
    <3>3. <<id, c>> \in asked
      BY <1>1, <3>2 DEF After, IInv, Bookkeeping
    <3> QED
      BY <3>1, <3>3
  <2>2. \A m \in messages' : m.id < nextMessage' /\ <<m.id, m.sender>> \in asked'
    BY Zenon DEF IInv, Bookkeeping
  <2>3. /\ \A m, n \in messages' : m.id = n.id => m = n
        /\ \A a \in asked' : a[1] < nextMessage'
        /\ \A a, b \in asked' : a[1] = b[1] => a = b
    BY DEF IInv, Bookkeeping
  <2> QED
    BY <2>1, <2>2, <2>3 DEF Bookkeeping
<1>3. OneOutcomeEach'
  <2> SUFFICES ASSUME NEW a \in asked', a[2] \in alive'
               PROVE  IF \E m \in messages' : m.id = a[1]
                      THEN Outcomes(a[1], stream'[a[2]]) = {}
                      ELSE \E k \in 1..Len(stream'[a[2]]) :
                               Outcomes(a[1], stream'[a[2]]) = {k}
    BY Zenon DEF OneOutcomeEach
  <2> DEFINE id == a[1]
             c == a[2]
             now == Outcomes(id, stream'[c])
  <2>1. /\ a \in asked /\ id \in Nat /\ c \in Fd /\ c # d /\ c \in alive
        /\ a = <<id, c>>
    <3>1. asked \subseteq Nat \X Fd
      BY DEF IInv, TypeOK
    <3> QED
      BY <3>1
  <2>2. now = After(gone, c, id)
    BY <2>1
  <2>3. now \subseteq 1..Len(stream'[c])
    BY DEF Outcomes
  <2>4. IF \E m \in messages : m.id = id
        THEN Outcomes(id, stream[c]) = {}
        ELSE \E k \in 1..Len(stream[c]) : Outcomes(id, stream[c]) = {k}
    BY <2>1, Zenon DEF IInv, OneOutcomeEach
  <2>5. \A m \in messages : m.id = id => m.sender = c
    BY <1>1, <2>1, Zenon DEF IInv, Bookkeeping
  <2> HIDE DEF now
  <2>6. CASE \E m \in gone : m.id = id
    <3>1. now = {Len(stream[c]) + 1}
      BY <2>1, <2>2, <2>4, <2>5, <2>6 DEF After
    <3>2. \A m \in messages' : m.id # id
      BY <2>6 DEF IInv, Bookkeeping
    <3> QED
      BY <2>3, <3>1, <3>2 DEF now
  <2>7. CASE ~\E m \in gone : m.id = id
    <3>1. now = Outcomes(id, stream[c])
      BY <2>2, <2>7 DEF After
    <3>2. (\E m \in messages' : m.id = id) <=> (\E m \in messages : m.id = id)
      BY <2>1, <2>5, <2>7
    <3> QED
      BY <2>3, <2>4, <3>1, <3>2 DEF now
  <2> QED
    BY <2>6, <2>7
<1> QED
  BY <1>2, <1>3

\* The same for a step that drops no connection.
LEMMA EndStepOpen ==
    ASSUME IInv, NEW gone, gone \subseteq messages, TypeOK',
           alive' \subseteq alive,
           messages' = messages \ gone,
           asked' = asked,
           nextMessage' = nextMessage,
           \A c \in Fd, id \in Nat :
               Outcomes(id, stream'[c]) = After(gone, c, id)
    PROVE  Bookkeeping' /\ OneOutcomeEach'
<1>1. NoFd \notin Fd /\ NoFd \notin alive'
  BY PortConstants DEF IInv, TypeOK
<1>2. messages' = {m \in messages \ gone : m.sender # NoFd}
  BY <1>1 DEF IInv, TypeOK, Message
<1>3. asked' = {a \in asked : a[2] # NoFd}
  BY <1>1 DEF IInv, TypeOK
<1> QED
  BY <1>1, <1>2, <1>3, EndStep

LEMMA AcceptInv ==
    ASSUME IInv, TypeOK', NEW c \in Fd, NEW p \in Pid, Accept(c, p)
    PROVE  IInv'
<1>0. p # NoPid
  BY PortConstants
<1>1. OpenOnly'
  BY <1>0 DEF IInv, OpenOnly, TypeOK, Channel, Accept, Registry
<1>2. Answerable'
  BY <1>0, Zenon DEF IInv, Answerable, TypeOK, Message, Accept, Registry
<1>3. Bookkeeping'
  BY DEF IInv, Bookkeeping, Accept, Registry
<1>4. OneOutcomeEach'
  BY Zenon DEF IInv, OneOutcomeEach, OpenOnly, Accept, Registry
<1> QED
  BY <1>1, <1>2, <1>3, <1>4 DEF IInv

LEMMA HangUpInv ==
    ASSUME IInv, TypeOK', NEW c \in Fd, HangUp(c)
    PROVE  IInv'
<1>1. OpenOnly' /\ Answerable'
  BY DEF IInv, OpenOnly, Answerable, HangUp, Registry
<1>2. Bookkeeping' /\ OneOutcomeEach'
  BY Zenon DEF IInv, Bookkeeping, OneOutcomeEach, HangUp, Registry
<1> QED
  BY <1>1, <1>2 DEF IInv

LEMMA PortAddInv ==
    ASSUME IInv, TypeOK', NEW c \in Fd, NEW n \in Name, PortAdd(c, n)
    PROVE  IInv'
<1>1. OpenOnly' /\ Answerable'
  BY DEF IInv, OpenOnly, Answerable, PortAdd
<1>2. Bookkeeping' /\ OneOutcomeEach'
  BY Zenon DEF IInv, Bookkeeping, OneOutcomeEach, PortAdd
<1> QED
  BY <1>1, <1>2 DEF IInv

LEMMA PortRemInv ==
    ASSUME IInv, TypeOK', NEW c \in Fd, NEW id \in 1..LastPort, PortRem(c, id)
    PROVE  IInv'
<1> DEFINE gone == MessagesForPort(id)
<1>1. gone \subseteq messages
  BY DEF MessagesForPort
<1>2. OpenOnly'
  BY DEF IInv, OpenOnly, PortRem
<1>3. Answerable'
  BY Zenon DEF IInv, Answerable, PortRem, MessagesForPort
<1>4. stream' = Told(stream, gone) /\ messages' = messages \ gone
  BY DEF PortRem
<1> HIDE DEF gone
<1>5. \A d \in Fd, i \in Nat : Outcomes(i, stream'[d]) = After(gone, d, i)
  BY <1>1, <1>4, ToldOutcomes DEF IInv
<1>6. alive' = alive /\ asked' = asked /\ nextMessage' = nextMessage
  BY DEF PortRem
<1>7. Bookkeeping' /\ OneOutcomeEach'
  BY <1>1, <1>4, <1>5, <1>6, EndStepOpen
<1> QED
  BY <1>2, <1>3, <1>7 DEF IInv

LEMMA PortAttachInv ==
    ASSUME IInv, TypeOK', NEW c \in Fd, PortAttach(c)
    PROVE  IInv'
<1> DEFINE existing == {h \in channels : h.pid = conn[c]}
           gone == IF existing = {} THEN {} ELSE MessagesForOwner(conn[c])
           told == Told(stream, gone)
<1>1. gone \subseteq messages
  BY DEF MessagesForOwner
<1>2. /\ conn[c] # NoPid
      /\ channels' = (channels \ existing) \cup {[fd |-> c, pid |-> conn[c]]}
      /\ messages' = messages \ gone
      /\ stream' = [told EXCEPT ![c] = told[c] \o Replay(c)]
      /\ UNCHANGED <<conn, alive, ports, nextMessage, asked>>
  BY DEF PortAttach, Serving
<1>3. OpenOnly'
  <2>1. \A h \in channels' : h \in channels \/ h.fd = c
    BY <1>2
  <2>2. conn[c] # NoPid /\ UNCHANGED <<conn, alive, asked>>
    BY <1>2
  <2>3. OpenOnly
    BY DEF IInv
  <2> QED
    BY <2>1, <2>2, <2>3 DEF OpenOnly
<1>4. Answerable'
  <2> SUFFICES ASSUME NEW m \in messages'
               PROVE  \E h \in channels' : h.pid = m.owner
    BY <1>2, Zenon DEF IInv, Answerable
  <2>1. PICK h \in channels : h.pid = m.owner
    BY <1>2, Zenon DEF IInv, Answerable
  <2>2. CASE m.owner = conn[c]
    <3>1. [fd |-> c, pid |-> conn[c]] \in channels'
      BY <1>2
    <3> QED
      BY <2>2, <3>1
  <2>3. CASE m.owner # conn[c]
    BY <1>2, <2>1, <2>3
  <2> QED
    BY <2>2, <2>3
<1> HIDE DEF gone, existing
<1>5. \A d \in Fd, i \in Nat : Outcomes(i, told[d]) = After(gone, d, i)
  BY <1>1, ToldOutcomes DEF IInv
<1>6. told \in [Fd -> Bursts] /\ Replay(c) \in Bursts
  BY <1>1, ToldType, ReplayType, Zenon DEF IInv, TypeOK, Streams, Bursts
<1>7. \A i \in Nat : \A k \in 1..Len(Replay(c)) : ~Ends(i, Replay(c)[k])
  <2> SUFFICES ASSUME NEW i \in Nat, NEW k \in 1..Len(Replay(c))
               PROVE  ~Ends(i, Replay(c)[k])
    OBVIOUS
  <2>1. c \in alive /\ Replay(c)[k] = {Broadcast(events[k])}
    BY SMTT(30), ZenonT(20) DEF Replay, IInv, TypeOK
  <2>2. Broadcast(events[k]).op = "broadcast"
    BY DEF Broadcast
  <2> QED
    BY <2>1, <2>2 DEF Ends
<1> HIDE DEF told
<1>8. \A d \in Fd, i \in Nat : Outcomes(i, stream'[d]) = After(gone, d, i)
  <2> SUFFICES ASSUME NEW d \in Fd, NEW i \in Nat
               PROVE  Outcomes(i, stream'[d]) = Outcomes(i, told[d])
    BY <1>5
  <2>1. CASE d # c
    BY <1>2, <1>6, <2>1
  <2>2. CASE d = c
    <3>1. stream'[d] = told[d] \o Replay(c)
      BY <1>2, <1>6, <2>2
    <3> QED
      BY <1>6, <1>7, <3>1, ConcatQuiet
  <2> QED
    BY <2>1, <2>2
<1>9. Bookkeeping' /\ OneOutcomeEach'
  BY <1>1, <1>2, <1>8, EndStepOpen, Zenon
<1> QED
  BY <1>3, <1>4, <1>9 DEF IInv

Quiet(id, burst) == burst \in SUBSET Record /\ ~Ends(id, burst)

\* A burst that ends nothing, pushed or not, leaves every outcome as it was.
LEMMA PushedQuiet ==
    ASSUME TypeOK, NEW c \in Fd, NEW burst, NEW d \in Fd, NEW id,
           Quiet(id, burst)
    PROVE  Outcomes(id, Pushed(stream, c, burst)[d]) = Outcomes(id, stream[d])
<1>1. stream[c] \in Bursts
  BY DEF TypeOK, Bursts
<1>2. CASE c \in alive /\ d = c
  <2>1. Pushed(stream, c, burst)[d] = Append(stream[c], burst)
    BY <1>2 DEF Pushed, TypeOK
  <2>2. Outcomes(id, Append(stream[c], burst)) = Outcomes(id, stream[c])
    BY <1>1, AppendQuiet DEF Quiet
  <2> QED
    BY <1>2, <2>1, <2>2
<1>3. CASE ~(c \in alive /\ d = c)
  BY <1>3 DEF Pushed, TypeOK
<1> QED
  BY <1>2, <1>3

LEMMA PortPutInv ==
    ASSUME IInv, TypeOK', NEW c \in Fd, NEW n \in Name, PortPut(c, n)
    PROVE  IInv'
<1>1. PICK p \in ports, to \in channels, from \in channels :
        LET m == NewMessage(p, from)
        IN /\ to.pid = p.pid
           /\ nextMessage' = nextMessage + 1
           /\ stream' = Pushed(stream, to.fd, {Put(m)})
           /\ IF to.fd \in alive
              THEN /\ messages' = messages \cup {m}
                   /\ asked' = asked \cup {<<m.id, m.sender>>}
              ELSE UNCHANGED <<messages, asked>>
  BY Zenon DEF PortPut
<1> DEFINE m == NewMessage(p, from)
<1>2. UNCHANGED <<conn, alive, ports, channels>>
  BY DEF PortPut
<1>3. /\ m.id = nextMessage /\ m.port = p.id /\ m.sender = from.fd
      /\ m.owner = p.pid /\ to.fd \in Fd /\ from.fd \in Fd
      /\ nextMessage \in Nat
  <2>1. from \in Channel /\ to \in Channel /\ nextMessage \in Nat
    BY Zenon DEF IInv, TypeOK
  <2> QED
    BY <2>1 DEF NewMessage, Channel
<1>4. conn[m.sender] # NoPid
  <2>1. \A h \in channels : conn[h.fd] # NoPid
    BY Zenon DEF IInv, OpenOnly
  <2> QED
    BY <1>3, <2>1
<1>5. {Put(m)} \in SUBSET Record /\ \A id \in Nat : ~Ends(id, {Put(m)})
  <2>1. Put(m) \in Record
    BY <1>3, Zenon DEF Put, Record, IInv, TypeOK, Port
  <2>2. Put(m).op = "put"
    BY DEF Put
  <2> QED
    BY <2>1, <2>2 DEF Ends
<1> DEFINE burst == {Put(m)}
<1>6. stream' = Pushed(stream, to.fd, burst)
  BY <1>1
<1> HIDE DEF m, burst
<1>7. \A d \in Fd, id \in Nat :
          Outcomes(id, stream'[d]) = Outcomes(id, stream[d])
  <2> SUFFICES ASSUME NEW d \in Fd, NEW id \in Nat
               PROVE  Outcomes(id, stream'[d]) = Outcomes(id, stream[d])
    OBVIOUS
  <2>1. TypeOK /\ Quiet(id, burst)
    BY <1>5 DEF IInv, burst, Quiet
  <2>2. to.fd \in Fd
    BY <1>3
  <2>3. Outcomes(id, Pushed(stream, to.fd, burst)[d]) = Outcomes(id, stream[d])
    BY <2>1, <2>2, PushedQuiet
  <2> QED
    BY <1>6, <2>3
<1>8. /\ nextMessage' = nextMessage + 1
      /\ \/ messages' = messages /\ asked' = asked
         \/ /\ messages' = messages \cup {m}
            /\ asked' = asked \cup {<<m.id, m.sender>>}
  BY <1>1 DEF m
<1>9. OpenOnly'
  <2>1. \A a \in asked' : a \in asked \/ a[2] = m.sender
    BY <1>8
  <2>2. OpenOnly /\ UNCHANGED <<conn, alive, channels>>
    BY <1>2 DEF IInv
  <2> QED
    BY <1>4, <2>1, <2>2 DEF OpenOnly
<1>10. Answerable'
  <2>1. /\ \E q \in ports : q.id = m.port /\ q.pid = m.owner
        /\ \E h \in channels : h.pid = m.owner
    BY <1>1, <1>3
  <2> QED
    BY <1>2, <1>4, <1>8, <2>1, Zenon DEF IInv, Answerable
<1>11. Bookkeeping'
  <2>1. \A x \in messages : x.id # m.id /\ x.id < nextMessage'
    <3>1. \A x \in messages : x.id \in Nat /\ x.id < nextMessage
      BY Zenon DEF IInv, Bookkeeping, TypeOK, Message
    <3> QED
      BY <1>3, <1>8, <3>1
  <2>2. \A a \in asked : a[1] # m.id /\ a[1] < nextMessage'
    <3>1. \A a \in asked : a[1] \in Nat /\ a[1] < nextMessage
      BY DEF IInv, Bookkeeping, TypeOK
    <3> QED
      BY <1>3, <1>8, <3>1
  <2>3. m.id < nextMessage' /\ <<m.id, m.sender>>[1] = m.id
    BY <1>3, <1>8
  <2>4. \A d \in Fd, id \in Nat :
            Outcomes(id, stream'[d]) # {} => <<id, d>> \in asked'
    BY <1>7, <1>8, Zenon DEF IInv, Bookkeeping
  <2>5. \A x \in messages' : x.id < nextMessage' /\ <<x.id, x.sender>> \in asked'
    BY <1>8, <2>1, <2>3, Zenon DEF IInv, Bookkeeping
  <2>6. \A x, y \in messages' : x.id = y.id => x = y
    <3>1. \A x \in messages' : x \in messages \/ x = m
      BY <1>8
    <3> QED
      BY <2>1, <3>1 DEF IInv, Bookkeeping
  <2>7. /\ \A a \in asked' : a[1] < nextMessage'
        /\ \A a, b \in asked' : a[1] = b[1] => a = b
    <3>1. \A a \in asked' : a \in asked \/ a = <<m.id, m.sender>>
      BY <1>8
    <3> QED
      BY <2>2, <2>3, <3>1 DEF IInv, Bookkeeping
  <2> QED
    BY <2>4, <2>5, <2>6, <2>7 DEF Bookkeeping
<1>12. OneOutcomeEach'
  <2> SUFFICES ASSUME NEW a \in asked', a[2] \in alive'
               PROVE  IF \E x \in messages' : x.id = a[1]
                      THEN Outcomes(a[1], stream'[a[2]]) = {}
                      ELSE \E k \in 1..Len(stream'[a[2]]) :
                               Outcomes(a[1], stream'[a[2]]) = {k}
    BY Zenon DEF OneOutcomeEach
  <2>1. a[1] \in Nat /\ a[2] \in Fd /\ a = <<a[1], a[2]>>
    BY DEF TypeOK
  <2>2. Outcomes(a[1], stream'[a[2]]) = Outcomes(a[1], stream[a[2]])
    BY <1>7, <2>1
  <2>3. Outcomes(a[1], stream'[a[2]]) \subseteq 1..Len(stream'[a[2]])
    BY DEF Outcomes
  <2>4. CASE a \in asked
    <3>1. a[1] < nextMessage
      BY <2>4 DEF IInv, Bookkeeping
    <3>2. (\E x \in messages' : x.id = a[1]) <=> (\E x \in messages : x.id = a[1])
      BY <1>3, <1>8, <2>1, <3>1
    <3> QED
      BY <1>2, <2>2, <2>3, <2>4, <3>2, Zenon DEF IInv, OneOutcomeEach
  <2>5. CASE a \notin asked
    <3>1. a[1] = m.id /\ m \in messages'
      BY <1>8, <2>5
    <3>2. Outcomes(a[1], stream[a[2]]) = {}
      BY <2>1, <2>5 DEF IInv, Bookkeeping
    <3> QED
      BY <2>2, <3>1, <3>2
  <2> QED
    BY <2>4, <2>5
<1> QED
  BY <1>9, <1>10, <1>11, <1>12 DEF IInv

LEMMA PortReplyInv ==
    ASSUME IInv, TypeOK', NEW c \in Fd, NEW id \in 1..LastMessage,
           PortReply(c, id)
    PROVE  IInv'
<1>1. PICK m \in messages :
          /\ messages' = messages \ {m}
          /\ stream' = Pushed(stream, m.sender, {Answer(m)})
  BY DEF PortReply
<1>2. UNCHANGED <<conn, alive, ports, channels, nextMessage, asked>>
  BY SMTT(30), ZenonT(20) DEF PortReply
<1>3. OpenOnly' /\ Answerable'
  BY <1>1, <1>2 DEF IInv, OpenOnly, Answerable
<1> DEFINE burst == {Answer(m)}
<1>4. m.sender \in Fd /\ m.id \in Nat /\ m.port \in Nat
  <2>1. m \in Message
    BY Zenon DEF IInv, TypeOK
  <2> QED
    BY <2>1 DEF Message
<1>5. burst \in SUBSET Record /\ \A i \in Nat : Ends(i, burst) <=> i = m.id
  <2>1. Answer(m) \in Record
    BY <1>4 DEF Answer, Record
  <2>2. Answer(m).op = "reply" /\ Answer(m).id = m.id
    BY DEF Answer
  <2> QED
    BY SMTT(30), ZenonT(20), <2>1, <2>2 DEF Ends
<1>6. stream' = Pushed(stream, m.sender, burst)
  BY <1>1
<1> HIDE DEF burst
<1>7. \A d \in Fd, i \in Nat : Outcomes(i, stream'[d]) = After({m}, d, i)
  <2> SUFFICES ASSUME NEW d \in Fd, NEW i \in Nat
               PROVE  Outcomes(i, stream'[d]) = After({m}, d, i)
    OBVIOUS
  <2>1. TypeOK /\ stream[d] \in Bursts
    BY Zenon DEF IInv, TypeOK, Bursts
  <2>2. CASE i = m.id /\ d = m.sender /\ d \in alive
    <3>1. stream'[d] = Append(stream[d], burst)
      BY SMTT(20), ZenonT(20), <1>6, <2>1, <2>2 DEF Pushed, TypeOK
    <3>2. burst \in SUBSET Record /\ Ends(i, burst)
      BY <1>5, <2>2
    <3>3. Outcomes(i, Append(stream[d], burst))
            = Outcomes(i, stream[d]) \cup {Len(stream[d]) + 1}
      BY <2>1, <3>2, AppendEnds
    <3>4. Outcomes(i, stream'[d])
            = Outcomes(i, stream[d]) \cup {Len(stream[d]) + 1}
      BY <3>1, <3>3, Zenon
    <3> QED
      BY <2>2, <3>4 DEF After
  <2>3. CASE i # m.id
    <3>1. Quiet(i, burst) /\ m.sender \in Fd
      BY SMTT(20), ZenonT(20), <1>4, <1>5, <2>3 DEF Quiet
    <3>2. Outcomes(i, Pushed(stream, m.sender, burst)[d]) = Outcomes(i, stream[d])
      BY <2>1, <3>1, PushedQuiet
    <3> QED
      BY <1>6, <2>3, <3>2 DEF After
  <2>4. CASE ~(d = m.sender /\ d \in alive)
    <3>1. stream'[d] = stream[d]
      BY <1>4, <1>6, <2>1, <2>4 DEF Pushed, TypeOK
    <3> QED
      BY <2>4, <3>1 DEF After
  <2> QED
    BY <2>2, <2>3, <2>4
<1>8. Bookkeeping' /\ OneOutcomeEach'
  BY <1>1, <1>2, <1>7, EndStepOpen
<1> QED
  BY <1>3, <1>8 DEF IInv

LEMMA PortBroadcastInv ==
    ASSUME IInv, TypeOK', NEW c \in Fd, PortBroadcast(c)
    PROVE  IInv'
<1> DEFINE e == [n |-> Len(said) + 1, by |-> conn[c]]
           burst == {Broadcast(e)}
<1>1. UNCHANGED <<conn, alive, ports, channels, messages, nextMessage, asked>>
  BY DEF PortBroadcast
<1>2. \A d \in Fd : stream'[d] \in {stream[d], Append(stream[d], burst)}
  BY DEF PortBroadcast
<1>3. burst \in SUBSET Record /\ \A i \in Nat : ~Ends(i, burst)
  <2>1. e \in Event
    <3>1. said \in Seq(Event) /\ conn[c] \in Pid \cup {NoPid}
      BY DEF IInv, TypeOK
    <3>2. conn[c] # NoPid
      BY DEF PortBroadcast, Serving
    <3>3. Len(said) + 1 \in Nat
      BY <3>1
    <3> QED
      BY <3>1, <3>2, <3>3 DEF Event
  <2> HIDE DEF e
  <2>2. Broadcast(e) \in Record /\ Broadcast(e).op = "broadcast"
    BY <2>1 DEF Broadcast, Record
  <2> QED
    BY <2>2 DEF Ends
<1> HIDE DEF burst
<1>4. \A d \in Fd, i \in Nat : Outcomes(i, stream'[d]) = Outcomes(i, stream[d])
  <2> SUFFICES ASSUME NEW d \in Fd, NEW i \in Nat
               PROVE  Outcomes(i, stream'[d]) = Outcomes(i, stream[d])
    OBVIOUS
  <2>1. stream[d] \in Bursts
    BY SMTT(20), ZenonT(20) DEF IInv, TypeOK, Bursts
  <2>2. Outcomes(i, Append(stream[d], burst)) = Outcomes(i, stream[d])
    BY <1>3, <2>1, AppendQuiet
  <2> QED
    BY <1>2, <2>2, Zenon
<1>5. OpenOnly' /\ Answerable'
  BY <1>1 DEF IInv, OpenOnly, Answerable
<1>6. \A d \in Fd, i \in Nat : Outcomes(i, stream'[d]) = After({}, d, i)
  BY <1>4 DEF After
<1>7. Bookkeeping' /\ OneOutcomeEach'
  BY <1>1, <1>6, EndStepOpen
<1> QED
  BY <1>5, <1>7 DEF IInv

LEMMA DropInv ==
    ASSUME IInv, TypeOK', NEW c \in Fd, Drop(c)
    PROVE  IInv'
<1> DEFINE gone == Orphans(c)
<1>1. gone \subseteq messages
  BY DEF Orphans
<1>2. /\ ports' = {p \in ports : p.fd # c}
      /\ channels' = {h \in channels : h.fd # c}
      /\ messages' = {m \in messages \ gone : m.sender # c}
      /\ stream' = [Told(stream, gone) EXCEPT ![c] = <<>>]
      /\ conn' = [conn EXCEPT ![c] = NoPid]
      /\ alive' = alive \ {c}
      /\ asked' = {a \in asked : a[2] # c}
      /\ nextMessage' = nextMessage
  BY DEF Drop
<1>3. \A d \in Fd \ {c} : conn'[d] = conn[d]
  BY <1>2 DEF IInv, TypeOK
<1>4. OpenOnly'
  BY SMTT(30), ZenonT(20), <1>2, <1>3 DEF IInv, OpenOnly, TypeOK, Channel
<1>5. Answerable'
  <2> SUFFICES ASSUME NEW m \in messages'
               PROVE  /\ \E p \in ports' : p.id = m.port /\ p.pid = m.owner
                      /\ \E h \in channels' : h.pid = m.owner
                      /\ conn'[m.sender] # NoPid
                      /\ <<m.id, m.sender>> \in asked'
    BY Zenon DEF Answerable
  <2>1. m \in messages /\ m \notin gone /\ m.sender # c /\ m.sender \in Fd
    BY <1>2 DEF IInv, TypeOK, Message
  <2>2. PICK p \in ports : p.id = m.port /\ p.pid = m.owner
    BY <2>1, Zenon DEF IInv, Answerable
  <2>3. PICK h \in channels : h.pid = m.owner
    BY <2>1, Zenon DEF IInv, Answerable
  <2>4. p.fd # c /\ h.fd # c
    BY SMTT(30), ZenonT(20), <2>1, <2>2, <2>3 DEF Orphans, MessagesForPort,
       MessagesForOwner
  <2>5. conn[m.sender] # NoPid /\ <<m.id, m.sender>> \in asked
    BY <2>1 DEF IInv, Answerable
  <2> QED
    BY <1>2, <1>3, <2>1, <2>2, <2>3, <2>4, <2>5, Zenon
<1> HIDE DEF gone
<1>6. Told(stream, gone) \in [Fd -> Bursts]
  BY <1>1, ToldType, Zenon DEF IInv, TypeOK, Streams, Bursts
<1>7. \A d \in Fd \ {c}, i \in Nat : Outcomes(i, stream'[d]) = After(gone, d, i)
  <2> SUFFICES ASSUME NEW d \in Fd \ {c}, NEW i \in Nat
               PROVE  Outcomes(i, stream'[d]) = After(gone, d, i)
    OBVIOUS
  <2>1. stream'[d] = Told(stream, gone)[d]
    BY <1>2, <1>6
  <2>2. TypeOK
    BY DEF IInv
  <2>3. Outcomes(i, Told(stream, gone)[d]) = After(gone, d, i)
    BY <1>1, <2>2, ToldOutcomes
  <2> QED
    BY <2>1, <2>3
<1>8. \A i \in Nat : Outcomes(i, stream'[c]) = {}
  <2>1. stream'[c] = <<>>
    BY <1>2, <1>6
  <2> QED
    BY SMTT(20), ZenonT(20), <2>1 DEF Outcomes
<1>9. Bookkeeping' /\ OneOutcomeEach'
  BY <1>1, <1>2, <1>7, <1>8, EndStep, Zenon
<1> QED
  BY <1>4, <1>5, <1>9 DEF IInv

\* IInv holds in every reachable state, under any interleaving of requests,
\* hangups and drops.
THEOREM PortsInductive == Spec => []IInv
<1>1. IInv /\ [Next]_vars => IInv'
  <2> SUFFICES ASSUME IInv, [Next]_vars PROVE IInv'
    OBVIOUS
  <2>1. TypeOK'
    BY TypeStep DEF IInv
  <2>2. CASE UNCHANGED vars
    BY <2>2, Zenon DEF vars, IInv, TypeOK, OpenOnly, Answerable, Bookkeeping,
                OneOutcomeEach
  <2>3. CASE Next
    BY <2>1, <2>3, AcceptInv, HangUpInv, PortAddInv, PortRemInv,
       PortAttachInv, PortPutInv, PortReplyInv, PortBroadcastInv, DropInv
       DEF Next
  <2> QED
    BY <2>2, <2>3
<1> QED
  BY InitInv, <1>1, PTL DEF Spec

\* Whatever the number of clients, no message is ever left in the table without
\* a registered port, a channel of its owner and an open sender to end it for.
THEOREM MessagesAnswerable == Spec => []Answerable
BY PortsInductive, PTL DEF IInv

\* Every message that was accepted is pending with no outcome, or has had
\* exactly one, as long as its sender's connection is up.
THEOREM OutcomesUnique == Spec => []OneOutcomeEach
BY PortsInductive, PTL DEF IInv

-----------------------------------------------------------------------------
(***************************************************************************)
(* Deliveries.  A message is in one burst of its owner's channel because a *)
(* process has one channel, because an id that is not given out yet is in  *)
(* no stream, and because replacing a channel ends what went down it.      *)
(***************************************************************************)

\* The bursts of a stream that deliver message m.
Puts(m, q) == {k \in 1..Len(q) : Put(m) \in q[k]}

Deliveries ==
    /\ \A h, g \in channels : h.pid = g.pid => h = g
    /\ \A c \in Fd, m \in Message :
           m.id >= nextMessage => Puts(m, stream[c]) = {}
    /\ \A m \in messages, h \in channels :
           h.pid = m.owner => \E k \in Nat : Puts(m, stream[h.fd]) = {k}

\* A burst that delivers nothing.
Idle(burst) == burst \in SUBSET Record /\ \A m \in Message : Put(m) \notin burst

LEMMA OtherRecords ==
    ASSUME NEW m \in Message, NEW n, NEW e
    PROVE  Put(m) # Answer(n) /\ Put(m) # Abandoned(n) /\ Put(m) # Broadcast(e)
<1>1. Put(m).op = "put"
  BY DEF Put
<1>2. Answer(n).op = "reply" /\ Abandoned(n).op = "abandoned"
  BY DEF Answer, Abandoned
<1>3. Broadcast(e).op = "broadcast"
  BY DEF Broadcast
<1> QED
  BY <1>1, <1>2, <1>3

LEMMA AppendIdle ==
    ASSUME NEW q \in Bursts, NEW burst, Idle(burst), NEW m \in Message
    PROVE  Puts(m, Append(q, burst)) = Puts(m, q)
<1>1. burst \in SUBSET Record /\ Put(m) \notin burst
  BY DEF Idle
<1>2. /\ Len(Append(q, burst)) = Len(q) + 1
      /\ Append(q, burst)[Len(q) + 1] = burst
      /\ \A k \in 1..Len(q) : Append(q, burst)[k] = q[k]
  BY <1>1 DEF Bursts
<1>3. Len(q) \in Nat
  BY DEF Bursts
<1> QED
  BY <1>1, <1>2, <1>3 DEF Puts

LEMMA ConcatIdle ==
    ASSUME NEW q \in Bursts, NEW r \in Bursts, NEW m \in Message,
           \A k \in 1..Len(r) : Put(m) \notin r[k]
    PROVE  Puts(m, q \o r) = Puts(m, q)
<1>1. /\ Len(q \o r) = Len(q) + Len(r)
      /\ \A k \in 1..Len(q \o r) :
            (q \o r)[k] = IF k <= Len(q) THEN q[k] ELSE r[k - Len(q)]
  BY DEF Bursts
<1>2. Len(q) \in Nat /\ Len(r) \in Nat
  BY DEF Bursts
<1> QED
  BY <1>1, <1>2 DEF Puts

\* Telling a sender that its message is abandoned delivers nothing.
LEMMA ToldIdle ==
    ASSUME TypeOK, NEW gone, gone \subseteq messages, NEW c \in Fd, NEW m \in Message
    PROVE  Puts(m, Told(stream, gone)[c]) = Puts(m, stream[c])
<1> DEFINE mine == {n \in gone : n.sender = c}
           burst == {Abandoned(n) : n \in mine}
<1>1. stream[c] \in Bursts
  BY DEF TypeOK, Bursts
<1>2. Idle(burst)
  <2>1. burst \in SUBSET Record
    BY SMTT(30), ZenonT(20) DEF TypeOK, Message, Abandoned, Record
  <2>2. \A n \in Message : Put(n) \notin burst
    BY OtherRecords
  <2> QED
    BY SMTT(20), ZenonT(20), <2>1, <2>2 DEF Idle
<1>3. CASE c \in alive /\ mine # {}
  <2>1. Told(stream, gone)[c] = Append(stream[c], burst)
    BY <1>3 DEF Told
  <2> HIDE DEF burst
  <2>2. Puts(m, Append(stream[c], burst)) = Puts(m, stream[c])
    BY <1>1, <1>2, AppendIdle
  <2> QED
    BY SMTT(20), ZenonT(20), <2>1, <2>2
<1>4. CASE ~(c \in alive /\ mine # {})
  BY <1>4 DEF Told
<1> QED
  BY <1>3, <1>4

\* Steps that deliver nothing, make no channel and only end messages.
LEMMA QuietDelivers ==
    ASSUME IInv, Deliveries,
           channels' \subseteq channels, messages' \subseteq messages,
           nextMessage' = nextMessage,
           \A c \in Fd, m \in Message : Puts(m, stream'[c]) = Puts(m, stream[c])
    PROVE  Deliveries'
<1>1. /\ \A m \in messages : m \in Message
      /\ \A h \in channels : h.fd \in Fd
  BY DEF IInv, TypeOK, Channel
<1>2. \A h, g \in channels' : h.pid = g.pid => h = g
  BY DEF Deliveries
<1>3. \A c \in Fd, m \in Message : m.id >= nextMessage' => Puts(m, stream'[c]) = {}
  BY DEF Deliveries
<1>4. \A m \in messages', h \in channels' :
           h.pid = m.owner => \E k \in Nat : Puts(m, stream'[h.fd]) = {k}
  BY SMTT(30), ZenonT(20), <1>1 DEF Deliveries
<1> QED
  BY ZenonT(20), SMTT(20), <1>2, <1>3, <1>4 DEF Deliveries

LEMMA PortRemDelivers ==
    ASSUME IInv, Deliveries, NEW c \in Fd, NEW id, PortRem(c, id)
    PROVE  Deliveries'
<1>1. /\ messages' \subseteq messages
      /\ stream' = Told(stream, MessagesForPort(id))
      /\ UNCHANGED <<channels, nextMessage>>
  BY DEF PortRem
<1>2. MessagesForPort(id) \subseteq messages
  BY DEF MessagesForPort
<1>3. \A d \in Fd, m \in Message : Puts(m, stream'[d]) = Puts(m, stream[d])
  BY <1>1, <1>2, ToldIdle, Zenon DEF IInv
<1> QED
  BY <1>1, <1>3, QuietDelivers

LEMMA PortReplyDelivers ==
    ASSUME IInv, Deliveries, NEW c \in Fd, NEW id, PortReply(c, id)
    PROVE  Deliveries'
<1>1. PICK a \in messages :
        messages' = messages \ {a} /\ stream' = Pushed(stream, a.sender, {Answer(a)})
  BY SMTT(20), ZenonT(20) DEF PortReply
<1>2. UNCHANGED <<channels, nextMessage>>
  BY DEF PortReply
<1> DEFINE burst == {Answer(a)}
<1>3. Idle(burst)
  <2>1. burst \in SUBSET Record
    BY DEF IInv, TypeOK, Message, Answer, Record
  <2> QED
    BY <2>1, OtherRecords DEF Idle
<1>4. a.sender \in Fd /\ stream \in [Fd -> Bursts]
  BY DEF IInv, TypeOK, Message, Bursts
<1>5. stream' = Pushed(stream, a.sender, burst)
  BY <1>1
<1> HIDE DEF burst
<1>6. \A d \in Fd : stream'[d] = stream[d] \/ stream'[d] = Append(stream[d], burst)
  BY <1>4, <1>5 DEF Pushed
<1>7. \A d \in Fd, m \in Message : Puts(m, Append(stream[d], burst)) = Puts(m, stream[d])
  BY <1>3, <1>4, AppendIdle
<1>8. \A d \in Fd, m \in Message : Puts(m, stream'[d]) = Puts(m, stream[d])
  BY ZenonT(20), SMTT(20), <1>6, <1>7
<1> QED
  BY SMTT(30), ZenonT(20), <1>1, <1>2, <1>8, QuietDelivers

LEMMA PortBroadcastDelivers ==
    ASSUME IInv, Deliveries, NEW c \in Fd, PortBroadcast(c)
    PROVE  Deliveries'
<1> DEFINE e == [n |-> Len(said) + 1, by |-> conn[c]]
           burst == {Broadcast(e)}
<1>1. UNCHANGED <<channels, messages, nextMessage>>
  BY SMTT(30), ZenonT(20) DEF PortBroadcast
<1>2. \A d \in Fd : stream'[d] = stream[d] \/ stream'[d] = Append(stream[d], burst)
  BY DEF PortBroadcast
<1>3. Idle(burst)
  <2>1. e \in Event
    BY SMTT(30), ZenonT(20) DEF PortBroadcast, Serving, IInv, TypeOK, Event
  <2>2. burst \in SUBSET Record
    BY <2>1 DEF Broadcast, Record
  <2> QED
    BY SMTT(30), ZenonT(20), <2>2, OtherRecords DEF Idle
<1>4. stream \in [Fd -> Bursts]
  BY DEF IInv, TypeOK, Bursts
<1> HIDE DEF burst
<1>5. \A d \in Fd, m \in Message : Puts(m, Append(stream[d], burst)) = Puts(m, stream[d])
  BY <1>3, <1>4, AppendIdle
<1>6. \A d \in Fd, m \in Message : Puts(m, stream'[d]) = Puts(m, stream[d])
  BY ZenonT(20), SMTT(20), <1>2, <1>5
<1> QED
  BY SMTT(30), ZenonT(20), <1>1, <1>6, QuietDelivers

\* The owner's conversations end with its channel, so the empty stream that is
\* left owes nothing.
LEMMA DropDelivers ==
    ASSUME IInv, Deliveries, NEW c \in Fd, Drop(c)
    PROVE  Deliveries'
<1> DEFINE gone == Orphans(c)
           told == Told(stream, gone)
<1>1. gone \subseteq messages
  BY DEF Orphans
<1>2. /\ channels' = {h \in channels : h.fd # c}
      /\ messages' \subseteq messages
      /\ stream' = [told EXCEPT ![c] = <<>>]
      /\ UNCHANGED nextMessage
  BY DEF Drop
<1>3. told \in [Fd -> Bursts]
  BY <1>1, ToldType, Zenon DEF IInv, TypeOK, Streams, Bursts
<1>4. \A d \in Fd, m \in Message : Puts(m, told[d]) = Puts(m, stream[d])
  BY <1>1, ToldIdle, Zenon DEF IInv
<1> HIDE DEF told, gone
<1>5. \A d \in Fd, m \in Message : d # c => Puts(m, stream'[d]) = Puts(m, stream[d])
  BY <1>2, <1>3, <1>4
<1>6. \A m \in Message : Puts(m, stream'[c]) = {}
  <2>1. stream'[c] = <<>>
    BY <1>2, <1>3
  <2> QED
    BY <2>1 DEF Puts
<1>7. /\ \A m \in messages' : m \in Message /\ m \in messages
      /\ \A h \in channels' : h.fd \in Fd /\ h \in channels /\ h.fd # c
  BY SMTT(30), ZenonT(20), <1>2 DEF IInv, TypeOK, Channel
<1>8. \A h, g \in channels' : h.pid = g.pid => h = g
  BY SMTT(20), ZenonT(20), <1>7 DEF Deliveries
<1>9. \A d \in Fd, m \in Message : m.id >= nextMessage' => Puts(m, stream'[d]) = {}
  BY ZenonT(20), SMTT(20), <1>2, <1>5, <1>6 DEF Deliveries
<1>10. \A m \in messages', h \in channels' :
           h.pid = m.owner => \E k \in Nat : Puts(m, stream'[h.fd]) = {k}
  BY <1>5, <1>7 DEF Deliveries
<1> QED
  BY SMTT(20), ZenonT(20), <1>8, <1>9, <1>10 DEF Deliveries

\* A new channel is its process's only one, and nothing is owed down it.
LEMMA PortAttachDelivers ==
    ASSUME IInv, Deliveries, NEW c \in Fd, PortAttach(c)
    PROVE  Deliveries'
<1> DEFINE existing == {h \in channels : h.pid = conn[c]}
           gone == IF existing = {} THEN {} ELSE MessagesForOwner(conn[c])
           told == Told(stream, gone)
           new == [fd |-> c, pid |-> conn[c]]
<1>1. gone \subseteq messages
  BY SMTT(30), ZenonT(20) DEF MessagesForOwner
<1>2. /\ channels' = (channels \ existing) \cup {new}
      /\ messages' = messages \ gone
      /\ stream' = [told EXCEPT ![c] = told[c] \o Replay(c)]
      /\ UNCHANGED nextMessage
  BY SMTT(20), ZenonT(20) DEF PortAttach
<1>3. \A m \in messages' : m.owner # conn[c]
  <2> SUFFICES ASSUME NEW m \in messages', m.owner = conn[c] PROVE FALSE
    OBVIOUS
  <2>1. PICK h \in channels : h.pid = m.owner
    BY <1>2, Zenon DEF IInv, Answerable
  <2>2. existing # {}
    BY SMTT(30), ZenonT(20), <2>1
  <2> QED
    BY ZenonT(20), SMTT(20), <1>2, <2>2 DEF MessagesForOwner
<1>4. \A h \in channels' : h = new \/ (h \in channels /\ h.pid # conn[c])
  BY <1>2
<1>5. new.pid = conn[c]
  OBVIOUS
<1>6. told \in [Fd -> Bursts] /\ Replay(c) \in Bursts
  BY <1>1, ToldType, ReplayType, Zenon DEF IInv, TypeOK, Streams, Bursts
<1>7. \A d \in Fd, m \in Message : Puts(m, told[d]) = Puts(m, stream[d])
  BY <1>1, ToldIdle, Zenon DEF IInv
<1>8. \A m \in Message : \A k \in 1..Len(Replay(c)) : Put(m) \notin Replay(c)[k]
  <2> SUFFICES ASSUME NEW m \in Message, NEW k \in 1..Len(Replay(c))
               PROVE  Put(m) \notin Replay(c)[k]
    OBVIOUS
  <2>1. Replay(c)[k] = {Broadcast(events[k])}
    BY SMTT(30), ZenonT(20) DEF Replay, IInv, TypeOK
  <2> QED
    BY SMTT(30), ZenonT(20), <2>1, OtherRecords
<1>9. \A m \in messages' : m \in messages /\ m \in Message
  BY <1>2 DEF IInv, TypeOK
<1>10. \A h \in channels : h.fd \in Fd
  BY DEF IInv, TypeOK, Channel
<1> HIDE DEF told, gone, existing, new
<1>11. \A d \in Fd, m \in Message : Puts(m, stream'[d]) = Puts(m, stream[d])
  <2> SUFFICES ASSUME NEW d \in Fd, NEW m \in Message
               PROVE  Puts(m, stream'[d]) = Puts(m, told[d])
    BY <1>7
  <2>1. CASE d # c
    BY SMTT(30), ZenonT(20), <1>2, <1>6, <2>1
  <2>2. CASE d = c
    <3>1. stream'[d] = told[d] \o Replay(c)
      BY <1>2, <1>6, <2>2
    <3>2. told[d] \in Bursts
      BY <1>6
    <3> QED
      BY <1>6, <1>8, <3>1, <3>2, ConcatIdle
  <2> QED
    BY <2>1, <2>2
<1>12. \A h, g \in channels' : h.pid = g.pid => h = g
  BY SMTT(30), ZenonT(20), <1>4, <1>5 DEF Deliveries
<1>13. \A d \in Fd, m \in Message : m.id >= nextMessage' => Puts(m, stream'[d]) = {}
  BY SMTT(20), ZenonT(20), <1>2, <1>11 DEF Deliveries
<1>14. \A m \in messages', h \in channels' :
           h.pid = m.owner => \E k \in Nat : Puts(m, stream'[h.fd]) = {k}
  BY SMTT(20), ZenonT(20), <1>3, <1>4, <1>5, <1>9, <1>10, <1>11 DEF Deliveries
<1> QED
  BY <1>12, <1>13, <1>14 DEF Deliveries

\* PORT_PUT delivers its message, whose id is new, and no other.
LEMMA PortPutDelivers ==
    ASSUME IInv, Deliveries, NEW c \in Fd, NEW n \in Name, PortPut(c, n)
    PROVE  Deliveries'
<1>1. PICK p \in ports, to \in channels, from \in channels :
        LET m == NewMessage(p, from)
        IN /\ to.pid = p.pid
           /\ nextMessage' = nextMessage + 1
           /\ stream' = Pushed(stream, to.fd, {Put(m)})
           /\ IF to.fd \in alive
              THEN /\ messages' = messages \cup {m}
                   /\ asked' = asked \cup {<<m.id, m.sender>>}
              ELSE UNCHANGED <<messages, asked>>
  BY Zenon DEF PortPut
<1> DEFINE m == NewMessage(p, from)
           burst == {Put(m)}
<1>2. UNCHANGED channels
  BY ZenonT(20), SMTT(20) DEF PortPut
<1>3. m \in Message /\ m.id = nextMessage /\ m.owner = p.pid /\ nextMessage \in Nat
  BY SMTT(30), ZenonT(20) DEF NewMessage, Message, IInv, TypeOK, Port, Channel
<1>4. burst \in SUBSET Record
  BY SMTT(20), ZenonT(20), <1>3 DEF Message, Put, Record
<1>5. to.pid = p.pid /\ nextMessage' = nextMessage + 1
      /\ stream' = Pushed(stream, to.fd, burst)
      /\ messages' = IF to.fd \in alive THEN messages \cup {m} ELSE messages
  BY SMTT(20), ZenonT(20), <1>1
<1>6. \A x \in Message : Put(x) \in burst => x.id = m.id
  <2>1. \A x \in Message : Put(x).id = x.id /\ Put(m).id = m.id
    BY DEF Put
  <2> QED
    BY <2>1
<1>7. Put(m) \in burst
  OBVIOUS
<1>8. /\ stream \in [Fd -> Bursts]
      /\ \A x \in messages : x \in Message /\ x.id \in Nat /\ x.id < nextMessage
      /\ \A h \in channels : h.fd \in Fd
  BY ZenonT(20), SMTT(20) DEF IInv, TypeOK, Bookkeeping, Message, Channel, Bursts
<1> HIDE DEF m, burst
<1>9. ASSUME NEW d \in Fd, NEW x \in Message, d # to.fd \/ to.fd \notin alive \/ x.id # m.id
      PROVE  Puts(x, stream'[d]) = Puts(x, stream[d])
  <2>1. CASE d # to.fd \/ to.fd \notin alive
    BY SMTT(30), ZenonT(20), <1>5, <1>8, <2>1 DEF Pushed
  <2>2. CASE d = to.fd /\ to.fd \in alive
    <3>1. stream'[d] = Append(stream[d], burst)
      BY SMTT(30), ZenonT(20), <1>5, <1>8, <2>2 DEF Pushed
    <3>2. x.id # m.id
      BY <1>9, <2>2
    <3>3. Put(x) \notin burst
      BY <1>6, <3>2
    <3>4. stream[d] \in Bursts
      BY SMTT(30), ZenonT(20), <1>8
    <3>5. /\ Len(Append(stream[d], burst)) = Len(stream[d]) + 1
          /\ Append(stream[d], burst)[Len(stream[d]) + 1] = burst
          /\ \A k \in 1..Len(stream[d]) : Append(stream[d], burst)[k] = stream[d][k]
          /\ Len(stream[d]) \in Nat
      BY <1>4, <3>4 DEF Bursts
    <3> QED
      BY SMTT(30), ZenonT(20), <3>1, <3>3, <3>5 DEF Puts
  <2> QED
    BY SMTT(30), ZenonT(20), <2>1, <2>2
<1>10. to.fd \in alive => \E k \in Nat : Puts(m, stream'[to.fd]) = {k}
  <2> SUFFICES ASSUME to.fd \in alive
               PROVE  \E k \in Nat : Puts(m, stream'[to.fd]) = {k}
    OBVIOUS
  <2> DEFINE q == stream[to.fd]
  <2>1. q \in Bursts /\ stream'[to.fd] = Append(q, burst)
    BY SMTT(30), ZenonT(20), <1>5, <1>8 DEF Pushed
  <2>2. Puts(m, q) = {}
    BY SMTT(30), ZenonT(20), <1>3, <1>8 DEF Deliveries
  <2> HIDE DEF q
  <2>3. /\ Len(Append(q, burst)) = Len(q) + 1
        /\ Append(q, burst)[Len(q) + 1] = burst
        /\ \A k \in 1..Len(q) : Append(q, burst)[k] = q[k]
        /\ Len(q) \in Nat
    BY SMTT(20), ZenonT(20), <1>4, <2>1 DEF Bursts
  <2>4. Puts(m, Append(q, burst)) = {Len(q) + 1}
    BY SMTT(20), ZenonT(20), <1>7, <2>2, <2>3 DEF Puts
  <2> QED
    BY <2>1, <2>3, <2>4
<1>11. \A h, g \in channels' : h.pid = g.pid => h = g
  BY SMTT(30), ZenonT(20), <1>2 DEF Deliveries
<1>12. \A d \in Fd, x \in Message : x.id >= nextMessage' => Puts(x, stream'[d]) = {}
  <2> SUFFICES ASSUME NEW d \in Fd, NEW x \in Message, x.id >= nextMessage'
               PROVE  Puts(x, stream'[d]) = {}
    OBVIOUS
  <2>1. x.id \in Nat
    BY SMTT(30), ZenonT(20) DEF Message
  <2>2. x.id # m.id /\ x.id >= nextMessage
    BY SMTT(30), ZenonT(20), <1>3, <1>5, <2>1
  <2>3. Puts(x, stream'[d]) = Puts(x, stream[d])
    BY <1>9, <2>2
  <2> QED
    BY <2>2, <2>3 DEF Deliveries
<1>13. ASSUME NEW x \in messages', NEW h \in channels', h.pid = x.owner
       PROVE  \E k \in Nat : Puts(x, stream'[h.fd]) = {k}
  <2>1. h \in channels /\ h.fd \in Fd
    BY SMTT(30), ZenonT(20), <1>2, <1>8
  <2>2. CASE x \in messages
    <3>1. x \in Message /\ x.id # m.id
      BY SMTT(20), ZenonT(20), <1>3, <1>8, <2>2
    <3>2. Puts(x, stream'[h.fd]) = Puts(x, stream[h.fd])
      BY <1>9, <2>1, <3>1
    <3> QED
      BY SMTT(20), ZenonT(20), <1>13, <2>1, <2>2, <3>2 DEF Deliveries
  <2>3. CASE x \notin messages
    <3>1. x = m /\ to.fd \in alive
      BY SMTT(20), ZenonT(20), <1>5, <2>3
    <3>2. h = to
      BY <1>3, <1>5, <1>13, <2>1, <3>1 DEF Deliveries
    <3> QED
      BY SMTT(30), ZenonT(20), <1>10, <3>1, <3>2
  <2> QED
    BY <2>2, <2>3
<1> QED
  BY ZenonT(20), SMTT(20), <1>11, <1>12, <1>13 DEF Deliveries

\* A message in the table went once down the channel its owner reads now, for
\* any number of processes that replace their channels, reply and go.
THEOREM DeliveredOnce == Spec => []InFlightIsDelivered
<1>1. Init => Deliveries
  BY DEF Init, Deliveries, Puts
<1>2. IInv /\ Deliveries /\ [Next]_vars => Deliveries'
  <2> SUFFICES ASSUME IInv, Deliveries, [Next]_vars PROVE Deliveries'
    OBVIOUS
  <2>1. CASE UNCHANGED <<channels, messages, nextMessage, stream>>
    <3>1. \A d \in Fd, m \in Message : Puts(m, stream'[d]) = Puts(m, stream[d])
      BY SMTT(30), ZenonT(20), <2>1
    <3> QED
      BY <2>1, <3>1, QuietDelivers
  <2>2. ASSUME NEW c \in Fd,
               \/ \E p \in Pid : Accept(c, p)
               \/ HangUp(c)
               \/ \E n \in Name : PortAdd(c, n)
        PROVE  UNCHANGED <<channels, messages, nextMessage, stream>>
    BY <2>2 DEF Accept, HangUp, PortAdd, Registry
  <2>3. CASE UNCHANGED vars
    BY SMTT(30), ZenonT(20), <2>1, <2>3 DEF vars
  <2>4. CASE Next
    BY <2>1, <2>2, <2>4, PortRemDelivers, PortAttachDelivers, PortPutDelivers,
       PortReplyDelivers, PortBroadcastDelivers, DropDelivers
       DEF Next
  <2> QED
    BY <2>3, <2>4
<1>3. IInv /\ Deliveries => InFlightIsDelivered
  <2> SUFFICES ASSUME IInv, Deliveries, NEW m \in messages, NEW h \in channels,
                      h.pid = m.owner
               PROVE  \E k \in 1..Len(stream[h.fd]) :
                          /\ Put(m) \in stream[h.fd][k]
                          /\ \A j \in 1..Len(stream[h.fd]) :
                                 Put(m) \in stream[h.fd][j] => j = k
    BY SMTT(30), ZenonT(20) DEF InFlightIsDelivered
  <2>1. PICK k \in Nat : Puts(m, stream[h.fd]) = {k}
    BY DEF Deliveries
  <2>2. \A j : j = k <=> j \in 1..Len(stream[h.fd]) /\ Put(m) \in stream[h.fd][j]
    <3>1. \A j : j \in Puts(m, stream[h.fd])
                   <=> j \in 1..Len(stream[h.fd]) /\ Put(m) \in stream[h.fd][j]
      BY Zenon DEF Puts
    <3> QED
      BY <2>1, <3>1, Zenon
  <2>3. k \in 1..Len(stream[h.fd]) /\ Put(m) \in stream[h.fd][k]
    BY <2>2, Zenon
  <2>4. \A j \in 1..Len(stream[h.fd]) : Put(m) \in stream[h.fd][j] => j = k
    BY <2>2, Zenon
  <2> QED
    BY <2>3, <2>4, Zenon
<1> QED
  BY <1>1, <1>2, <1>3, PortsInductive, PTL DEF Spec
=============================================================================
