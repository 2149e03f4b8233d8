------------------------- MODULE BrokerPortsStreams -------------------------
(***************************************************************************)
(* What BrokerPorts promises the reader of a stream, proved with the       *)
(* invariant of BrokerPortsProofs: that a sender hears of each message     *)
(* once (the refinement of PortConversation), and that a channel hears     *)
(* the broadcasts of the others in order.                                  *)
(***************************************************************************)
EXTENDS BrokerPortsProofs
-----------------------------------------------------------------------------
(***************************************************************************)
(* The promise to a sender.  What ends a conversation is in the stream of  *)
(* the one connection it is owed to; a step that abandons messages, drops  *)
(* a connection or both is a Depart of PortConversation.                   *)
(***************************************************************************)

\* A stream holds the outcome op of message id.
Tells(op, id, burst) == \E r \in burst : r.op = op /\ r.id = id
Seen(op, id, q) == \E k \in 1..Len(q) : Tells(op, id, q[k])

Owed(id) == {c \in alive : <<id, c>> \in asked}
InTable(id) == \E m \in messages : m.id = id
Got(op, id) == \E c \in Owed(id) : Seen(op, id, stream[c])

LEMMA MessageIds == LastMessage \in Nat /\ \A id \in 1..LastMessage : id \in Nat
<1>1. LastMessage \in Nat
  BY PortConstants
<1> QED
  BY <1>1

LEMMA ConversationIs ==
    ASSUME NEW id
    PROVE  Conversation(id) =
             IF id >= nextMessage THEN "unsent"
             ELSE IF Owed(id) = {} THEN "forgotten"
             ELSE IF InTable(id) THEN "pending"
             ELSE IF Got("reply", id) THEN "replied"
             ELSE IF Got("abandoned", id) THEN "abandoned"
             ELSE "lost"
BY Zenon DEF Conversation, Owed, InTable, Got, Seen, Tells

LEMMA SeenAppend ==
    ASSUME NEW q \in Bursts, NEW burst \in SUBSET Record, NEW op, NEW id
    PROVE  Seen(op, id, Append(q, burst)) <=> Seen(op, id, q) \/ Tells(op, id, burst)
<1>1. /\ Len(Append(q, burst)) = Len(q) + 1
      /\ Append(q, burst)[Len(q) + 1] = burst
      /\ \A k \in 1..Len(q) : Append(q, burst)[k] = q[k]
      /\ Len(q) \in Nat
  BY DEF Bursts
<1> QED
  BY <1>1 DEF Seen

LEMMA SeenConcat ==
    ASSUME NEW q \in Bursts, NEW r \in Bursts, NEW op, NEW id
    PROVE  Seen(op, id, q \o r) <=> Seen(op, id, q) \/ Seen(op, id, r)
<1>1. /\ Len(q \o r) = Len(q) + Len(r)
      /\ \A k \in 1..Len(q) : (q \o r)[k] = q[k]
      /\ \A k \in 1..Len(r) : (q \o r)[k + Len(q)] = r[k]
      /\ \A k \in 1..Len(q \o r) :
            (q \o r)[k] = IF k <= Len(q) THEN q[k] ELSE r[k - Len(q)]
      /\ Len(q) \in Nat /\ Len(r) \in Nat
  BY DEF Bursts
<1>2. ASSUME Seen(op, id, q \o r)
      PROVE  Seen(op, id, q) \/ Seen(op, id, r)
  <2>1. PICK k \in 1..Len(q \o r) : Tells(op, id, (q \o r)[k])
    BY <1>2 DEF Seen
  <2>2. CASE k <= Len(q)
    BY <1>1, <2>1, <2>2 DEF Seen
  <2>3. CASE ~(k <= Len(q))
    <3>1. k - Len(q) \in 1..Len(r) /\ Tells(op, id, r[k - Len(q)])
      BY SMTT(30), ZenonT(20), <1>1, <2>1, <2>3
    <3> QED
      BY <3>1 DEF Seen
  <2> QED
    BY SMTT(30), ZenonT(20), <2>2, <2>3
<1>3. ASSUME Seen(op, id, q)
      PROVE  Seen(op, id, q \o r)
  BY <1>1, <1>3 DEF Seen
<1>4. ASSUME Seen(op, id, r)
      PROVE  Seen(op, id, q \o r)
  <2>1. PICK k \in 1..Len(r) : Tells(op, id, r[k])
    BY <1>4 DEF Seen
  <2>2. k + Len(q) \in 1..Len(q \o r) /\ Tells(op, id, (q \o r)[k + Len(q)])
    BY <1>1, <2>1
  <2> QED
    BY <2>2 DEF Seen
<1> QED
  BY <1>2, <1>3, <1>4

\* An outcome is a reply or a notice that the message was abandoned.
LEMMA OutcomeIsSeen ==
    ASSUME NEW id, NEW q
    PROVE  Outcomes(id, q) # {} <=> Seen("reply", id, q) \/ Seen("abandoned", id, q)
BY SMTT(30), ZenonT(20) DEF Outcomes, Ends, Seen, Tells

LEMMA ToldSeen ==
    ASSUME TypeOK, NEW gone, gone \subseteq messages, NEW c \in Fd, NEW id, NEW op,
           op = "reply" \/ (op = "abandoned" /\ \A m \in gone : m.id # id)
    PROVE  Seen(op, id, Told(stream, gone)[c]) <=> Seen(op, id, stream[c])
<1> DEFINE mine == {m \in gone : m.sender = c}
           burst == {Abandoned(m) : m \in mine}
<1>1. stream[c] \in Bursts
  BY SMTT(30), ZenonT(20) DEF TypeOK, Bursts
<1>2. burst \in SUBSET Record
  BY SMTT(20), ZenonT(20) DEF TypeOK, Message, Abandoned, Record
<1>3. ~Tells(op, id, burst)
  <2>1. \A m \in mine : Abandoned(m).op = "abandoned" /\ Abandoned(m).id = m.id
    BY SMTT(30), ZenonT(20) DEF Abandoned
  <2> QED
    BY <2>1 DEF Tells
<1>4. CASE c \in alive /\ mine # {}
  <2>1. Told(stream, gone)[c] = Append(stream[c], burst)
    BY <1>4 DEF Told
  <2> HIDE DEF burst
  <2>2. Seen(op, id, Append(stream[c], burst)) <=> Seen(op, id, stream[c])
    BY SMTT(30), ZenonT(20), <1>1, <1>2, <1>3, SeenAppend
  <2> QED
    BY SMTT(30), ZenonT(20), <2>1, <2>2
<1>5. CASE ~(c \in alive /\ mine # {})
  BY <1>5 DEF Told
<1> QED
  BY <1>4, <1>5

LEMMA ConversationNext ==
    ASSUME NEW id
    PROVE  Conversation(id)' =
             IF id >= nextMessage' THEN "unsent"
             ELSE IF Owed(id)' = {} THEN "forgotten"
             ELSE IF InTable(id)' THEN "pending"
             ELSE IF Got("reply", id)' THEN "replied"
             ELSE IF Got("abandoned", id)' THEN "abandoned"
             ELSE "lost"
BY Zenon DEF Conversation, Owed, InTable, Got, Seen, Tells

\* What IInv says of a message that is owed to somebody who is there.
LEMMA OwedOnce ==
    ASSUME IInv, NEW id \in Nat, NEW c \in Owed(id)
    PROVE  /\ Owed(id) = {c} /\ c \in Fd
           /\ InTable(id) => ~Seen("reply", id, stream[c])
           /\ ~InTable(id) => Seen("reply", id, stream[c]) \/ Seen("abandoned", id, stream[c])
<1>1. c \in alive /\ <<id, c>> \in asked
  BY DEF Owed
<1>2. c \in Fd
  BY <1>1 DEF IInv, TypeOK
<1>3. Owed(id) = {c}
  <2>1. \A d \in Owed(id) : <<id, d>> \in asked
    BY DEF Owed
  <2>2. \A d \in Owed(id) : <<id, d>> = <<id, c>>
    BY ZenonT(40), SMTT(40), <1>1, <2>1 DEF IInv, Bookkeeping
  <2> QED
    BY <2>2
<1>4. /\ InTable(id) => Outcomes(id, stream[c]) = {}
      /\ ~InTable(id) => Outcomes(id, stream[c]) # {}
  <2>1. <<id, c>>[1] = id /\ <<id, c>>[2] = c
    OBVIOUS
  <2>2. IF \E m \in messages : m.id = id
        THEN Outcomes(id, stream[c]) = {}
        ELSE \E k \in 1..Len(stream[c]) : Outcomes(id, stream[c]) = {k}
    BY ZenonT(40), SMTT(40), <1>1, <2>1 DEF IInv, OneOutcomeEach
  <2> QED
    BY <2>2 DEF InTable
<1> QED
  BY <1>2, <1>3, <1>4, OutcomeIsSeen

\* The same after the step.
LEMMA OwedOnceNext ==
    ASSUME IInv', NEW id \in Nat, NEW c \in Owed(id)'
    PROVE  /\ Owed(id)' = {c} /\ c \in Fd
           /\ InTable(id)' => ~Seen("reply", id, stream'[c])
           /\ ~InTable(id)' =>
                Seen("reply", id, stream'[c]) \/ Seen("abandoned", id, stream'[c])
<1>1. c \in alive' /\ <<id, c>> \in asked'
  BY DEF Owed
<1>2. c \in Fd
  BY <1>1 DEF IInv, TypeOK
<1>3. Owed(id)' = {c}
  <2>1. \A d \in Owed(id)' : <<id, d>> \in asked'
    BY DEF Owed
  <2>2. \A d \in Owed(id)' : <<id, d>> = <<id, c>>
    BY ZenonT(40), SMTT(40), <1>1, <2>1 DEF IInv, Bookkeeping
  <2> QED
    BY <2>2
<1>4. /\ InTable(id)' => Outcomes(id, stream'[c]) = {}
      /\ ~InTable(id)' => Outcomes(id, stream'[c]) # {}
  <2>1. <<id, c>>[1] = id /\ <<id, c>>[2] = c
    OBVIOUS
  <2>2. IF \E m \in messages' : m.id = id
        THEN Outcomes(id, stream'[c]) = {}
        ELSE \E k \in 1..Len(stream'[c]) : Outcomes(id, stream'[c]) = {k}
    BY ZenonT(40), SMTT(40), <1>1, <2>1 DEF IInv, OneOutcomeEach
  <2> QED
    BY SMTT(60), ZenonT(20), <2>2 DEF InTable
<1> QED
  BY <1>2, <1>3, <1>4, OutcomeIsSeen

\* A step that ends messages by abandoning them, and forgets what was owed to
\* those who went, keeps the promise.
LEMMA Departs ==
    ASSUME IInv, IInv', nextMessage' = nextMessage, messages' \subseteq messages,
           \A id \in Nat : Owed(id)' \subseteq Owed(id),
           \A c \in alive', id \in Nat :
               /\ c \in Fd => (Seen("reply", id, stream'[c]) <=> Seen("reply", id, stream[c]))
               /\ c \in Fd /\ ~InTable(id) =>
                    (Seen("abandoned", id, stream'[c]) <=> Seen("abandoned", id, stream[c]))
    PROVE  Promise!Next
<1> DEFINE Id == 1..LastMessage
           F == {id \in Id : Conversation(id) # "unsent" /\ Conversation(id)' = "forgotten"}
           A == {id \in Id : Conversation(id) = "pending" /\ Conversation(id)' = "abandoned"}
<1>1. ASSUME NEW id \in Id, id \notin F, id \notin A
      PROVE  Conversation(id)' = Conversation(id)
  <2>0. id \in Nat /\ nextMessage \in Nat
    BY MessageIds DEF IInv, TypeOK
  <2>1. CASE id >= nextMessage
    BY ZenonT(40), SMTT(40), <2>1, ConversationIs, ConversationNext
  <2>2. CASE ~(id >= nextMessage)
    <3>1. Conversation(id) # "unsent"
      BY ZenonT(40), SMTT(40), <2>2, ConversationIs
    <3>2. Owed(id)' # {}
      BY SMTT(20), ZenonT(20), <1>1, <2>2, <3>1, ConversationNext
    <3>3. PICK c \in Owed(id)' : TRUE
      BY SMTT(30), ZenonT(20), <3>2
    <3>4. c \in Owed(id) /\ c \in alive'
      BY SMTT(20), ZenonT(20), <2>0, <3>3 DEF Owed
    <3>5. /\ Owed(id) = {c} /\ c \in Fd
          /\ InTable(id) => ~Seen("reply", id, stream[c])
      BY SMTT(20), ZenonT(20), <2>0, <3>4, OwedOnce
    <3>6. /\ Owed(id)' = {c}
          /\ ~InTable(id)' =>
                Seen("reply", id, stream'[c]) \/ Seen("abandoned", id, stream'[c])
      BY SMTT(20), ZenonT(20), <2>0, <3>3, OwedOnceNext
    <3>7. /\ Got("reply", id) <=> Seen("reply", id, stream[c])
          /\ Got("abandoned", id) <=> Seen("abandoned", id, stream[c])
      BY SMTT(20), ZenonT(20), <3>5 DEF Got
    <3>8. /\ Got("reply", id)' <=> Seen("reply", id, stream'[c])
          /\ Got("abandoned", id)' <=> Seen("abandoned", id, stream'[c])
      BY ZenonT(40), SMTT(40), <3>6 DEF Got, Seen
    <3>9. InTable(id)' => InTable(id)
      BY SMTT(30), ZenonT(20) DEF InTable
    <3>10. /\ Seen("reply", id, stream'[c]) <=> Seen("reply", id, stream[c])
           /\ ~InTable(id) =>
                (Seen("abandoned", id, stream'[c]) <=> Seen("abandoned", id, stream[c]))
      BY SMTT(20), ZenonT(20), <2>0, <3>4, <3>5
    <3>11. CASE InTable(id)'
      BY SMTT(20), ZenonT(20), <2>2, <3>5, <3>6, <3>9, <3>11, ConversationIs,
         ConversationNext
    <3>12. CASE ~InTable(id)' /\ InTable(id)
      <4>1. Conversation(id) = "pending"
        BY SMTT(20), ZenonT(20), <2>2, <3>5, <3>12, ConversationIs
      <4>2. ~Seen("reply", id, stream'[c]) /\ Seen("abandoned", id, stream'[c])
        BY SMTT(20), ZenonT(20), <3>5, <3>6, <3>10, <3>12
      <4>3. Conversation(id)' = "abandoned"
        BY SMTT(20), ZenonT(20), <2>2, <3>6, <3>8, <3>12, <4>2, ConversationNext
      <4> QED
        BY ZenonT(40), SMTT(40), <1>1, <4>1, <4>3
    <3>13. CASE ~InTable(id)
      BY SMTT(20), ZenonT(20), <2>2, <3>5, <3>6, <3>7, <3>8, <3>9, <3>10, <3>13,
         ConversationIs, ConversationNext
    <3> QED
      BY ZenonT(40), SMTT(40), <3>11, <3>12, <3>13
  <2> QED
    BY SMTT(30), ZenonT(20), <2>1, <2>2
<1>2. /\ F \in SUBSET Id /\ A \in SUBSET Id
      /\ \A id \in A : Conversation(id) = "pending" /\ Conversation(id)' = "abandoned"
      /\ \A id \in F : Conversation(id) # "unsent" /\ Conversation(id)' = "forgotten"
  OBVIOUS
<1> HIDE DEF F, A
<1>3. [id \in Id |-> Conversation(id)'] =
        [id \in Id |-> IF id \in F THEN "forgotten"
                       ELSE IF id \in A THEN "abandoned"
                       ELSE Conversation(id)]
  BY SMTT(30), ZenonT(20), <1>1, <1>2
<1>4. Promise!Depart(A, F)
  BY SMTT(20), ZenonT(20), <1>2, <1>3 DEF Promise!Depart
<1> QED
  BY <1>2, <1>4 DEF Promise!Next

\* Nothing that Conversation() looks at has changed for id.
LEMMA Unmoved ==
    ASSUME NEW id, id >= nextMessage' <=> id >= nextMessage,
           Owed(id)' = Owed(id), InTable(id)' <=> InTable(id),
           \A c \in Owed(id) :
               /\ Seen("reply", id, stream'[c]) <=> Seen("reply", id, stream[c])
               /\ Seen("abandoned", id, stream'[c]) <=> Seen("abandoned", id, stream[c])
    PROVE  Conversation(id)' = Conversation(id)
<1>1. /\ Got("reply", id)' <=> Got("reply", id)
      /\ Got("abandoned", id)' <=> Got("abandoned", id)
  BY Zenon DEF Got, Seen, Tells
<1> QED
  BY <1>1, ConversationIs, ConversationNext

\* A burst that says nothing of id, pushed or not.
LEMMA PushedSeen ==
    ASSUME TypeOK, NEW c \in Fd, NEW burst \in SUBSET Record, NEW d \in Fd, NEW id,
           NEW op, ~Tells(op, id, burst)
    PROVE  Seen(op, id, Pushed(stream, c, burst)[d]) <=> Seen(op, id, stream[d])
<1>1. stream[c] \in Bursts
  BY DEF TypeOK, Bursts
<1>2. CASE c \in alive /\ d = c
  <2>1. Pushed(stream, c, burst)[d] = Append(stream[c], burst)
    BY <1>2 DEF Pushed, TypeOK
  <2>2. Seen(op, id, Append(stream[c], burst)) <=> Seen(op, id, stream[c])
    BY <1>1, SeenAppend
  <2> QED
    BY ZenonT(40), SMTT(40), <1>2, <2>1, <2>2
<1>3. CASE ~(c \in alive /\ d = c)
  BY <1>3 DEF Pushed, TypeOK
<1> QED
  BY ZenonT(40), SMTT(40), <1>2, <1>3

\* Nobody is owed anything more, and no stream says more.
LEMMA ConnectionPromise ==
    ASSUME IInv, IInv', NEW c \in Fd,
           \/ \E p \in Pid : Accept(c, p)
           \/ HangUp(c)
           \/ \E n \in Name : PortAdd(c, n)
    PROVE  Promise!Next
<1>1. UNCHANGED <<messages, nextMessage, stream, asked>>
  BY SMTT(30), ZenonT(20) DEF Accept, HangUp, PortAdd, Registry
<1>2. \A d \in alive' : d \in alive \/ conn[d] = NoPid
  BY DEF Accept, HangUp, PortAdd
<1>3. \A id \in Nat : Owed(id)' \subseteq Owed(id)
  <2> SUFFICES ASSUME NEW id \in Nat, NEW d \in Owed(id)'
               PROVE  d \in Owed(id)
    OBVIOUS
  <2>1. d \in alive' /\ <<id, d>> \in asked
    BY SMTT(30), ZenonT(20), <1>1 DEF Owed
  <2>2. conn[d] # NoPid
    BY SMTT(20), ZenonT(20), <2>1 DEF IInv, OpenOnly
  <2> QED
    BY <1>2, <2>1, <2>2 DEF Owed
<1> QED
  BY SMTT(20), ZenonT(20), <1>1, <1>3, Departs

LEMMA PortRemPromise ==
    ASSUME IInv, IInv', NEW c \in Fd, NEW port, PortRem(c, port)
    PROVE  Promise!Next
<1> DEFINE gone == MessagesForPort(port)
<1>1. /\ messages' = messages \ gone /\ stream' = Told(stream, gone)
      /\ UNCHANGED <<alive, nextMessage, asked>>
  BY DEF PortRem
<1>2. gone \subseteq messages /\ TypeOK /\ alive \subseteq Fd
  BY ZenonT(40), SMTT(40) DEF MessagesForPort, IInv, TypeOK
<1> HIDE DEF gone
<1>3. \A d \in Fd, id \in Nat :
        /\ Seen("reply", id, stream'[d]) <=> Seen("reply", id, stream[d])
        /\ ~InTable(id) =>
             (Seen("abandoned", id, stream'[d]) <=> Seen("abandoned", id, stream[d]))
  BY ZenonT(40), SMTT(40), <1>1, <1>2, ToldSeen DEF InTable
<1>4. \A id \in Nat : Owed(id)' \subseteq Owed(id)
  BY SMTT(30), ZenonT(20), <1>1 DEF Owed
<1> QED
  BY ZenonT(40), SMTT(40), <1>1, <1>3, <1>4, Departs

LEMMA PortAttachPromise ==
    ASSUME IInv, IInv', NEW c \in Fd, PortAttach(c)
    PROVE  Promise!Next
<1> DEFINE existing == {h \in channels : h.pid = conn[c]}
           gone == IF existing = {} THEN {} ELSE MessagesForOwner(conn[c])
           told == Told(stream, gone)
<1>1. gone \subseteq messages
  BY SMTT(30), ZenonT(20) DEF MessagesForOwner
<1>2. /\ messages' = messages \ gone
      /\ stream' = [told EXCEPT ![c] = told[c] \o Replay(c)]
      /\ UNCHANGED <<alive, nextMessage, asked>>
  BY DEF PortAttach
<1>3. told \in [Fd -> Bursts] /\ Replay(c) \in Bursts
  BY <1>1, ToldType, ReplayType, Zenon DEF IInv, TypeOK, Streams, Bursts
<1>4. TypeOK
  BY DEF IInv
<1> HIDE DEF gone
<1>5. \A d \in Fd, id \in Nat :
        /\ Seen("reply", id, told[d]) <=> Seen("reply", id, stream[d])
        /\ ~InTable(id) =>
             (Seen("abandoned", id, told[d]) <=> Seen("abandoned", id, stream[d]))
  BY ZenonT(40), SMTT(40), <1>1, <1>4, ToldSeen DEF InTable
<1>6. \A id \in Nat : ~Seen("reply", id, Replay(c)) /\ ~Seen("abandoned", id, Replay(c))
  <2> SUFFICES ASSUME NEW k \in 1..Len(Replay(c)), NEW id \in Nat,
                      NEW r \in Replay(c)[k]
               PROVE  r.op = "broadcast"
    BY ZenonT(40), SMTT(40) DEF Seen, Tells
  <2>1. Replay(c)[k] = {Broadcast(events[k])}
    BY <1>4 DEF Replay, TypeOK
  <2> QED
    BY SMTT(40), ZenonT(20), <2>1 DEF Broadcast
<1> HIDE DEF told
<1>7. \A d \in Fd : stream'[d] = told[d] \/ stream'[d] = told[d] \o Replay(c)
  BY SMTT(20), ZenonT(20), <1>2, <1>3
<1>8. \A d \in Fd, id \in Nat :
        /\ Seen("reply", id, stream'[d]) <=> Seen("reply", id, told[d])
        /\ Seen("abandoned", id, stream'[d]) <=> Seen("abandoned", id, told[d])
  <2> SUFFICES ASSUME NEW d \in Fd, NEW id \in Nat
               PROVE  /\ Seen("reply", id, stream'[d]) <=> Seen("reply", id, told[d])
                      /\ Seen("abandoned", id, stream'[d]) <=> Seen("abandoned", id, told[d])
    OBVIOUS
  <2>1. told[d] \in Bursts
    BY <1>3
  <2>2. /\ Seen("reply", id, told[d] \o Replay(c)) <=> Seen("reply", id, told[d])
        /\ Seen("abandoned", id, told[d] \o Replay(c)) <=> Seen("abandoned", id, told[d])
    BY <1>3, <1>6, <2>1, SeenConcat
  <2> QED
    BY ZenonT(40), SMTT(40), <1>7, <2>2
<1>9. \A id \in Nat : Owed(id)' \subseteq Owed(id)
  BY <1>2 DEF Owed
<1> QED
  BY SMTT(30), ZenonT(20), <1>2, <1>5, <1>8, <1>9, Departs

LEMMA PortBroadcastPromise ==
    ASSUME IInv, IInv', NEW c \in Fd, PortBroadcast(c)
    PROVE  Promise!Next
<1> DEFINE e == [n |-> Len(said) + 1, by |-> conn[c]]
           burst == {Broadcast(e)}
<1>1. UNCHANGED <<alive, messages, nextMessage, asked>>
  BY Zenon DEF PortBroadcast
<1>2. \A d \in Fd : stream'[d] = stream[d] \/ stream'[d] = Append(stream[d], burst)
  BY SMTT(20), ZenonT(20) DEF PortBroadcast
<1>3. burst \in SUBSET Record
  BY SMTT(20), ZenonT(20) DEF PortBroadcast, Serving, IInv, TypeOK, Event, Broadcast,
     Record
<1>4. \A id \in Nat : ~Tells("reply", id, burst) /\ ~Tells("abandoned", id, burst)
  BY DEF Tells, Broadcast
<1>5. stream \in [Fd -> Bursts]
  BY SMTT(20), ZenonT(20) DEF IInv, TypeOK, Bursts
<1> HIDE DEF burst
<1>6. \A d \in Fd, id \in Nat :
        /\ Seen("reply", id, stream'[d]) <=> Seen("reply", id, stream[d])
        /\ Seen("abandoned", id, stream'[d]) <=> Seen("abandoned", id, stream[d])
  <2> SUFFICES ASSUME NEW d \in Fd, NEW id \in Nat
               PROVE  /\ Seen("reply", id, stream'[d]) <=> Seen("reply", id, stream[d])
                      /\ Seen("abandoned", id, stream'[d]) <=> Seen("abandoned", id, stream[d])
    OBVIOUS
  <2>1. stream[d] \in Bursts
    BY <1>5
  <2>2. /\ Seen("reply", id, Append(stream[d], burst)) <=> Seen("reply", id, stream[d])
        /\ Seen("abandoned", id, Append(stream[d], burst)) <=> Seen("abandoned", id, stream[d])
    BY <1>3, <1>4, <2>1, SeenAppend
  <2> QED
    BY ZenonT(40), SMTT(40), <1>2, <2>2
<1>7. \A id \in Nat : Owed(id)' \subseteq Owed(id)
  BY SMTT(20), ZenonT(20), <1>1 DEF Owed
<1> QED
  BY ZenonT(40), SMTT(40), <1>1, <1>6, <1>7, Departs

LEMMA DropPromise ==
    ASSUME IInv, IInv', NEW c \in Fd, Drop(c)
    PROVE  Promise!Next
<1> DEFINE gone == Orphans(c)
           told == Told(stream, gone)
<1>1. gone \subseteq messages /\ TypeOK
  BY SMTT(20), ZenonT(20) DEF Orphans, IInv
<1>2. /\ messages' \subseteq messages
      /\ stream' = [told EXCEPT ![c] = <<>>]
      /\ alive' = alive \ {c}
      /\ asked' \subseteq asked
      /\ UNCHANGED nextMessage
  BY ZenonT(40), SMTT(40) DEF Drop
<1>3. told \in [Fd -> Bursts]
  BY <1>1, ToldType, Zenon DEF TypeOK, Streams, Bursts
<1> HIDE DEF gone
<1>4. \A d \in Fd, id \in Nat :
        /\ Seen("reply", id, told[d]) <=> Seen("reply", id, stream[d])
        /\ ~InTable(id) =>
             (Seen("abandoned", id, told[d]) <=> Seen("abandoned", id, stream[d]))
  BY ZenonT(40), SMTT(40), <1>1, ToldSeen DEF InTable
<1> HIDE DEF told
<1>5. \A d \in Fd : d # c => stream'[d] = told[d]
  BY <1>2, <1>3
<1>6. \A d \in alive' : d # c
  BY <1>2
<1>7. \A id \in Nat : Owed(id)' \subseteq Owed(id)
  BY <1>2 DEF Owed
<1> QED
  BY SMTT(30), ZenonT(20), <1>2, <1>4, <1>5, <1>6, <1>7, Departs

\* The sender that is there gets its reply; one that has gone is owed nothing.
LEMMA PortReplyPromise ==
    ASSUME IInv, IInv', NEW c \in Fd, NEW i \in 1..LastMessage, PortReply(c, i)
    PROVE  Promise!Next
<1>1. PICK m \in messages :
        /\ m.id = i
        /\ messages' = messages \ {m}
        /\ stream' = Pushed(stream, m.sender, {Answer(m)})
  BY Zenon DEF PortReply
<1>2. UNCHANGED <<alive, nextMessage, asked>>
  BY SMTT(30), ZenonT(20) DEF PortReply
<1>3. /\ m.sender \in Fd /\ m.id \in Nat /\ m.id < nextMessage
      /\ <<m.id, m.sender>> \in asked
      /\ \A n \in messages : n.id = m.id => n = m
      /\ nextMessage \in Nat
  BY SMTT(60), ZenonT(20) DEF IInv, TypeOK, Message, Bookkeeping
<1> DEFINE s == m.sender
           burst == {Answer(m)}
<1>4. burst \in SUBSET Record
  <2>1. Answer(m) \in Record
    BY Zenon DEF Answer, Record, IInv, TypeOK, Message
  <2> QED
    BY <2>1
<1>5. /\ \A id \in Nat : ~Tells("abandoned", id, burst)
      /\ \A id \in Nat : Tells("reply", id, burst) <=> id = i
  BY <1>1 DEF Tells, Answer
<1>6. stream' = Pushed(stream, s, burst) /\ s \in Fd /\ TypeOK
  BY <1>1, <1>3 DEF IInv
<1> HIDE DEF burst, s
<1>7. \A d \in Fd, id \in Nat :
        /\ Seen("abandoned", id, stream'[d]) <=> Seen("abandoned", id, stream[d])
        /\ id # i => (Seen("reply", id, stream'[d]) <=> Seen("reply", id, stream[d]))
  BY ZenonT(40), SMTT(40), <1>4, <1>5, <1>6, PushedSeen
<1>8. \A id \in Nat : Owed(id)' = Owed(id)
  BY SMTT(30), ZenonT(20), <1>2 DEF Owed
<1>9. \A d \in alive : d \in Fd
  BY SMTT(30), ZenonT(20), <1>6 DEF TypeOK
<1>10. CASE s \notin alive
  <2>1. stream' = stream
    BY <1>6, <1>10 DEF Pushed
  <2> QED
    BY <1>1, <1>2, <1>8, <2>1, Departs
<1>11. CASE s \in alive
  <2>1. s \in Owed(i) /\ i \in Nat
    BY <1>1, <1>3, <1>11 DEF Owed, s
  <2>2. Owed(i) = {s}
    BY <2>1, OwedOnce
  <2>3. InTable(i)
    BY SMTT(30), ZenonT(20), <1>1 DEF InTable
  <2>4. Conversation(i) = "pending"
    BY SMTT(30), ZenonT(20), <1>1, <1>3, <2>2, <2>3, ConversationIs
  <2>5. ~InTable(i)'
    BY SMTT(30), ZenonT(20), <1>1, <1>3 DEF InTable
  <2>6. Seen("reply", i, stream'[s])
    <3>1. stream[s] \in Bursts
      BY <1>6 DEF TypeOK, Bursts
    <3>2. stream'[s] = Append(stream[s], burst)
      BY <1>6, <1>11 DEF Pushed, TypeOK
    <3>3. Tells("reply", i, burst)
      BY <1>5, <2>1
    <3> QED
      BY SMTT(30), ZenonT(20), <1>4, <3>1, <3>2, <3>3, SeenAppend
  <2>7. Owed(i)' = {s}
    BY SMTT(30), ZenonT(20), <1>8, <2>1, <2>2
  <2>8. Got("reply", i)'
    BY SMTT(30), ZenonT(20), <2>6, <2>7 DEF Got, Seen
  <2>9. Conversation(i)' = "replied"
    BY SMTT(20), ZenonT(20), <1>1, <1>2, <1>3, <2>5, <2>7, <2>8, ConversationNext
  <2>10. ASSUME NEW id \in 1..LastMessage, id # i
         PROVE  Conversation(id)' = Conversation(id)
    <3>1. id \in Nat /\ (id >= nextMessage' <=> id >= nextMessage)
      BY <1>2, MessageIds
    <3>2. InTable(id)' <=> InTable(id)
      BY <1>1, <2>10 DEF InTable
    <3>3. \A d \in Owed(id) : d \in Fd
      BY SMTT(20), ZenonT(20), <1>9 DEF Owed
    <3>4. \A d \in Owed(id) :
            /\ Seen("reply", id, stream'[d]) <=> Seen("reply", id, stream[d])
            /\ Seen("abandoned", id, stream'[d]) <=> Seen("abandoned", id, stream[d])
      BY ZenonT(40), SMTT(40), <1>7, <2>10, <3>1, <3>3
    <3> QED
      BY ZenonT(40), SMTT(40), <1>8, <3>1, <3>2, <3>4, Unmoved
  <2>11. Promise!Reply(i)
    BY ZenonT(40), SMTT(40), <2>4, <2>9, <2>10 DEF Promise!Reply
  <2> QED
    BY <2>11 DEF Promise!Next
<1> QED
  BY <1>10, <1>11

\* next_port_message_id is never 0.
Counting == nextMessage >= 1

\* The new message is pending if its owner's channel took it and its sender is
\* there, and forgotten if not.
LEMMA PortPutPromise ==
    ASSUME IInv, IInv', Counting, NEW c \in Fd, NEW n \in Name, PortPut(c, n)
    PROVE  Promise!Next
<1>1. PICK p \in ports, to \in channels, from \in channels :
        LET m == NewMessage(p, from)
        IN /\ nextMessage' = nextMessage + 1
           /\ stream' = Pushed(stream, to.fd, {Put(m)})
           /\ IF to.fd \in alive
              THEN /\ messages' = messages \cup {m}
                   /\ asked' = asked \cup {<<m.id, m.sender>>}
              ELSE UNCHANGED <<messages, asked>>
  BY Zenon DEF PortPut
<1>0. PICK i \in Nat : i = nextMessage
  BY DEF IInv, TypeOK
<1> DEFINE m == NewMessage(p, from)
           burst == {Put(m)}
<1>2. alive' = alive
  BY ZenonT(40), SMTT(40) DEF PortPut
<1>3. m.id = i /\ m.sender = from.fd /\ to.fd \in Fd /\ from.fd \in Fd
  <2>1. from \in Channel /\ to \in Channel
    BY Zenon DEF IInv, TypeOK
  <2> QED
    BY <1>0, <2>1 DEF NewMessage, Channel
<1>4. i \in 1..LastMessage
  <2>1. nextMessage <= LastMessage
    BY Zenon DEF PortPut
  <2> QED
    BY <1>0, <2>1, MessageIds DEF Counting
<1>5. burst \in SUBSET Record
  <2>1. Put(m) \in Record
    BY <1>3, Zenon DEF Put, Record, IInv, TypeOK, Port, NewMessage
  <2> QED
    BY <2>1
<1>6. \A id \in Nat : ~Tells("reply", id, burst) /\ ~Tells("abandoned", id, burst)
  BY SMTT(20), ZenonT(20) DEF Tells, Put
<1>7. /\ nextMessage' = i + 1
      /\ stream' = Pushed(stream, to.fd, burst)
      /\ \/ messages' = messages /\ asked' = asked
         \/ messages' = messages \cup {m} /\ asked' = asked \cup {<<i, from.fd>>}
  BY ZenonT(40), SMTT(40), <1>0, <1>1, <1>3
<1>8. TypeOK
  BY SMTT(20), ZenonT(20) DEF IInv
<1> HIDE DEF m, burst
<1>9. \A d \in Fd, id \in Nat :
        /\ Seen("reply", id, stream'[d]) <=> Seen("reply", id, stream[d])
        /\ Seen("abandoned", id, stream'[d]) <=> Seen("abandoned", id, stream[d])
  BY ZenonT(40), SMTT(40), <1>3, <1>5, <1>6, <1>7, <1>8, PushedSeen
<1>10. Conversation(i) = "unsent"
  BY SMTT(20), ZenonT(20), <1>0, ConversationIs
<1>11. ASSUME NEW id \in 1..LastMessage, id # i
       PROVE  Conversation(id)' = Conversation(id)
  <2>1. id \in Nat /\ (id >= nextMessage' <=> id >= nextMessage)
    BY SMTT(20), ZenonT(20), <1>0, <1>7, <1>11, MessageIds
  <2>2. InTable(id)' <=> InTable(id)
    BY <1>3, <1>7, <1>11 DEF InTable
  <2>3. Owed(id)' = Owed(id)
    BY <1>2, <1>7, <1>11 DEF Owed
  <2>4. \A d \in Owed(id) : d \in Fd
    BY <1>8 DEF Owed, TypeOK
  <2> QED
    BY ZenonT(40), SMTT(40), <1>9, <2>1, <2>2, <2>3, <2>4, Unmoved
<1>12. Conversation(i)' \in {"pending", "forgotten"}
  <2>1. ~(i >= nextMessage')
    BY <1>7
  <2>2. \A d \in Owed(i)' : <<i, d>> \notin asked
    <3>1. \A a \in asked : a[1] # i
      BY SMTT(60), ZenonT(20), <1>0 DEF IInv, Bookkeeping, TypeOK
    <3> QED
      BY SMTT(20), ZenonT(20), <3>1
  <2>3. CASE messages' = messages \cup {m}
    <3>1. InTable(i)'
      BY <1>3, <2>3 DEF InTable
    <3> QED
      BY SMTT(30), ZenonT(20), <2>1, <3>1, ConversationNext
  <2>4. CASE asked' = asked
    <3>1. Owed(i)' = {}
      BY <2>2, <2>4 DEF Owed
    <3> QED
      BY <2>1, <3>1, ConversationNext
  <2> QED
    BY <1>7, <2>3, <2>4
<1>13. CASE Conversation(i)' = "pending"
  <2>1. Promise!Ask(i)
    BY ZenonT(40), SMTT(40), <1>4, <1>10, <1>11, <1>13 DEF Promise!Ask
  <2> QED
    BY <1>4, <2>1 DEF Promise!Next
<1>14. CASE Conversation(i)' = "forgotten"
  <2>1. Promise!Refuse(i)
    BY ZenonT(40), SMTT(40), <1>4, <1>10, <1>11, <1>14 DEF Promise!Refuse
  <2> QED
    BY <1>4, <2>1 DEF Promise!Next
<1> QED
  BY <1>12, <1>13, <1>14

LEMMA AlwaysCounting == Spec => []Counting
<1>1. Init => Counting
  BY DEF Init, Counting
<1>2. TypeOK /\ Counting /\ [Next]_vars => Counting'
  <2>1. [Next]_vars => nextMessage' = nextMessage \/ nextMessage' = nextMessage + 1
    <3>1. \A c \in Fd : /\ \A p \in Pid : Accept(c, p) => nextMessage' = nextMessage
                        /\ HangUp(c) => nextMessage' = nextMessage
                        /\ Drop(c) => nextMessage' = nextMessage
                        /\ PortAttach(c) => nextMessage' = nextMessage
                        /\ PortBroadcast(c) => nextMessage' = nextMessage
      BY ZenonT(40), SMTT(40) DEF Accept, HangUp, Drop, PortAttach, PortBroadcast,
         Registry
    <3>2. \A c \in Fd : /\ \A n \in Name : PortAdd(c, n) => nextMessage' = nextMessage
                        /\ \A n \in Name : PortPut(c, n) => nextMessage' = nextMessage + 1
                        /\ \A id : PortRem(c, id) => nextMessage' = nextMessage
                        /\ \A id : PortReply(c, id) => nextMessage' = nextMessage
      BY Zenon DEF PortAdd, PortPut, PortRem, PortReply
    <3> QED
      BY <3>1, <3>2, Zenon DEF Next, vars
  <2> QED
    BY <2>1 DEF Counting, TypeOK
<1> QED
  BY PortTypes, <1>1, <1>2, PTL DEF Spec

\* For any number of clients, ports, messages and broadcasts, the broker's
\* tables and streams implement the promise to a sender: what a sender sees of
\* its message goes from pending to a reply or to ABANDONED, once and for good,
\* and is ended otherwise only by the sender's own departure.
THEOREM PromiseKept == Spec => KeepsThePromise
<1>1. Init => Promise!Init
  <2> SUFFICES ASSUME Init PROVE Promise!Init
    OBVIOUS
  <2>1. \A id \in 1..LastMessage : Conversation(id) = "unsent"
    BY ConversationIs DEF Init
  <2> QED
    BY <2>1 DEF Promise!Init
<1>2. IInv /\ IInv' /\ Counting /\ [Next]_vars =>
        [Promise!Next]_([id \in 1..LastMessage |-> Conversation(id)])
  <2> SUFFICES ASSUME IInv, IInv', Counting, [Next]_vars
               PROVE  [Promise!Next]_([id \in 1..LastMessage |-> Conversation(id)])
    OBVIOUS
  <2>1. CASE UNCHANGED vars
    <3>1. UNCHANGED <<alive, messages, nextMessage, stream, asked>>
      BY <2>1 DEF vars
    <3>2. ASSUME NEW id \in 1..LastMessage
          PROVE  Conversation(id)' = Conversation(id)
      <4>1. Owed(id)' = Owed(id) /\ (InTable(id)' <=> InTable(id))
        BY <3>1 DEF Owed, InTable
      <4> QED
        BY <3>1, <4>1, Unmoved
    <3> QED
      BY <3>2
  <2>2. CASE Next
    <3>1. PICK c \in Fd :
            \/ \E p \in Pid : Accept(c, p)
            \/ HangUp(c)
            \/ Drop(c)
            \/ PortAttach(c)
            \/ \E n \in Name : PortAdd(c, n) \/ PortPut(c, n)
            \/ \E id \in 1..LastPort : PortRem(c, id)
            \/ \E id \in 1..LastMessage : PortReply(c, id)
            \/ PortBroadcast(c)
      BY <2>2, Zenon DEF Next
    <3>2. Promise!Next
      BY SMTT(30), ZenonT(20), <3>1, ConnectionPromise, DropPromise,
         PortAttachPromise, PortPutPromise,
         PortRemPromise, PortReplyPromise, PortBroadcastPromise
    <3> QED
      BY <3>2
  <2> QED
    BY <2>1, <2>2
<1> QED
  BY PortsInductive, AlwaysCounting, <1>1, <1>2, PTL DEF Spec, KeepsThePromise,
     Promise!Spec

-----------------------------------------------------------------------------
(***************************************************************************)
(* Broadcasts.  A channel hears every event from the oldest one remembered *)
(* when it attached, because what is replayed to it is a suffix of what    *)
(* was said, nothing went down it before, and every event accepted since   *)
(* goes down it once, with the next number.                                *)
(***************************************************************************)

\* broadcast_events is the end of everything said, whole or MAX_BROADCAST_EVENTS
\* long, and an event's number is its place.
Numbered ==
    /\ \A n \in 1..Len(said) : said[n].n = n
    /\ Len(events) <= Len(said)
    /\ Len(events) = Len(said) \/ Len(events) = MaxEvents
    /\ \A i \in 1..Len(events) : events[i] = said[Len(said) - Len(events) + i]

Attachments ==
    /\ \A h \in channels : h.fd \in attached
    /\ \A c \in attached : conn[c] # NoPid

\* What goes down a stream was said, after the stream was attached and in order.
HeardIsSaid ==
    \A c \in Fd, e \in Event :
        News(e, stream[c]) # {} =>
            e.n \in 1..Len(said) /\ said[e.n] = e /\ c \in attached

InOrder ==
    \A c \in Fd, d, e \in Event :
        \A i \in News(d, stream[c]), j \in News(e, stream[c]) : i < j <=> d.n < e.n

\* The channel h has heard everything of the others after the k-th event.
Since(h, k) ==
    /\ k + MaxEvents <= Len(said) \/ k = 0
    /\ \A n \in 1..Len(said) :
           said[n].by # h.pid => (News(said[n], stream[h.fd]) # {} <=> n > k)

Complete ==
    \A h \in channels : h.fd \in alive => \E k \in 0..Len(said) : Since(h, k)

Hearing == Numbered /\ Attachments /\ HeardIsSaid /\ InOrder /\ Complete

\* A burst that broadcasts nothing.
NoNews(burst) == burst \in SUBSET Record /\ \A e \in Event : Broadcast(e) \notin burst

\* What a burst without news leaves alone, and what abandoning messages does.
LEMMA AppendNoNews ==
    ASSUME NEW q \in Bursts, NEW burst, NoNews(burst), NEW e \in Event
    PROVE  News(e, Append(q, burst)) = News(e, q)
<1>1. burst \in SUBSET Record /\ Broadcast(e) \notin burst
  BY DEF NoNews
<1>2. /\ Len(Append(q, burst)) = Len(q) + 1
      /\ Append(q, burst)[Len(q) + 1] = burst
      /\ \A k \in 1..Len(q) : Append(q, burst)[k] = q[k]
  BY <1>1 DEF Bursts
<1>3. Len(q) \in Nat
  BY DEF Bursts
<1> QED
  BY <1>1, <1>2, <1>3 DEF News

\* Records about messages are no news.
LEMMA MessagesAreNoNews ==
    ASSUME NEW burst \in SUBSET Record, \A r \in burst : r.op # "broadcast"
    PROVE  NoNews(burst)
<1>1. \A e \in Event : Broadcast(e).op = "broadcast"
  BY SMTT(30), ZenonT(20) DEF Broadcast
<1> QED
  BY <1>1 DEF NoNews

LEMMA ToldNoNews ==
    ASSUME TypeOK, NEW gone, gone \subseteq messages, NEW c \in Fd, NEW e \in Event
    PROVE  News(e, Told(stream, gone)[c]) = News(e, stream[c])
<1> DEFINE mine == {n \in gone : n.sender = c}
           burst == {Abandoned(n) : n \in mine}
<1>1. stream[c] \in Bursts
  BY DEF TypeOK, Bursts
<1>2. NoNews(burst)
  <2>1. burst \in SUBSET Record
    BY SMTT(30), ZenonT(20) DEF TypeOK, Message, Abandoned, Record
  <2>2. \A n \in mine : Abandoned(n).op = "abandoned"
    BY DEF Abandoned
  <2>3. \A r \in burst : r.op # "broadcast"
    BY ZenonT(40), SMTT(40), <2>2
  <2> QED
    BY SMTT(30), ZenonT(20), <2>1, <2>3, MessagesAreNoNews
<1>3. CASE c \in alive /\ mine # {}
  <2>1. Told(stream, gone)[c] = Append(stream[c], burst)
    BY <1>3 DEF Told
  <2> HIDE DEF burst
  <2>2. News(e, Append(stream[c], burst)) = News(e, stream[c])
    BY SMTT(30), ZenonT(20), <1>1, <1>2, AppendNoNews
  <2> QED
    BY SMTT(60), ZenonT(20), <2>1, <2>2
<1>4. CASE ~(c \in alive /\ mine # {})
  BY <1>4 DEF Told
<1> QED
  BY <1>3, <1>4

\* Steps that broadcast nothing and make no channel.  A stream keeps its news, or
\* is emptied and no channel's any more.
LEMMA QuietHears ==
    ASSUME IInv, Hearing, UNCHANGED <<said, events>>, channels' \subseteq channels,
           \A h \in channels' : h.fd \in alive' => h.fd \in alive,
           \A h \in channels' : h.fd \in attached',
           \A c \in attached' : conn'[c] # NoPid,
           \A c \in Fd :
              \/ /\ \A e \in Event : News(e, stream'[c]) = News(e, stream[c])
                 /\ c \in attached => c \in attached'
              \/ /\ \A e \in Event : News(e, stream'[c]) = {}
                 /\ \A h \in channels' : h.fd # c
    PROVE  Hearing'
<1>1. /\ \A h \in channels : h.fd \in Fd
      /\ \A n \in 1..Len(said) : said[n] \in Event
  BY SMTT(30), ZenonT(20) DEF IInv, TypeOK, Channel
<1>2. Numbered'
  BY SMTT(30), ZenonT(20) DEF Hearing, Numbered
<1>3. Attachments'
  BY DEF Attachments
<1>4. HeardIsSaid'
  BY ZenonT(40), SMTT(40) DEF Hearing, HeardIsSaid
<1>5. InOrder'
  BY DEF Hearing, InOrder
<1>6. Complete'
  <2> SUFFICES ASSUME NEW h \in channels', h.fd \in alive'
               PROVE  \E k \in 0..Len(said') : Since(h, k)'
    BY ZenonT(40), SMTT(40) DEF Complete
  <2>1. h \in channels /\ h.fd \in alive /\ h.fd \in Fd
    BY ZenonT(40), SMTT(40), <1>1
  <2>2. PICK k \in 0..Len(said) : Since(h, k)
    BY SMTT(30), ZenonT(20), <2>1 DEF Hearing, Complete
  <2>3. \A e \in Event : News(e, stream'[h.fd]) = News(e, stream[h.fd])
    BY SMTT(30), ZenonT(20), <2>1
  <2>4. Since(h, k)'
    BY ZenonT(40), SMTT(40), <1>1, <2>2, <2>3 DEF Since
  <2> QED
    BY ZenonT(40), SMTT(40), <2>2, <2>4
<1> QED
  BY SMTT(30), ZenonT(20), <1>2, <1>3, <1>4, <1>5, <1>6 DEF Hearing

\* Connections, ports and the messages to them are no news.
LEMMA OthersHear ==
    ASSUME IInv, Hearing, NEW c \in Fd,
           \/ \E p \in Pid : Accept(c, p)
           \/ HangUp(c)
           \/ \E n \in Name : PortAdd(c, n)
           \/ \E id \in 1..LastPort : PortRem(c, id)
    PROVE  Hearing'
<1>1. \A h \in channels : h.fd \in Fd /\ h.fd \in attached
  BY SMTT(30), ZenonT(20) DEF IInv, TypeOK, Channel, Hearing, Attachments
<1>2. ASSUME NEW p \in Pid, Accept(c, p) PROVE Hearing'
  <2>1. c \notin attached
    BY ZenonT(40), SMTT(40), <1>2 DEF Accept, Hearing, Attachments
  <2>2. \A d \in attached : conn'[d] # NoPid
    BY SMTT(30), ZenonT(20), <1>2, <2>1 DEF Accept, Hearing, Attachments, IInv, TypeOK
  <2> QED
    BY ZenonT(40), SMTT(40), <1>1, <1>2, <2>1, <2>2, QuietHears DEF Accept, Registry
<1>3. ASSUME HangUp(c) PROVE Hearing'
  BY ZenonT(40), SMTT(40), <1>1, <1>3, QuietHears DEF HangUp, Registry, Hearing,
     Attachments
<1>4. ASSUME NEW n \in Name, PortAdd(c, n) PROVE Hearing'
  BY ZenonT(40), SMTT(40), <1>1, <1>4, QuietHears DEF PortAdd, Hearing, Attachments
<1>5. ASSUME NEW id \in 1..LastPort, PortRem(c, id) PROVE Hearing'
  <2>1. MessagesForPort(id) \subseteq messages
    BY DEF MessagesForPort
  <2>2. \A d \in Fd, e \in Event : News(e, stream'[d]) = News(e, stream[d])
    BY <1>5, <2>1, ToldNoNews, Zenon DEF IInv, PortRem
  <2>3. UNCHANGED <<said, events, channels, alive, attached, conn>>
    BY SMTT(30), ZenonT(20), <1>5 DEF PortRem
  <2> QED
    BY ZenonT(40), SMTT(40), <1>1, <2>2, <2>3, QuietHears DEF Hearing, Attachments
<1> QED
  BY SMTT(30), ZenonT(20), <1>2, <1>3, <1>4, <1>5

\* A record pushed about a message is no news.
LEMMA PushedHears ==
    ASSUME IInv, Hearing, NEW d \in Fd, NEW r \in Record, r.op # "broadcast",
           stream' = Pushed(stream, d, {r}),
           UNCHANGED <<said, events, channels, alive, attached, conn>>
    PROVE  Hearing'
<1> DEFINE burst == {r}
<1>1. \A h \in channels : h.fd \in Fd /\ h.fd \in attached
  BY SMTT(30), ZenonT(20) DEF IInv, TypeOK, Channel, Hearing, Attachments
<1>2. stream \in [Fd -> Bursts]
  BY DEF IInv, TypeOK, Bursts
<1>3. NoNews(burst)
  BY MessagesAreNoNews
<1>4. \A c \in Fd : stream'[c] = stream[c] \/ stream'[c] = Append(stream[c], burst)
  BY SMTT(30), ZenonT(20), <1>2 DEF Pushed
<1> HIDE DEF burst
<1>5. \A c \in Fd, e \in Event : News(e, Append(stream[c], burst)) = News(e, stream[c])
  BY <1>2, <1>3, AppendNoNews
<1>6. \A c \in Fd, e \in Event : News(e, stream'[c]) = News(e, stream[c])
  BY ZenonT(40), SMTT(40), <1>4, <1>5
<1> QED
  BY ZenonT(40), SMTT(40), <1>1, <1>6, QuietHears DEF Hearing, Attachments

\* PORT_PUT and PORT_REPLY push one record about a message.
LEMMA PortPutHears ==
    ASSUME IInv, Hearing, NEW c \in Fd, NEW n \in Name, PortPut(c, n)
    PROVE  Hearing'
<1>1. PICK p \in ports, to \in channels, from \in channels :
         stream' = Pushed(stream, to.fd, {Put(NewMessage(p, from))})
  BY ZenonT(40), SMTT(40) DEF PortPut
<1>2. to.fd \in Fd
  BY DEF IInv, TypeOK, Channel
<1>3. Put(NewMessage(p, from)) \in Record /\ Put(NewMessage(p, from)).op # "broadcast"
  BY ZenonT(40), SMTT(40) DEF Put, NewMessage, Record, IInv, TypeOK, Port
<1>4. UNCHANGED <<said, events, channels, alive, attached, conn>>
  BY ZenonT(40), SMTT(40) DEF PortPut
<1> QED
  BY SMTT(60), ZenonT(20), <1>1, <1>2, <1>3, <1>4, PushedHears

LEMMA PortReplyHears ==
    ASSUME IInv, Hearing, NEW c \in Fd, NEW id, PortReply(c, id)
    PROVE  Hearing'
<1>1. PICK m \in messages : stream' = Pushed(stream, m.sender, {Answer(m)})
  BY SMTT(60), ZenonT(20) DEF PortReply
<1>2. m.sender \in Fd /\ Answer(m) \in Record /\ Answer(m).op # "broadcast"
  BY ZenonT(40), SMTT(40) DEF Answer, Record, IInv, TypeOK, Message
<1>3. UNCHANGED <<said, events, channels, alive, attached, conn>>
  BY ZenonT(40), SMTT(40) DEF PortReply
<1> QED
  BY SMTT(30), ZenonT(20), <1>1, <1>2, <1>3, PushedHears

\* A connection that goes takes its channel and its stream with it.
LEMMA DropHears ==
    ASSUME IInv, Hearing, NEW c \in Fd, Drop(c)
    PROVE  Hearing'
<1> DEFINE gone == Orphans(c)
           told == Told(stream, gone)
<1>1. gone \subseteq messages
  BY DEF Orphans
<1>2. /\ channels' = {h \in channels : h.fd # c}
      /\ stream' = [told EXCEPT ![c] = <<>>]
      /\ conn' = [conn EXCEPT ![c] = NoPid]
      /\ attached' = attached \ {c} /\ alive' = alive \ {c}
      /\ UNCHANGED <<events, said>>
  BY ZenonT(40), SMTT(40) DEF Drop
<1>3. told \in [Fd -> Bursts]
  BY <1>1, ToldType, Zenon DEF IInv, TypeOK, Streams, Bursts
<1>4. \A d \in Fd, e \in Event : News(e, told[d]) = News(e, stream[d])
  BY <1>1, ToldNoNews, Zenon DEF IInv
<1> HIDE DEF told, gone
<1>5. \A d \in Fd : d # c => stream'[d] = told[d]
  BY <1>2, <1>3
<1>6. stream'[c] = <<>>
  BY SMTT(30), ZenonT(20), <1>2, <1>3
<1>7. \A e \in Event : News(e, stream'[c]) = {}
  BY SMTT(30), ZenonT(20), <1>6 DEF News
<1>8. \A d \in attached' : conn'[d] # NoPid
  BY <1>2 DEF Hearing, Attachments, IInv, TypeOK
<1>9. \A h \in channels' : h.fd \in attached' /\ h.fd # c /\ h \in channels
  BY SMTT(30), ZenonT(20), <1>2 DEF Hearing, Attachments
<1>10. \A d \in Fd :
          \/ /\ \A e \in Event : News(e, stream'[d]) = News(e, stream[d])
             /\ d \in attached => d \in attached'
          \/ /\ \A e \in Event : News(e, stream'[d]) = {}
             /\ \A h \in channels' : h.fd # d
  BY <1>2, <1>4, <1>5, <1>7, <1>9
<1>11. \A h \in channels' : h.fd \in alive' => h.fd \in alive
  BY <1>2
<1> QED
  BY ZenonT(40), SMTT(40), <1>2, <1>8, <1>9, <1>10, <1>11, QuietHears

\* The event that is accepted goes down every other channel, after everything
\* that went down it before.
LEMMA AppendNews ==
    ASSUME NEW q \in Bursts, NEW d \in Event, NEW e \in Event
    PROVE  News(d, Append(q, {Broadcast(e)}))
             = IF d = e THEN News(d, q) \cup {Len(q) + 1} ELSE News(d, q)
<1> DEFINE burst == {Broadcast(e)}
<1>1. burst \in SUBSET Record
  BY DEF Broadcast, Record
<1>2. Broadcast(d) \in burst <=> d = e
  <2>1. Broadcast(d).event = d /\ Broadcast(e).event = e
    BY DEF Broadcast
  <2> QED
    BY <2>1
<1> HIDE DEF burst
<1>3. /\ Len(Append(q, burst)) = Len(q) + 1
      /\ Append(q, burst)[Len(q) + 1] = burst
      /\ \A k \in 1..Len(q) : Append(q, burst)[k] = q[k]
  BY <1>1 DEF Bursts
<1>4. Len(q) \in Nat
  BY SMTT(30), ZenonT(20) DEF Bursts
<1>5. News(d, Append(q, burst)) = IF d = e THEN News(d, q) \cup {Len(q) + 1} ELSE News(d, q)
  BY <1>2, <1>3, <1>4 DEF News
<1> QED
  BY <1>5 DEF burst

\* remember_broadcast_event() keeps the end of what was said.
LEMMA RememberedIsTheEnd ==
    ASSUME IInv, Numbered, NEW c \in Fd, PortBroadcast(c)
    PROVE  Numbered'
<1> DEFINE e == [n |-> Len(said) + 1, by |-> conn[c]]
           kept == IF Len(events) = MaxEvents THEN Tail(events) ELSE events
<1>1. said' = Append(said, e) /\ events' = Append(kept, e)
  BY SMTT(60), ZenonT(20) DEF PortBroadcast
<1>2. e \in Event /\ e.n = Len(said) + 1
  BY SMTT(60), ZenonT(20) DEF PortBroadcast, Serving, IInv, TypeOK, Event
<1>3. said \in Seq(Event) /\ events \in Seq(Event) /\ MaxEvents \in Nat /\ MaxEvents > 0
  BY SMTT(30), ZenonT(20), PortConstants DEF IInv, TypeOK
<1> HIDE DEF e
<1>4. /\ Len(said') = Len(said) + 1 /\ said'[Len(said) + 1] = e
      /\ \A n \in 1..Len(said) : said'[n] = said[n]
  BY SMTT(60), ZenonT(20), <1>1, <1>2, <1>3
<1>5. /\ Len(said) \in Nat /\ Len(events) \in Nat /\ Len(events) <= Len(said)
      /\ \A i \in 1..Len(events) : events[i] = said[Len(said) - Len(events) + i]
  BY SMTT(40), ZenonT(20), <1>3 DEF Numbered
<1>6. ASSUME NEW n \in 1..Len(said') PROVE said'[n].n = n
  <2>1. CASE n = Len(said) + 1
    BY SMTT(30), ZenonT(20), <2>1, <1>2, <1>4
  <2>2. CASE n # Len(said) + 1
    <3>1. n \in 1..Len(said)
      BY SMTT(30), ZenonT(20), <2>2, <1>4, <1>5
    <3> QED
      BY <3>1, <1>4 DEF Numbered
  <2> QED
    BY SMTT(30), ZenonT(20), <2>1, <2>2
<1>7. CASE Len(events) = MaxEvents
  <2>1. kept \in Seq(Event) /\ Len(kept) = Len(events) - 1
        /\ \A i \in 1..Len(kept) : kept[i] = events[i + 1]
    BY SMTT(30), ZenonT(20), <1>3, <1>7
  <2> HIDE DEF kept
  <2>2. /\ Len(events') = Len(events) /\ events'[Len(events)] = e
        /\ \A i \in 1..(Len(events) - 1) : events'[i] = events[i + 1]
    BY SMTT(30), ZenonT(20), <1>1, <1>2, <2>1, <1>3
  <2>3. ASSUME NEW i \in 1..Len(events')
        PROVE  events'[i] = said'[Len(said') - Len(events') + i]
    <3>1. CASE i = Len(events)
      BY SMTT(30), ZenonT(20), <3>1, <2>2, <1>4, <1>5
    <3>2. CASE i # Len(events)
      <4>1. i + 1 \in 1..Len(events) /\ events'[i] = events[i + 1]
        BY SMTT(30), ZenonT(20), <3>2, <2>2, <1>5
      <4>2. events[i + 1] = said[Len(said) - Len(events) + (i + 1)]
        BY SMTT(30), ZenonT(20), <4>1, <1>5
      <4>3. /\ Len(said) - Len(events) + (i + 1) = Len(said') - Len(events') + i
            /\ Len(said) - Len(events) + (i + 1) \in 1..Len(said)
        BY SMTT(30), ZenonT(20), <4>1, <2>2, <1>4, <1>5
      <4> QED
        BY SMTT(30), ZenonT(20), <4>1, <4>2, <4>3, <1>4
    <3> QED
      BY SMTT(30), ZenonT(20), <3>1, <3>2
  <2>4. Len(events') <= Len(said') /\ Len(events') = MaxEvents
    BY SMTT(30), ZenonT(20), <2>2, <1>4, <1>5, <1>7
  <2> QED
    BY <2>3, <2>4, <1>6 DEF Numbered
<1>8. CASE Len(events) # MaxEvents
  <2>1. kept = events /\ Len(events) = Len(said)
    BY SMTT(30), ZenonT(20), <1>8 DEF Numbered
  <2>2. /\ Len(events') = Len(events) + 1 /\ events'[Len(events) + 1] = e
        /\ \A i \in 1..Len(events) : events'[i] = events[i]
    BY <1>1, <1>2, <2>1, <1>3
  <2>3. ASSUME NEW i \in 1..Len(events')
        PROVE  events'[i] = said'[Len(said') - Len(events') + i]
    <3>1. Len(said') - Len(events') + i = i
      BY <2>1, <2>2, <1>4, <1>5
    <3>2. CASE i = Len(events) + 1
      BY SMTT(30), ZenonT(20), <3>1, <3>2, <2>1, <2>2, <1>4
    <3>3. CASE i # Len(events) + 1
      <4>1. i \in 1..Len(events) /\ Len(said) - Len(events) + i = i
        BY <3>3, <2>1, <2>2, <1>5
      <4> QED
        BY <3>1, <4>1, <2>1, <2>2, <1>4, <1>5
    <3> QED
      BY SMTT(30), ZenonT(20), <3>2, <3>3
  <2>4. Len(events') <= Len(said') /\ Len(events') = Len(said')
    BY <2>1, <2>2, <1>4, <1>5
  <2> QED
    BY <2>3, <2>4, <1>6 DEF Numbered
<1> QED
  BY SMTT(60), ZenonT(20), <1>7, <1>8

\* PORT_BROADCAST: the new event has the next number and the last place.
LEMMA PortBroadcastHears ==
    ASSUME IInv, Hearing, NEW c \in Fd, PortBroadcast(c)
    PROVE  Hearing'
<1> DEFINE e == [n |-> Len(said) + 1, by |-> conn[c]]
           others == {h.fd : h \in {h \in channels : h.pid # conn[c]}}
<1>1. /\ said' = Append(said, e)
      /\ stream' = [d \in Fd |-> IF d \in others \cap alive
                                 THEN Append(stream[d], {Broadcast(e)})
                                 ELSE stream[d]]
      /\ UNCHANGED <<channels, alive, attached, conn>>
  BY SMTT(60), ZenonT(20) DEF PortBroadcast
<1>2. e \in Event /\ e.n = Len(said) + 1 /\ e.by = conn[c]
  BY SMTT(60), ZenonT(20) DEF PortBroadcast, Serving, IInv, TypeOK, Event
<1>3. said \in Seq(Event) /\ stream \in [Fd -> Bursts] /\ Len(said) \in Nat
      /\ MaxEvents \in Nat
  BY SMTT(30), ZenonT(20), PortConstants DEF IInv, TypeOK, Bursts
<1>4. \A h \in channels : h.fd \in Fd /\ h.fd \in attached
  BY DEF IInv, TypeOK, Channel, Hearing, Attachments
<1>5. \A d \in others : d \in attached
  BY <1>4
<1>6. \A h \in channels : h.pid # conn[c] => h.fd \in others
  OBVIOUS
<1> HIDE DEF e, others
<1>7. /\ Len(said') = Len(said) + 1 /\ said'[Len(said) + 1] = e
      /\ \A n \in 1..Len(said) : said'[n] = said[n] /\ said[n] \in Event
  BY <1>1, <1>2, <1>3
<1>8. \A d \in Fd, f \in Event :
         News(f, stream'[d]) = IF d \in others \cap alive /\ f = e
                               THEN News(f, stream[d]) \cup {Len(stream[d]) + 1}
                               ELSE News(f, stream[d])
  BY ZenonT(40), SMTT(40), <1>1, <1>2, <1>3, AppendNews
<1>9. \A d \in Fd : News(e, stream[d]) = {}
  BY <1>2, <1>3 DEF Hearing, HeardIsSaid
<1>10. \A d \in Fd, f \in Event : \A i \in News(f, stream[d]) :
          i \in Nat /\ i < Len(stream[d]) + 1
  BY <1>3 DEF News, Bursts
<1>11. Numbered' /\ Attachments'
  BY SMTT(30), ZenonT(20), <1>1, RememberedIsTheEnd DEF Hearing, Attachments
<1>12. HeardIsSaid'
  <2> SUFFICES ASSUME NEW d \in Fd, NEW f \in Event, News(f, stream'[d]) # {}
               PROVE  f.n \in 1..Len(said') /\ said'[f.n] = f /\ d \in attached'
    BY ZenonT(40), SMTT(40) DEF HeardIsSaid
  <2>1. CASE f = e
    <3>1. d \in others
      BY ZenonT(40), SMTT(40), <2>1, <1>8, <1>9
    <3> QED
      BY <2>1, <3>1, <1>1, <1>2, <1>3, <1>5, <1>7
  <2>2. CASE f # e
    <3>1. News(f, stream[d]) # {}
      BY ZenonT(40), SMTT(40), <2>2, <1>8
    <3> QED
      BY SMTT(40), ZenonT(20), <3>1, <1>1, <1>3, <1>7 DEF Hearing, HeardIsSaid
  <2> QED
    BY <2>1, <2>2
<1>13. InOrder'
  <2> SUFFICES ASSUME NEW d \in Fd, NEW f \in Event, NEW g \in Event,
                      NEW i \in News(f, stream'[d]), NEW j \in News(g, stream'[d])
               PROVE  i < j <=> f.n < g.n
    BY ZenonT(40), SMTT(40) DEF InOrder
  <2>1. /\ f = e => i = Len(stream[d]) + 1
        /\ f # e => i \in News(f, stream[d])
        /\ g = e => j = Len(stream[d]) + 1
        /\ g # e => j \in News(g, stream[d])
    BY ZenonT(40), SMTT(40), <1>8, <1>9
  <2>2. /\ f # e => f.n \in Nat /\ f.n < Len(said) + 1
        /\ g # e => g.n \in Nat /\ g.n < Len(said) + 1
    BY <2>1, <1>3 DEF Hearing, HeardIsSaid
  <2>3. Len(stream[d]) \in Nat
    BY <1>3 DEF Bursts
  <2>4. CASE f # e /\ g # e
    BY ZenonT(40), SMTT(40), <2>1, <2>4 DEF Hearing, InOrder
  <2>5. CASE f = e /\ g # e
    BY SMTT(60), ZenonT(20), <2>1, <2>2, <2>3, <2>5, <1>2, <1>3, <1>10
  <2>6. CASE f # e /\ g = e
    BY SMTT(60), ZenonT(20), <2>1, <2>2, <2>3, <2>6, <1>2, <1>3, <1>10
  <2>7. CASE f = e /\ g = e
    BY <2>1, <2>3, <2>7, <1>2, <1>3
  <2> QED
    BY <2>4, <2>5, <2>6, <2>7
<1>14. Complete'
  <2> SUFFICES ASSUME NEW h \in channels', h.fd \in alive'
               PROVE  \E k \in 0..Len(said') : Since(h, k)'
    BY ZenonT(40), SMTT(40) DEF Complete
  <2>1. h \in channels /\ h.fd \in alive /\ h.fd \in Fd
    BY <1>1, <1>4
  <2>2. PICK k \in 0..Len(said) : Since(h, k)
    BY SMTT(30), ZenonT(20), <2>1 DEF Hearing, Complete
  <2>3. k + MaxEvents <= Len(said') \/ k = 0
    BY SMTT(60), ZenonT(20), <2>2, <1>3, <1>7 DEF Since
  <2>4. ASSUME NEW n \in 1..Len(said'), said'[n].by # h.pid
        PROVE  News(said'[n], stream'[h.fd]) # {} <=> n > k
    <3>1. CASE n = Len(said) + 1
      <4>1. said'[n] = e /\ h.fd \in others
        BY <2>1, <2>4, <3>1, <1>2, <1>6, <1>7
      <4>2. News(said'[n], stream'[h.fd]) = News(e, stream[h.fd]) \cup {Len(stream[h.fd]) + 1}
        BY ZenonT(40), SMTT(40), <4>1, <2>1, <1>2, <1>8
      <4>3. n > k
        BY <2>2, <3>1, <1>3
      <4> QED
        BY SMTT(60), ZenonT(20), <4>2, <4>3
    <3>2. CASE n # Len(said) + 1
      <4>1. n \in 1..Len(said)
        BY SMTT(60), ZenonT(20), <3>2, <1>3, <1>7
      <4>2. said'[n] = said[n] /\ said[n] \in Event /\ said[n] # e
        BY <4>1, <1>2, <1>3, <1>7 DEF Hearing, Numbered
      <4>3. News(said'[n], stream'[h.fd]) = News(said[n], stream[h.fd])
        BY ZenonT(40), SMTT(40), <4>2, <2>1, <1>8
      <4> QED
        BY ZenonT(40), SMTT(40), <4>1, <4>2, <4>3, <2>2, <2>4 DEF Since
    <3> QED
      BY SMTT(30), ZenonT(20), <3>1, <3>2
  <2>5. k \in 0..Len(said')
    BY SMTT(60), ZenonT(20), <2>2, <1>3, <1>7
  <2>6. Since(h, k)'
    BY SMTT(60), ZenonT(20), <2>3, <2>4 DEF Since
  <2> QED
    BY <2>5, <2>6
<1> QED
  BY SMTT(60), ZenonT(20), <1>11, <1>12, <1>13, <1>14 DEF Hearing

\* What is replayed is the end of what was said, an event to a burst.
LEMMA ReplayNews ==
    ASSUME IInv, Numbered, NEW c \in alive, NEW q \in Bursts, NEW e \in Event,
           \A d \in Event : News(d, q) = {}
    PROVE  News(e, q \o Replay(c)) =
             {Len(q) + i : i \in {j \in 1..Len(events) : events[j] = e}}
<1> DEFINE r == Replay(c)
<1>1. events \in Seq(Event) /\ c \in Fd
  BY DEF IInv, TypeOK
<1>2. r \in Bursts
  BY <1>1, ReplayType DEF IInv, Bursts
<1>3. Len(r) = Len(events) /\ \A j \in 1..Len(events) : r[j] = {Broadcast(events[j])}
  BY SMTT(60), ZenonT(20), <1>1 DEF Replay
<1>4. \A j \in 1..Len(events) : Broadcast(e) \in r[j] <=> events[j] = e
  <2> SUFFICES ASSUME NEW j \in 1..Len(events) PROVE Broadcast(e) \in r[j] <=> events[j] = e
    OBVIOUS
  <2>1. Broadcast(e).event = e /\ Broadcast(events[j]).event = events[j]
    BY DEF Broadcast
  <2> QED
    BY SMTT(30), ZenonT(20), <1>3, <2>1
<1> HIDE DEF r
<1>5. /\ Len(q \o r) = Len(q) + Len(r)
      /\ \A k \in 1..Len(q \o r) :
            (q \o r)[k] = IF k <= Len(q) THEN q[k] ELSE r[k - Len(q)]
  BY <1>2 DEF Bursts
<1>6. Len(q) \in Nat /\ Len(events) \in Nat
  BY <1>1 DEF Bursts
<1>7. \A k \in 1..Len(q) : Broadcast(e) \notin q[k]
  BY DEF News
<1>8. ASSUME NEW k \in News(e, q \o r)
      PROVE  k \in {Len(q) + i : i \in {j \in 1..Len(events) : events[j] = e}}
  <2>1. k \in 1..(Len(q) + Len(events)) /\ Broadcast(e) \in (q \o r)[k]
    BY SMTT(30), ZenonT(20), <1>3, <1>5 DEF News
  <2>2. k > Len(q)
    BY SMTT(60), ZenonT(20), <2>1, <1>3, <1>5, <1>6, <1>7
  <2>3. k - Len(q) \in 1..Len(events) /\ Broadcast(e) \in r[k - Len(q)]
    BY SMTT(60), ZenonT(20), <2>1, <2>2, <1>3, <1>5, <1>6
  <2>4. k = Len(q) + (k - Len(q)) /\ events[k - Len(q)] = e
    BY SMTT(60), ZenonT(20), <2>1, <2>3, <1>4, <1>6
  <2> QED
    BY SMTT(30), ZenonT(20), <2>3, <2>4
<1>9. ASSUME NEW i \in 1..Len(events), events[i] = e
      PROVE  Len(q) + i \in News(e, q \o r)
  <2>1. /\ Len(q) + i \in 1..(Len(q) + Len(events)) /\ ~(Len(q) + i <= Len(q))
        /\ Len(q) + i - Len(q) = i
    BY SMTT(60), ZenonT(20), <1>6
  <2>2. (q \o r)[Len(q) + i] = r[i]
    BY <2>1, <1>3, <1>5
  <2> QED
    BY <2>1, <2>2, <1>3, <1>4, <1>5, <1>9 DEF News
<1> QED
  BY <1>8, <1>9 DEF r

\* A new channel hears what is remembered, and no channel loses anything.
LEMMA PortAttachHears ==
    ASSUME IInv, Hearing, NEW c \in Fd, PortAttach(c)
    PROVE  Hearing'
<1> DEFINE existing == {h \in channels : h.pid = conn[c]}
           gone == IF existing = {} THEN {} ELSE MessagesForOwner(conn[c])
           told == Told(stream, gone)
           new == [fd |-> c, pid |-> conn[c]]
<1>0. PICK start : start = Len(said) - Len(events)
  OBVIOUS
<1>1. gone \subseteq messages
  BY SMTT(60), ZenonT(20) DEF MessagesForOwner
<1>2. /\ channels' = (channels \ existing) \cup {new}
      /\ stream' = [told EXCEPT ![c] = told[c] \o Replay(c)]
      /\ attached' = attached \cup {c} /\ c \notin attached
      /\ UNCHANGED <<conn, alive, events, said>>
  BY SMTT(20), ZenonT(20) DEF PortAttach
<1>3. told \in [Fd -> Bursts]
  BY <1>1, ToldType, Zenon DEF IInv, TypeOK, Streams, Bursts
<1>4. \A d \in Fd, e \in Event : News(e, told[d]) = News(e, stream[d])
  BY <1>1, ToldNoNews, Zenon DEF IInv
<1>5. new.fd = c /\ new.pid = conn[c] /\ conn[c] # NoPid
  BY SMTT(60), ZenonT(20) DEF PortAttach, Serving
<1>6. \A h \in channels' : h = new \/ (h \in channels /\ h.fd # c /\ h.fd \in Fd)
  BY SMTT(60), ZenonT(20), <1>2 DEF Hearing, Attachments, IInv, TypeOK, Channel
<1>7. /\ events \in Seq(Event) /\ said \in Seq(Event)
      /\ Len(events) \in Nat /\ Len(said) \in Nat /\ MaxEvents \in Nat
      /\ \A n \in 1..Len(said) : said[n] \in Event
  BY SMTT(60), ZenonT(20), PortConstants DEF IInv, TypeOK
<1> HIDE DEF told, gone, existing, new
<1>8. \A d \in Fd : d # c => \A e \in Event : News(e, stream'[d]) = News(e, stream[d])
  BY SMTT(60), ZenonT(20), <1>2, <1>3, <1>4
<1>9. \A e \in Event : News(e, told[c]) = {}
  BY <1>2, <1>4 DEF Hearing, HeardIsSaid
<1>10. stream'[c] = told[c] \o Replay(c) /\ told[c] \in Bursts
  BY SMTT(30), ZenonT(20), <1>2, <1>3
<1>11. c \notin alive => \A e \in Event : News(e, stream'[c]) = {}
  <2> SUFFICES ASSUME c \notin alive PROVE stream'[c] = told[c]
    BY <1>9
  <2>1. Replay(c) = <<>>
    BY SMTT(60), ZenonT(20) DEF Replay
  <2> QED
    BY <2>1, <1>10 DEF Bursts
<1>12. c \in alive =>
          \A e \in Event : News(e, stream'[c]) =
             {Len(told[c]) + i : i \in {j \in 1..Len(events) : events[j] = e}}
  BY <1>9, <1>10, ReplayNews DEF Hearing
<1>13. /\ start \in 0..Len(said)
       /\ \A i \in 1..Len(events) :
             /\ start + i \in 1..Len(said)
             /\ events[i] = said[start + i] /\ events[i].n = start + i
             /\ events[i] \in Event
  <2>1. start \in 0..Len(said) /\ start \in Nat
    BY SMTT(60), ZenonT(20), <1>0, <1>7 DEF Hearing, Numbered
  <2>2. ASSUME NEW i \in 1..Len(events)
        PROVE  start + i \in 1..Len(said) /\ events[i] = said[start + i]
    BY SMTT(60), ZenonT(20), <1>0, <1>7, <2>1 DEF Hearing, Numbered
  <2> QED
    BY ZenonT(40), SMTT(40), <1>7, <2>1, <2>2 DEF Hearing, Numbered
<1>14. \A e \in Event : \A k \in News(e, stream'[c]) :
           \E i \in 1..Len(events) : k = Len(told[c]) + i /\ events[i] = e
  BY <1>11, <1>12
<1>15. Numbered' /\ Attachments'
  BY ZenonT(40), SMTT(40), <1>2, <1>5, <1>6 DEF Hearing, Numbered, Attachments
<1>16. HeardIsSaid'
  <2> SUFFICES ASSUME NEW d \in Fd, NEW f \in Event, News(f, stream'[d]) # {}
               PROVE  f.n \in 1..Len(said) /\ said[f.n] = f /\ d \in attached'
    BY <1>2, ZenonT(20), SMTT(20) DEF HeardIsSaid
  <2>1. CASE d = c
    <3>1. PICK i \in 1..Len(events) : events[i] = f
      BY SMTT(30), ZenonT(20), <2>1, <1>14
    <3> QED
      BY SMTT(30), ZenonT(20), <2>1, <3>1, <1>2, <1>13
  <2>2. CASE d # c
    BY ZenonT(40), SMTT(40), <2>2, <1>2, <1>8 DEF Hearing, HeardIsSaid
  <2> QED
    BY <2>1, <2>2
<1>17. InOrder'
  <2> SUFFICES ASSUME NEW d \in Fd, NEW f \in Event, NEW g \in Event,
                      NEW i \in News(f, stream'[d]), NEW j \in News(g, stream'[d])
               PROVE  i < j <=> f.n < g.n
    BY ZenonT(40), SMTT(40) DEF InOrder
  <2>1. CASE d = c
    <3>1. PICK a \in 1..Len(events) : i = Len(told[c]) + a /\ events[a] = f
      BY SMTT(30), ZenonT(20), <2>1, <1>14
    <3>2. PICK b \in 1..Len(events) : j = Len(told[c]) + b /\ events[b] = g
      BY SMTT(60), ZenonT(20), <2>1, <1>14
    <3>3. f.n = start + a /\ g.n = start + b
      BY SMTT(60), ZenonT(20), <3>1, <3>2, <1>13
    <3>4. Len(told[c]) \in Nat /\ start \in Nat
      BY SMTT(60), ZenonT(20), <1>7, <1>10, <1>13 DEF Bursts
    <3> QED
      BY SMTT(60), ZenonT(20), <3>1, <3>2, <3>3, <3>4
  <2>2. CASE d # c
    BY <2>2, <1>8 DEF Hearing, InOrder
  <2> QED
    BY SMTT(60), ZenonT(20), <2>1, <2>2
<1>18. Complete'
  <2> SUFFICES ASSUME NEW h \in channels', h.fd \in alive'
               PROVE  \E k \in 0..Len(said') : Since(h, k)'
    BY ZenonT(40), SMTT(40) DEF Complete
  <2>1. CASE h = new
    <3>1. start + MaxEvents <= Len(said) \/ start = 0
      BY SMTT(60), ZenonT(20), <1>0, <1>7 DEF Hearing, Numbered
    <3>2. ASSUME NEW n \in 1..Len(said)
          PROVE  News(said[n], stream'[c]) # {} <=> n > start
      <4>1. News(said[n], stream'[c]) =
              {Len(told[c]) + i : i \in {j \in 1..Len(events) : events[j] = said[n]}}
        BY ZenonT(40), SMTT(40), <2>1, <1>2, <1>5, <1>7, <1>12
      <4>2. ASSUME n > start PROVE n - start \in 1..Len(events) /\ start + (n - start) = n
        BY SMTT(60), ZenonT(20), <4>2, <1>0, <1>7, <1>13
      <4>3. n > start => events[n - start] = said[n] /\ n - start \in 1..Len(events)
        BY SMTT(60), ZenonT(20), <4>2, <1>13
      <4>4. \A j \in 1..Len(events) : events[j] = said[n] => n > start
        <5> SUFFICES ASSUME NEW j \in 1..Len(events), events[j] = said[n] PROVE n > start
          OBVIOUS
        <5>1. n = start + j
          BY ZenonT(40), SMTT(40), <1>13 DEF Hearing, Numbered
        <5> QED
          BY SMTT(30), ZenonT(20), <5>1, <1>7, <1>13
      <4> QED
        BY SMTT(30), ZenonT(20), <4>1, <4>3, <4>4
    <3>3. Since(h, start)'
      BY SMTT(30), ZenonT(20), <2>1, <3>1, <3>2, <1>2, <1>5 DEF Since
    <3> QED
      BY SMTT(60), ZenonT(20), <3>3, <1>2, <1>13
  <2>2. CASE h # new
    <3>1. h \in channels /\ h.fd # c /\ h.fd \in Fd /\ h.fd \in alive
      BY <2>2, <1>2, <1>6
    <3>2. PICK k \in 0..Len(said) : Since(h, k)
      BY SMTT(30), ZenonT(20), <3>1 DEF Hearing, Complete
    <3>3. Since(h, k)'
      BY ZenonT(40), SMTT(40), <3>1, <3>2, <1>2, <1>7, <1>8 DEF Since
    <3> QED
      BY SMTT(60), ZenonT(20), <3>2, <3>3, <1>2
  <2> QED
    BY SMTT(60), ZenonT(20), <2>1, <2>2
<1> QED
  BY <1>15, <1>16, <1>17, <1>18 DEF Hearing

\* Every channel hears the broadcasts of the others in the order the broker took
\* them, without a gap or a repeat as far back as was remembered when it
\* attached, for any number of channels that come, go and are replaced and any
\* length of the history (remember_broadcast_event(), replay_broadcast_events()
\* and the PORT_BROADCAST handler).
THEOREM BroadcastsHeardInOrder == Spec => []HearsInOrder
<1>1. Init => Hearing
  <2> SUFFICES ASSUME Init PROVE Hearing
    OBVIOUS
  <2>1. Numbered
    BY DEF Init, Numbered
  <2>3. Attachments /\ Complete
    BY DEF Init, Attachments, Complete
  <2>2. \A c \in Fd, e \in Event : News(e, stream[c]) = {}
    BY SMTT(30), ZenonT(20) DEF Init, News
  <2> QED
    BY ZenonT(40), SMTT(40), <2>1, <2>2, <2>3 DEF Hearing, HeardIsSaid, InOrder
<1>2. IInv /\ Hearing /\ [Next]_vars => Hearing'
  <2> SUFFICES ASSUME IInv, Hearing, [Next]_vars PROVE Hearing'
    OBVIOUS
  <2>1. CASE UNCHANGED vars
    <3>1. UNCHANGED <<said, events, channels, alive, attached, conn, stream>>
      BY SMTT(60), ZenonT(20), <2>1 DEF vars
    <3> QED
      BY ZenonT(40), SMTT(40), <3>1, QuietHears DEF Hearing, Attachments
  <2>2. CASE Next
    BY <2>2, OthersHear, PortPutHears, PortReplyHears, DropHears, PortBroadcastHears,
       PortAttachHears DEF Next
  <2> QED
    BY <2>1, <2>2
<1>3. IInv /\ Hearing => HearsInOrder
  <2> SUFFICES ASSUME IInv, Hearing, NEW h \in channels, h.fd \in alive
               PROVE  /\ \A m, n \in 1..Len(said) :
                           \A i \in News(said[m], stream[h.fd]), j \in News(said[n], stream[h.fd]) :
                               i < j <=> m < n
                      /\ \E k \in 0..Len(said) :
                           /\ k + MaxEvents <= Len(said) \/ k = 0
                           /\ \A n \in 1..Len(said) :
                                 said[n].by # h.pid =>
                                     (News(said[n], stream[h.fd]) # {} <=> n > k)
                      /\ \A i \in 1..Len(stream[h.fd]) : \A r \in stream[h.fd][i] :
                           r.op = "broadcast" => \E n \in 1..Len(said) : r.event = said[n]
    BY ZenonT(40), SMTT(40) DEF HearsInOrder
  <2>1. /\ h.fd \in Fd /\ stream[h.fd] \in Seq(SUBSET Record)
        /\ \A n \in 1..Len(said) : said[n] \in Event /\ said[n].n = n
    <3>1. /\ stream \in [Fd -> Seq(SUBSET Record)] /\ said \in Seq(Event)
          /\ channels \subseteq Channel
      BY DEF IInv, TypeOK
    <3>2. h.fd \in Fd
      BY <3>1 DEF Channel
    <3>3. \A n \in 1..Len(said) : said[n].n = n
      BY Zenon DEF Hearing, Numbered
    <3> QED
      BY <3>1, <3>2, <3>3
  <2>2. \A m, n \in 1..Len(said) :
           \A i \in News(said[m], stream[h.fd]), j \in News(said[n], stream[h.fd]) :
               i < j <=> m < n
    BY <2>1 DEF Hearing, InOrder
  <2>3. \E k \in 0..Len(said) : Since(h, k)
    BY DEF Hearing, Complete
  <2>4. ASSUME NEW i \in 1..Len(stream[h.fd]), NEW r \in stream[h.fd][i], r.op = "broadcast"
        PROVE  \E n \in 1..Len(said) : r.event = said[n]
    <3>1. r \in Record
      BY SMTT(30), ZenonT(20), <2>1
    <3>2. r.event \in Event /\ r = Broadcast(r.event)
      BY <2>4, <3>1 DEF Record, Broadcast
    <3>3. i \in News(r.event, stream[h.fd])
      BY <3>2 DEF News
    <3> QED
      BY ZenonT(40), SMTT(40), <2>1, <3>2, <3>3 DEF Hearing, HeardIsSaid
  <2> QED
    BY ZenonT(40), SMTT(40), <2>2, <2>3, <2>4 DEF Since
<1> QED
  BY <1>1, <1>2, <1>3, PortsInductive, PTL DEF Spec
=============================================================================
