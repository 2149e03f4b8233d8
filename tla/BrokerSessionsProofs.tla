------------------------ MODULE BrokerSessionsProofs ------------------------
(***************************************************************************)
(* Proofs about BrokerSessions, for any number of descriptors, names and   *)
(* slots.  The argument: get_session() never changes a slot that somebody  *)
(* has claimed (AfterGetKeepsClaims), and a slot is claimed exactly when a *)
(* connection holds it (AnchorsCounted), so an index kept in a connection  *)
(* goes on naming the session that was attached.                           *)
(***************************************************************************)
EXTENDS BrokerSessions, FiniteSetTheorems, WellFoundedInduction, TLAPS

\* What get_session() needs of a table, and gives back.
TableOK(ss) ==
    /\ ss \in [Slot -> Session]
    /\ \A s, t \in Slot : ss[s].id = ss[t].id /\ ss[s].id # NoSession => s = t
    /\ \A s \in Slot : ss[s].id = NoSession => ss[s].anchors = 0

IInv ==
    /\ TypeOK
    /\ TableOK(sessions)
    /\ AnchorsCounted
    /\ ClaimHoldsItsSession

Claims(s) == {c \in open : anchor[c] = s}

\* tt differs from ss in no claimed slot and in no count.
ClaimsKept(ss, tt) ==
    /\ \A t \in Slot : tt[t].anchors = ss[t].anchors
    /\ \A t \in Slot : ss[t].anchors > 0 => tt[t].id = ss[t].id

\* What LivesAsLongAsItsClaims asks of a step.
Outlasts ==
    \A s \in Slot :
        sessions[s].anchors > 0 =>
            /\ sessions'[s].id # sessions[s].id =>
                  \A c \in open : anchor[c] = s => c \notin open'
            /\ sessions'[s].anchors = 0 => sessions'[s] = Released

\* get_session() keeps the table well formed, puts the name in the slot it
\* returns, and leaves every claimed slot and every count as it was.
LEMMA AfterGetKeepsClaims ==
    ASSUME NEW ss, NEW cl, TableOK(ss), NEW id \in SessionId, NEW s \in Slot,
           GetsSession(ss, cl, id, s)
    PROVE  /\ TableOK(AfterGet(ss, id, s))
           /\ AfterGet(ss, id, s)[s].id = id
           /\ ClaimsKept(ss, AfterGet(ss, id, s))
<1> DEFINE new == [id |-> id, anchors |-> 0, contents |-> Fresh]
           tt == AfterGet(ss, id, s)
<1>0. id # NoSession /\ new \in Session
  BY SessionConstants DEF Session
<1>1. CASE Holds(ss, id, s)
  BY <1>1 DEF AfterGet, Holds, ClaimsKept
<1>2. CASE ~Holds(ss, id, s)
  <2>1. tt = [ss EXCEPT ![s] = new]
    BY <1>2 DEF AfterGet
  <2>2. \A t \in Slot : ss[t].id # id
    BY <1>2 DEF GetsSession, Holds
  <2>3. ss[s].anchors = 0
    BY <1>2 DEF GetsSession, Claimable, TableOK, Holds
  <2>4. tt[s] = new /\ \A t \in Slot : t # s => tt[t] = ss[t]
    BY <2>1 DEF TableOK
  <2>5. tt \in [Slot -> Session]
    BY <1>0, <2>1 DEF TableOK
  <2>6. TableOK(tt)
    BY <1>0, <2>2, <2>4, <2>5 DEF TableOK
  <2>7. \A t \in Slot : ss[t].anchors > 0 => t # s
    BY <2>3
  <2> QED
    BY <2>3, <2>4, <2>6, <2>7 DEF ClaimsKept
<1> QED
  BY <1>1, <1>2

\* A claimed slot is one somebody holds, and its count is positive.
LEMMA ClaimedIsCounted ==
    ASSUME IInv, NEW c \in Fd, anchor[c] # NoSlot
    PROVE  anchor[c] \in Slot /\ sessions[anchor[c]].anchors > 0
<1> DEFINE s == anchor[c]
<1>1. s \in Slot /\ c \in Claims(s)
  BY DEF IInv, TypeOK, ClaimHoldsItsSession, Claims
<1>2. IsFiniteSet(Claims(s))
  BY FS_Subset, SessionConstants DEF IInv, TypeOK, Claims
<1>3. Cardinality(Claims(s)) \in Nat /\ Cardinality(Claims(s)) # 0
  BY <1>1, <1>2, FS_CardinalityType, FS_EmptySet
<1> QED
  BY <1>1, <1>3 DEF IInv, AnchorsCounted, Claims

\* A step that changes no connection, no count and no claimed slot keeps IInv.
LEMMA UnclaimedStep ==
    ASSUME IInv, UNCHANGED <<open, anchor, claimed>>, TableOK(sessions'),
           colder' \subseteq Slot \X Slot,
           ClaimsKept(sessions, sessions')
    PROVE  IInv'
<1>1. TypeOK'
  BY DEF IInv, TypeOK, TableOK
<1>2. AnchorsCounted'
  BY DEF IInv, AnchorsCounted, ClaimsKept
<1>3. ClaimHoldsItsSession'
  BY ClaimedIsCounted DEF IInv, ClaimHoldsItsSession, ClaimsKept
<1> QED
  BY <1>1, <1>2, <1>3 DEF IInv

\* Such a step takes no claimed session away.
LEMMA UnclaimedOutlasts ==
    ASSUME ClaimsKept(sessions, sessions')
    PROVE  Outlasts
BY DEF ClaimsKept, Outlasts

LEMMA TouchedType ==
    ASSUME NEW cl, cl \subseteq Slot \X Slot, NEW s \in Slot
    PROVE  Touched(cl, s) \subseteq Slot \X Slot
BY DEF Touched

LEMMA InitInv == Init => IInv
<1> SUFFICES ASSUME Init PROVE IInv
  OBVIOUS
<1>1. TypeOK
  BY SessionConstants DEF Init, TypeOK, Session, Released
<1>2. TableOK(sessions)
  BY <1>1 DEF Init, TypeOK, TableOK, Released
<1>3. AnchorsCounted
  BY FS_EmptySet DEF Init, AnchorsCounted, Released
<1>4. ClaimHoldsItsSession
  BY DEF Init, ClaimHoldsItsSession
<1> QED
  BY <1>1, <1>2, <1>3, <1>4 DEF IInv

LEMMA AcceptInv ==
    ASSUME IInv, NEW c \in Fd, AcceptConnection(c)
    PROVE  IInv' /\ Outlasts
<1>1. TypeOK'
  BY DEF IInv, TypeOK, AcceptConnection
<1>2. anchor[c] = NoSlot
  BY DEF IInv, ClaimHoldsItsSession, AcceptConnection
<1>3. anchor' = anchor
  BY <1>2 DEF IInv, TypeOK, AcceptConnection
<1>4. \A s \in Slot : {d \in open' : anchor'[d] = s} = {d \in open : anchor[d] = s}
  BY <1>2, <1>3, SessionConstants DEF AcceptConnection, Slot
<1>5. AnchorsCounted'
  BY <1>4 DEF IInv, AnchorsCounted, AcceptConnection
<1>6. ClaimHoldsItsSession'
  BY <1>2, <1>3 DEF IInv, TypeOK, ClaimHoldsItsSession, AcceptConnection
<1> QED
  BY <1>1, <1>5, <1>6 DEF IInv, Outlasts, AcceptConnection

LEMMA LookupInv ==
    ASSUME IInv, NEW c \in Fd, NEW id \in SessionId, Lookup(c, id)
    PROVE  IInv' /\ Outlasts
<1>1. PICK s \in Slot : /\ GetsSession(sessions, colder, id, s)
                        /\ sessions' = AfterGet(sessions, id, s)
                        /\ colder' = Touched(colder, s)
  BY DEF Lookup
<1>2. colder' \subseteq Slot \X Slot
  BY <1>1, TouchedType DEF IInv, TypeOK
<1>3. TableOK(sessions)
  BY DEF IInv
<1>4. TableOK(sessions') /\ ClaimsKept(sessions, sessions')
  BY <1>1, <1>3, AfterGetKeepsClaims
<1>5. UNCHANGED <<open, anchor, claimed>>
  BY DEF Lookup
<1> QED
  BY <1>2, <1>4, <1>5, UnclaimedStep, UnclaimedOutlasts

\* Writing the contents of a slot disturbs no claim.
LEMMA ContentsKeepClaims ==
    ASSUME NEW ss, NEW tt, TableOK(tt), ClaimsKept(ss, tt),
           NEW s \in Slot, NEW v \in Value
    PROVE  /\ TableOK([tt EXCEPT ![s].contents = v])
           /\ ClaimsKept(ss, [tt EXCEPT ![s].contents = v])
<1> DEFINE uu == [tt EXCEPT ![s].contents = v]
<1>1. tt \in [Slot -> Session] /\ tt[s] \in Session
  BY DEF TableOK
<1>2. uu \in [Slot -> Session]
  BY <1>1 DEF Session
<1>3. \A t \in Slot : uu[t].id = tt[t].id /\ uu[t].anchors = tt[t].anchors
  BY <1>1 DEF Session
<1> QED
  BY <1>2, <1>3 DEF TableOK, ClaimsKept

LEMMA UpdateInv ==
    ASSUME IInv, NEW c \in Fd, NEW id \in SessionId, NEW v \in Value,
           Update(c, id, v)
    PROVE  IInv' /\ Outlasts
<1>1. PICK s \in Slot :
          /\ GetsSession(sessions, colder, id, s)
          /\ sessions' = [AfterGet(sessions, id, s) EXCEPT ![s].contents = v]
          /\ colder' = Touched(colder, s)
  BY ZenonT(20), SMTT(20) DEF Update
<1> DEFINE tt == AfterGet(sessions, id, s)
<1>2. colder' \subseteq Slot \X Slot
  BY <1>1, TouchedType DEF IInv, TypeOK
<1>3. TableOK(sessions) /\ GetsSession(sessions, colder, id, s)
  BY <1>1 DEF IInv
<1>4. TableOK(tt) /\ ClaimsKept(sessions, tt)
  BY <1>3, AfterGetKeepsClaims
<1>5. sessions' = [tt EXCEPT ![s].contents = v]
  BY <1>1
<1> HIDE DEF tt
<1>6. TableOK(sessions') /\ ClaimsKept(sessions, sessions')
  BY ZenonT(20), SMTT(20), <1>4, <1>5, ContentsKeepClaims
<1>7. UNCHANGED <<open, anchor, claimed>>
  BY DEF Update
<1> QED
  BY <1>2, <1>6, <1>7, UnclaimedStep, UnclaimedOutlasts

LEMMA CloneInv ==
    ASSUME IInv, NEW c \in Fd, NEW id \in SessionId, NEW child \in SessionId,
           CloneSession(c, id, child)
    PROVE  IInv' /\ Outlasts
<1>1. PICK p \in Slot, s \in Slot :
        LET parent == AfterGet(sessions, id, p)
            both   == AfterGet(parent, child, s)
        IN /\ GetsSession(sessions, colder, id, p)
           /\ \A t \in Slot : ~Holds(parent, child, t)
           /\ GetsSession(parent, Touched(colder, p), child, s)
           /\ sessions' = [both EXCEPT ![s].contents = both[p].contents]
           /\ colder' = Touched(Touched(colder, p), s)
  BY ZenonT(20), SMTT(20) DEF CloneSession
<1> DEFINE parent == AfterGet(sessions, id, p)
           both == AfterGet(parent, child, s)
           cl == Touched(colder, p)
<1>2. colder' \subseteq Slot \X Slot
  BY <1>1, TouchedType DEF IInv, TypeOK
<1>3. TableOK(sessions) /\ GetsSession(sessions, colder, id, p)
  BY <1>1 DEF IInv
<1>4. TableOK(parent) /\ ClaimsKept(sessions, parent)
  BY <1>3, AfterGetKeepsClaims
<1>5. /\ GetsSession(parent, cl, child, s)
      /\ sessions' = [both EXCEPT ![s].contents = both[p].contents]
  BY <1>1
<1> HIDE DEF parent, cl
<1>6. TableOK(both) /\ ClaimsKept(parent, both)
  BY <1>4, <1>5, AfterGetKeepsClaims
<1> HIDE DEF both
<1>7. ClaimsKept(sessions, both)
  BY <1>4, <1>6 DEF ClaimsKept
<1>8. both[p].contents \in Value
  BY <1>6 DEF TableOK, Session
<1>9. TableOK(sessions') /\ ClaimsKept(sessions, sessions')
  BY ZenonT(20), SMTT(20), <1>5, <1>6, <1>7, <1>8, ContentsKeepClaims
<1>10. UNCHANGED <<open, anchor, claimed>>
  BY DEF CloneSession
<1> QED
  BY <1>2, <1>9, <1>10, UnclaimedStep, UnclaimedOutlasts

LEMMA CloneExistingInv ==
    ASSUME IInv, NEW c \in Fd, NEW id \in SessionId, NEW child \in SessionId,
           CloneExisting(c, id, child)
    PROVE  IInv' /\ Outlasts
<1>1. PICK p \in Slot, s \in Slot :
          /\ GetsSession(sessions, colder, id, p)
          /\ sessions' = AfterGet(sessions, id, p)
          /\ colder' = Touched(Touched(colder, p), s)
  BY DEF CloneExisting
<1>2. colder' \subseteq Slot \X Slot
  BY <1>1, TouchedType DEF IInv, TypeOK
<1>3. TableOK(sessions)
  BY DEF IInv
<1>4. TableOK(sessions') /\ ClaimsKept(sessions, sessions')
  BY <1>1, <1>3, AfterGetKeepsClaims
<1>5. UNCHANGED <<open, anchor, claimed>>
  BY DEF CloneExisting
<1> QED
  BY <1>2, <1>4, <1>5, UnclaimedStep, UnclaimedOutlasts
\* One more connection holds slot s, and its count goes up by that one.
LEMMA AttachInv ==
    ASSUME IInv, NEW c \in Fd, NEW id \in SessionId, Attach(c, id)
    PROVE  IInv' /\ Outlasts
<1>1. PICK s \in Slot :
          /\ GetsSession(sessions, colder, id, s)
          /\ sessions' = [AfterGet(sessions, id, s) EXCEPT ![s].anchors = @ + 1]
          /\ colder' = Touched(colder, s)
          /\ anchor' = [anchor EXCEPT ![c] = s]
          /\ claimed' = [claimed EXCEPT ![c] = id]
  BY ZenonT(20), SMTT(20) DEF Attach
<1> DEFINE tt == AfterGet(sessions, id, s)
<1>2. c \in open /\ open' = open /\ anchor[c] = NoSlot
  BY DEF Attach
<1>3. TableOK(sessions) /\ GetsSession(sessions, colder, id, s)
  BY <1>1 DEF IInv
<1>4. TableOK(tt) /\ tt[s].id = id /\ ClaimsKept(sessions, tt)
  BY <1>3, AfterGetKeepsClaims
<1>5. sessions' = [tt EXCEPT ![s].anchors = @ + 1]
  BY <1>1
<1> HIDE DEF tt
<1>6. tt \in [Slot -> Session] /\ tt[s] \in Session /\ tt[s].anchors \in Nat
  BY <1>4 DEF TableOK, Session
<1>7. /\ sessions' \in [Slot -> Session]
      /\ \A t \in Slot : sessions'[t].id = tt[t].id
      /\ sessions'[s].anchors = tt[s].anchors + 1
      /\ \A t \in Slot \ {s} : sessions'[t] = tt[t]
  BY <1>5, <1>6 DEF Session
<1>8. TypeOK'
  BY <1>1, <1>2, <1>7, TouchedType DEF IInv, TypeOK
<1>9. TableOK(sessions')
  BY <1>4, <1>7, SessionConstants DEF TableOK
<1>10. AnchorsCounted'
  <2>1. Claims(s)' = Claims(s) \cup {c} /\ c \notin Claims(s)
    BY <1>1, <1>2, SessionConstants DEF IInv, TypeOK, Claims, Slot
  <2>2. \A t \in Slot \ {s} : Claims(t)' = Claims(t)
    BY <1>1, <1>2, SessionConstants DEF IInv, TypeOK, Claims, Slot
  <2>3. IsFiniteSet(Claims(s))
    BY FS_Subset, SessionConstants DEF IInv, TypeOK, Claims
  <2>4. Cardinality(Claims(s)') = Cardinality(Claims(s)) + 1
    BY ZenonT(20), SMTT(20), <2>1, <2>3, FS_AddElement
  <2>5. \A t \in Slot : tt[t].anchors = Cardinality(Claims(t))
    BY <1>4 DEF IInv, AnchorsCounted, ClaimsKept, Claims
  <2>6. \A t \in Slot : sessions'[t].anchors = Cardinality(Claims(t)')
    BY <1>7, <2>2, <2>4, <2>5
  <2> QED
    BY <2>6 DEF AnchorsCounted, Claims
<1>11. ClaimHoldsItsSession'
  <2> SUFFICES ASSUME NEW d \in Fd, anchor'[d] # NoSlot
               PROVE  /\ d \in open'
                      /\ claimed'[d] \in SessionId
                      /\ sessions'[anchor'[d]].id = claimed'[d]
    BY DEF ClaimHoldsItsSession
  <2>1. CASE d = c
    BY <1>1, <1>2, <1>4, <1>7, <2>1 DEF IInv, TypeOK
  <2>2. CASE d # c
    <3>1. anchor'[d] = anchor[d] /\ claimed'[d] = claimed[d]
      BY <1>1, <2>2 DEF IInv, TypeOK
    <3>2. anchor[d] \in Slot /\ sessions[anchor[d]].anchors > 0
      BY <3>1, ClaimedIsCounted
    <3>3. tt[anchor[d]].id = sessions[anchor[d]].id
      BY <1>4, <3>2 DEF ClaimsKept
    <3> QED
      BY <1>2, <1>7, <3>1, <3>2, <3>3 DEF IInv, ClaimHoldsItsSession
  <2> QED
    BY <2>1, <2>2
<1>12. Outlasts
  <2>1. \A t \in Slot : sessions[t].anchors > 0 =>
            sessions'[t].id = sessions[t].id /\ sessions'[t].anchors # 0
    BY <1>4, <1>6, <1>7 DEF ClaimsKept
  <2> QED
    BY <2>1 DEF Outlasts
<1> QED
  BY <1>8, <1>9, <1>10, <1>11, <1>12 DEF IInv

\* A connection that holds nothing leaves nothing behind.
LEMMA DropUnattachedInv ==
    ASSUME IInv, NEW c \in Fd, DropConnection(c), anchor[c] = NoSlot
    PROVE  IInv' /\ Outlasts
<1>1. /\ open' = open \ {c}
      /\ anchor' = [anchor EXCEPT ![c] = NoSlot]
      /\ claimed' = [claimed EXCEPT ![c] = NoSession]
      /\ UNCHANGED <<sessions, colder>>
  BY DEF DropConnection
<1>2. anchor' = anchor
  BY <1>1 DEF IInv, TypeOK
<1>3. TypeOK'
  BY <1>1 DEF IInv, TypeOK
<1>4. \A s \in Slot : {d \in open' : anchor'[d] = s} = {d \in open : anchor[d] = s}
  BY <1>1, <1>2, SessionConstants DEF Slot
<1>5. AnchorsCounted'
  BY <1>1, <1>4 DEF IInv, AnchorsCounted
<1>6. ClaimHoldsItsSession'
  BY <1>1, <1>2 DEF IInv, TypeOK, ClaimHoldsItsSession
<1> QED
  BY <1>1, <1>3, <1>5, <1>6 DEF IInv, Outlasts

LEMMA UnclaimGivesOneBack ==
    ASSUME NEW slot \in Session, slot.anchors > 0
    PROVE  /\ Unclaim(slot) \in Session
           /\ Unclaim(slot).anchors = slot.anchors - 1
           /\ slot.anchors # 1 => Unclaim(slot).id = slot.id
           /\ slot.anchors = 1 => Unclaim(slot) = Released
<1>1. slot.anchors \in Nat
  BY DEF Session
<1>2. CASE slot.anchors = 1
  BY <1>2, SessionConstants DEF Unclaim, Released, Session
<1>3. CASE slot.anchors # 1
  <2>1. Unclaim(slot) = [slot EXCEPT !.anchors = slot.anchors - 1]
    BY <1>3 DEF Unclaim
  <2>2. slot.anchors - 1 \in Nat
    BY <1>1
  <2> QED
    BY <1>3, <2>1, <2>2 DEF Session
<1> QED
  BY <1>2, <1>3

\* A slot that counts one claim is held by one connection.
LEMMA LastClaim ==
    ASSUME IInv, NEW s \in Slot, sessions[s].anchors = 1,
           NEW c \in open, anchor[c] = s, NEW d \in open, anchor[d] = s
    PROVE  d = c
<1>1. c \in Claims(s) /\ d \in Claims(s)
  BY DEF Claims
<1>2. IsFiniteSet(Claims(s)) /\ Cardinality(Claims(s)) = 1
  BY FS_Subset, SessionConstants DEF IInv, TypeOK, Claims, AnchorsCounted
<1>3. PICK holders : holders = Claims(s)
  OBVIOUS
<1>4. IsFiniteSet(holders \ {c}) /\ Cardinality(holders \ {c}) = 1 - 1
  BY <1>1, <1>2, <1>3, FS_RemoveElement
<1>5. holders \ {c} = {}
  BY <1>4, FS_EmptySet
<1> QED
  BY <1>1, <1>3, <1>5

\* The claim is given back; the last one frees the slot, which then nobody
\* holds.
LEMMA DropAttachedInv ==
    ASSUME IInv, NEW c \in Fd, DropConnection(c), anchor[c] # NoSlot
    PROVE  IInv' /\ Outlasts
<1>1. PICK s \in Slot : s = anchor[c] /\ sessions[s].anchors > 0
  BY ClaimedIsCounted
<1>2. sessions \in [Slot -> Session] /\ sessions[s] \in Session
        /\ sessions[s].anchors \in Nat
  BY <1>1 DEF IInv, TypeOK, Session
<1>3. /\ c \in open
      /\ open' = open \ {c}
      /\ anchor' = [anchor EXCEPT ![c] = NoSlot]
      /\ claimed' = [claimed EXCEPT ![c] = NoSession]
      /\ sessions' = [sessions EXCEPT ![s] = Unclaim(sessions[s])]
      /\ colder' \subseteq colder
  BY <1>1, <1>2 DEF DropConnection
<1>4. Unclaim(sessions[s]) \in Session
  BY <1>1, <1>2, UnclaimGivesOneBack
<1>5. /\ sessions' \in [Slot -> Session]
      /\ sessions'[s] = Unclaim(sessions[s])
      /\ \A t \in Slot \ {s} : sessions'[t] = sessions[t]
  BY <1>1, <1>2, <1>3, <1>4
<1>6. /\ sessions'[s].anchors = sessions[s].anchors - 1
      /\ sessions[s].anchors # 1 => sessions'[s].id = sessions[s].id
      /\ sessions[s].anchors = 1 => sessions'[s] = Released
  BY <1>1, <1>2, <1>5, UnclaimGivesOneBack
<1>7. TypeOK'
  BY <1>3, <1>5, <1>6 DEF IInv, TypeOK
<1>8. TableOK(sessions')
  <2>1. \A t \in Slot : sessions'[t].id \in {sessions[t].id, NoSession}
    BY <1>5, <1>6 DEF Released
  <2>2. \A t \in Slot : sessions'[t].id = NoSession => sessions'[t].anchors = 0
    BY <1>1, <1>5, <1>6 DEF IInv, TableOK, Released
  <2> QED
    BY <1>5, <1>6, <2>1, <2>2 DEF IInv, TableOK
<1>9. AnchorsCounted'
  <2>1. Claims(s)' = Claims(s) \ {c} /\ c \in Claims(s)
    BY <1>1, <1>3, SessionConstants DEF IInv, TypeOK, Claims, Slot
  <2>2. \A t \in Slot \ {s} : Claims(t)' = Claims(t)
    BY <1>1, <1>3, SessionConstants DEF IInv, TypeOK, Claims, Slot
  <2>3. IsFiniteSet(Claims(s))
    BY FS_Subset, SessionConstants DEF IInv, TypeOK, Claims
  <2>4. Cardinality(Claims(s)') = Cardinality(Claims(s)) - 1
    BY ZenonT(20), SMTT(20), <2>1, <2>3, FS_RemoveElement
  <2>5. \A t \in Slot : sessions[t].anchors = Cardinality(Claims(t))
    BY DEF IInv, AnchorsCounted, Claims
  <2>6. \A t \in Slot : sessions'[t].anchors = Cardinality(Claims(t)')
    BY <1>5, <1>6, <2>2, <2>4, <2>5
  <2> QED
    BY <2>6 DEF AnchorsCounted, Claims
<1>10. ClaimHoldsItsSession'
  <2> SUFFICES ASSUME NEW d \in Fd, anchor'[d] # NoSlot
               PROVE  /\ d \in open'
                      /\ claimed'[d] \in SessionId
                      /\ sessions'[anchor'[d]].id = claimed'[d]
    BY DEF ClaimHoldsItsSession
  <2>1. d # c
    BY <1>3 DEF IInv, TypeOK
  <2>2. anchor'[d] = anchor[d] /\ claimed'[d] = claimed[d]
    BY <1>3, <2>1 DEF IInv, TypeOK
  <2>3. anchor[d] \in Slot /\ d \in open /\ claimed[d] \in SessionId
          /\ sessions[anchor[d]].id = claimed[d]
    BY <2>2, ClaimedIsCounted DEF IInv, ClaimHoldsItsSession
  <2>4. CASE anchor[d] # s
    BY <1>3, <1>5, <1>6, <2>1, <2>2, <2>3, <2>4
  <2>5. CASE anchor[d] = s /\ sessions[s].anchors # 1
    BY <1>3, <1>5, <1>6, <2>1, <2>2, <2>3, <2>5
  <2>6. CASE anchor[d] = s /\ sessions[s].anchors = 1
    \* Two connections would hold a slot that counts one.
    BY <1>1, <1>3, <2>1, <2>3, <2>6, LastClaim
  <2> QED
    BY <2>4, <2>5, <2>6
<1>11. Outlasts
  <2> SUFFICES ASSUME NEW t \in Slot, sessions[t].anchors > 0
               PROVE  /\ sessions'[t].id # sessions[t].id =>
                            \A d \in open : anchor[d] = t => d \notin open'
                      /\ sessions'[t].anchors = 0 => sessions'[t] = Released
    BY DEF Outlasts
  <2>1. CASE t # s
    <3>1. sessions'[t] = sessions[t]
      BY <1>5, <2>1
    <3> QED
      BY <3>1
  <2>2. CASE t = s /\ sessions[s].anchors # 1
    <3>1. sessions'[t].id = sessions[t].id /\ sessions'[t].anchors # 0
      BY <1>2, <1>6, <2>2
    <3> QED
      BY <3>1
  <2>3. CASE t = s /\ sessions[s].anchors = 1
    <3>1. \A d \in open : anchor[d] = s => d = c
      BY <1>1, <1>3, <2>3, LastClaim
    <3> QED
      BY <1>3, <1>6, <2>3, <3>1
  <2> QED
    BY <2>1, <2>2, <2>3
<1> QED
  BY <1>7, <1>8, <1>9, <1>10, <1>11 DEF IInv

LEMMA NextInv == ASSUME IInv, Next PROVE IInv' /\ Outlasts
BY AcceptInv, LookupInv, UpdateInv, AttachInv, CloneInv, CloneExistingInv,
   DropUnattachedInv, DropAttachedInv DEF Next

\* IInv holds in every reachable state: get_session(), ATTACH and
\* drop_connection() between them keep the counts and the claims.
THEOREM SessionsInductive == Spec => []IInv
<1>1. IInv /\ [Next]_vars => IInv'
  <2> SUFFICES ASSUME IInv, [Next]_vars PROVE IInv'
    OBVIOUS
  <2>1. CASE UNCHANGED vars
    BY <2>1 DEF vars, IInv, TypeOK, TableOK, AnchorsCounted,
                ClaimHoldsItsSession
  <2>2. CASE Next
    BY <2>2, NextInv
  <2> QED
    BY <2>1, <2>2
<1> QED
  BY InitInv, <1>1, PTL DEF Spec

\* For every table size and every set of clients, a claimed session leaves its
\* slot only by its last connection closing, and then it does: no lookup,
\* ATTACH or clone displaces it.
THEOREM ClaimsOutlast == Spec => LivesAsLongAsItsClaims
<1>1. IInv /\ [Next]_vars => [Outlasts]_vars
  BY NextInv
<1> QED
  BY <1>1, SessionsInductive, PTL DEF Spec, LivesAsLongAsItsClaims, Outlasts

\* For every table size and every set of clients, a connection's index into the
\* session table names the session its ATTACH named for as long as the
\* connection is open.
THEOREM ClaimsKeepTheirSession == Spec => []ClaimHoldsItsSession
BY SessionsInductive, PTL DEF IInv

\* The count of a slot is the number of open connections that hold it.
THEOREM CountsAreSound == Spec => []AnchorsCounted
BY SessionsInductive, PTL DEF IInv

\* A name never occupies two slots.
THEOREM NamesAreUnique == Spec => []OneSlotPerSession
<1>1. IInv => OneSlotPerSession
  BY DEF IInv, TableOK, OneSlotPerSession
<1> QED
  BY <1>1, SessionsInductive, PTL

\* All three: what a connection holds, what a slot counts and what a name finds
\* agree, for every table size and every set of clients.
THEOREM ClaimsAreSound == Spec => []ClaimsSound
BY ClaimsKeepTheirSession, CountsAreSound, NamesAreUnique, PTL DEF ClaimsSound

\* The type invariant.
THEOREM TypesAreSound == Spec => []TypeOK
BY SessionsInductive, PTL DEF IInv

-----------------------------------------------------------------------------
(***************************************************************************)
(* Room in the table.  With a full table get_session() takes the coldest   *)
(* slot that nobody has claimed.  That there is one needs the order of use *)
(* to be a strict order that is total on the slots in use: then a finite   *)
(* set of slots has a coldest member, the one with fewest colder ones.     *)
(***************************************************************************)

\* The order of use that session_clock and last_used give the slots in use.
UseOrder(ss, cl) ==
    /\ cl \subseteq Slot \X Slot
    /\ \A s \in Slot : <<s, s>> \notin cl
    /\ \A s, t, u \in Slot : <<s, t>> \in cl /\ <<t, u>> \in cl => <<s, u>> \in cl
    /\ \A s, t \in Slot :
          s # t /\ ss[s].id # NoSession /\ ss[t].id # NoSession
          => <<s, t>> \in cl \/ <<t, s>> \in cl

\* Touching the one slot that has changed keeps the order.
LEMMA TouchedOrders ==
    ASSUME NEW ss, NEW tt, NEW cl, UseOrder(ss, cl), NEW s \in Slot,
           \A t \in Slot \ {s} : tt[t].id = ss[t].id
    PROVE  UseOrder(tt, Touched(cl, s))
<1> DEFINE new == Touched(cl, s)
<1>1. \A a, b \in Slot : <<a, b>> \in new <=> a # s /\ (<<a, b>> \in cl \/ b = s)
  BY DEF Touched
<1>2. new \subseteq Slot \X Slot
  BY TouchedType DEF UseOrder
<1> HIDE DEF new
<1>3. \A a \in Slot : <<a, a>> \notin new
  BY ZenonT(20), SMTT(20), <1>1 DEF UseOrder
<1>4. \A a, b, c \in Slot : <<a, b>> \in new /\ <<b, c>> \in new => <<a, c>> \in new
  BY <1>1 DEF UseOrder
<1>5. \A a, b \in Slot :
          a # b /\ tt[a].id # NoSession /\ tt[b].id # NoSession
          => <<a, b>> \in new \/ <<b, a>> \in new
  BY <1>1 DEF UseOrder
<1>6. UseOrder(tt, new)
  BY <1>2, <1>3, <1>4, <1>5 DEF UseOrder
<1> QED
  BY <1>6 DEF new

\* get_session() writes no slot but the one it returns.
LEMMA AfterGetElsewhere ==
    ASSUME NEW ss \in [Slot -> Session], NEW id, NEW s \in Slot
    PROVE  \A t \in Slot \ {s} : AfterGet(ss, id, s)[t] = ss[t]
BY DEF AfterGet

\* Writing a field other than the name keeps the order.
LEMMA SameNamesOrder ==
    ASSUME NEW ss, NEW tt, NEW cl, UseOrder(ss, cl),
           \A t \in Slot : tt[t].id = ss[t].id
    PROVE  UseOrder(tt, cl)
BY DEF UseOrder

\* A set of numbers that is not empty has a least one.
LEMMA LeastOf ==
    ASSUME NEW T \in SUBSET Nat, T # {}
    PROVE  \E x \in T : \A y \in T : x <= y
<1>1. PICK x \in T : \A y \in T : ~(<<y, x>> \in OpToRel(<, Nat))
  BY ZenonT(20), SMTT(20), NatLessThanWellFounded, WFMin
<1>2. \A y \in T : ~(y < x)
  BY ZenonT(20), SMTT(20), <1>1 DEF OpToRel
<1>3. \A y \in T : x <= y
  BY <1>2
<1> QED
  BY <1>3

\* A strict order gives every set of slots that is not empty a member that has
\* no colder one in the set: the member that fewest of the set are colder than.
LEMMA ColdestOf ==
    ASSUME NEW ss, NEW cl, UseOrder(ss, cl), NEW T \in SUBSET Slot, T # {}
    PROVE  \E s \in T : \A t \in T : <<t, s>> \notin cl
<1> DEFINE Colder(s) == {t \in T : <<t, s>> \in cl}
           counts == {Cardinality(Colder(s)) : s \in T}
<1>1. IsFiniteSet(T)
  <2>1. IsFiniteSet(Slot)
    BY SessionConstants, FS_Interval DEF Slot
  <2> QED
    BY <2>1, FS_Subset
<1>2. \A s \in T : IsFiniteSet(Colder(s)) /\ Cardinality(Colder(s)) \in Nat
  BY ZenonT(20), SMTT(20), <1>1, FS_Subset, FS_CardinalityType
<1>3. counts \in SUBSET Nat /\ counts # {}
  BY ZenonT(20), SMTT(20), <1>2
<1>4. PICK n \in counts : \A m \in counts : n <= m
  BY ZenonT(20), SMTT(20), <1>3, LeastOf
<1>5. PICK s \in T : n = Cardinality(Colder(s))
  BY <1>4
<1>6. ASSUME NEW t \in T, <<t, s>> \in cl PROVE FALSE
  <2>1. s \in Slot /\ t \in Slot
    OBVIOUS
  <2>2. Colder(t) \subseteq Colder(s)
    BY <1>6, <2>1 DEF UseOrder
  <2>3. t \in Colder(s) /\ t \notin Colder(t)
    BY <1>6, <2>1 DEF UseOrder
  <2>4. PICK A, B : A = Colder(t) /\ B = Colder(s)
    OBVIOUS
  <2>5. IsFiniteSet(B) /\ A \in SUBSET B /\ A # B
    BY <1>2, <2>2, <2>3, <2>4
  <2>6. Cardinality(A) <= Cardinality(B) /\ Cardinality(B) # Cardinality(A)
    BY <2>5, FS_Subset
  <2>7. Cardinality(B) <= Cardinality(A)
    <3>1. Cardinality(A) \in counts
      BY ZenonT(20), SMTT(20), <2>4
    <3> QED
      BY <1>4, <1>5, <2>4, <3>1
  <2>8. Cardinality(A) \in Nat /\ Cardinality(B) \in Nat
    BY <1>2, <2>4
  <2> QED
    BY <2>6, <2>7, <2>8
<1> QED
  BY <1>6

\* get_session() finds a slot for any name in a table that orders the slots in
\* use and has one that nobody has claimed.
LEMMA RoomFound ==
    ASSUME NEW ss, NEW cl, TableOK(ss), UseOrder(ss, cl), NEW id \in SessionId,
           NEW u \in Slot, ss[u].anchors = 0
    PROVE  \E s \in Slot : GetsSession(ss, cl, id, s)
<1>1. CASE \E s \in Slot : Holds(ss, id, s)
  BY <1>1 DEF GetsSession
<1>2. CASE (\A s \in Slot : ~Holds(ss, id, s)) /\ \E s \in Slot : ss[s].id = NoSession
  <2> DEFINE free == {s \in Slot : ss[s].id = NoSession}
  <2>1. free \in SUBSET Nat /\ free # {}
    BY <1>2 DEF Slot
  <2>2. PICK s \in free : \A t \in free : s <= t
    BY ZenonT(20), SMTT(20), <2>1, LeastOf
  <2>3. \A t \in Slot : t < s => ss[t].id # NoSession
    BY <2>1, <2>2 DEF Slot
  <2> QED
    BY <1>2, <2>2, <2>3 DEF GetsSession, Claimable
<1>3. CASE (\A s \in Slot : ~Holds(ss, id, s)) /\ \A s \in Slot : ss[s].id # NoSession
  <2> DEFINE idle == {s \in Slot : ss[s].anchors = 0}
  <2>1. idle \in SUBSET Slot /\ idle # {}
    OBVIOUS
  <2>2. PICK s \in idle : \A t \in idle : <<t, s>> \notin cl
    BY ZenonT(20), SMTT(20), <2>1, ColdestOf
  <2>3. \A t \in Slot \ {s} : ss[t].anchors = 0 => <<s, t>> \in cl
    BY ZenonT(20), SMTT(20), <1>3, <2>2 DEF UseOrder
  <2> QED
    BY <1>3, <2>2, <2>3 DEF GetsSession, Claimable
<1> QED
  BY <1>1, <1>2, <1>3

LEMMA OrderInit == Init => UseOrder(sessions, colder)
BY DEF Init, UseOrder, Released

\* Every request touches the slots it finds, and drop_connection() takes a
\* slot out of the order together with its session.
LEMMA OrderNext ==
    ASSUME IInv, UseOrder(sessions, colder), Next
    PROVE  UseOrder(sessions, colder)'
<1>0. sessions \in [Slot -> Session]
  BY DEF IInv, TypeOK
<1>1. ASSUME NEW c \in Fd, AcceptConnection(c) PROVE UseOrder(sessions, colder)'
  BY <1>1 DEF AcceptConnection
<1>2. ASSUME NEW c \in Fd, NEW id \in SessionId, Lookup(c, id)
      PROVE  UseOrder(sessions, colder)'
  BY <1>0, <1>2, AfterGetElsewhere, TouchedOrders DEF Lookup
<1>3. ASSUME NEW c \in Fd, NEW id \in SessionId, NEW v \in Value, Update(c, id, v)
      PROVE  UseOrder(sessions, colder)'
  <2>1. PICK s \in Slot :
            /\ sessions' = [AfterGet(sessions, id, s) EXCEPT ![s].contents = v]
            /\ colder' = Touched(colder, s)
    BY ZenonT(20), SMTT(20), <1>3 DEF Update
  <2>2. \A t \in Slot \ {s} : sessions'[t] = sessions[t]
    BY <1>0, <2>1 DEF AfterGet
  <2> QED
    BY ZenonT(20), SMTT(20), <2>1, <2>2, TouchedOrders
<1>4. ASSUME NEW c \in Fd, NEW id \in SessionId, Attach(c, id)
      PROVE  UseOrder(sessions, colder)'
  <2>1. PICK s \in Slot :
            /\ sessions' = [AfterGet(sessions, id, s) EXCEPT ![s].anchors = @ + 1]
            /\ colder' = Touched(colder, s)
    BY ZenonT(20), SMTT(20), <1>4 DEF Attach
  <2>2. \A t \in Slot \ {s} : sessions'[t] = sessions[t]
    BY <1>0, <2>1 DEF AfterGet
  <2> QED
    BY ZenonT(20), SMTT(20), <2>1, <2>2, TouchedOrders
<1>5. ASSUME NEW c \in Fd, NEW id \in SessionId, NEW child \in SessionId,
             CloneSession(c, id, child)
      PROVE  UseOrder(sessions, colder)'
  <2>1. PICK p \in Slot, s \in Slot :
          /\ GetsSession(sessions, colder, id, p)
          /\ sessions' = [AfterGet(AfterGet(sessions, id, p), child, s)
                            EXCEPT ![s].contents =
                              AfterGet(AfterGet(sessions, id, p), child, s)[p].contents]
          /\ colder' = Touched(Touched(colder, p), s)
    BY ZenonT(20), SMTT(20), <1>5 DEF CloneSession
  <2> DEFINE parent == AfterGet(sessions, id, p)
  <2>2. UseOrder(parent, Touched(colder, p))
    BY <1>0, AfterGetElsewhere, TouchedOrders
  <2>3. TableOK(parent)
    BY <2>1, AfterGetKeepsClaims DEF IInv
  <2>4. \A t \in Slot \ {s} : sessions'[t] = parent[t]
    BY <2>1, <2>3 DEF AfterGet, TableOK
  <2> HIDE DEF parent
  <2> QED
    BY ZenonT(20), SMTT(20), <2>1, <2>2, <2>4, TouchedOrders
<1>6. ASSUME NEW c \in Fd, NEW id \in SessionId, NEW child \in SessionId,
             CloneExisting(c, id, child)
      PROVE  UseOrder(sessions, colder)'
  <2>1. PICK p \in Slot, s \in Slot :
          /\ sessions' = AfterGet(sessions, id, p)
          /\ colder' = Touched(Touched(colder, p), s)
    BY <1>6 DEF CloneExisting
  <2>2. UseOrder(sessions', Touched(colder, p))
    BY <1>0, <2>1, AfterGetElsewhere, TouchedOrders
  <2> QED
    BY ZenonT(20), SMTT(20), <2>1, <2>2, TouchedOrders
<1>7. ASSUME NEW c \in Fd, DropConnection(c) PROVE UseOrder(sessions, colder)'
  <2>1. CASE anchor[c] = NoSlot \/ sessions[anchor[c]].anchors = 0
    BY <1>7, <2>1 DEF DropConnection
  <2>2. CASE ~(anchor[c] = NoSlot \/ sessions[anchor[c]].anchors = 0)
    <3>1. PICK s \in Slot : s = anchor[c] /\ sessions[s].anchors > 0
      BY <2>2, ClaimedIsCounted
    <3>2. /\ sessions' = [sessions EXCEPT ![s] = Unclaim(sessions[s])]
          /\ colder' = IF sessions'[s] = Released
                       THEN {q \in colder : s \notin {q[1], q[2]}} ELSE colder
      BY <1>7, <2>2, <3>1 DEF DropConnection
    <3>3. sessions[s] \in Session
      BY <1>0
    <3>4. /\ sessions'[s] = Unclaim(sessions[s])
          /\ \A t \in Slot \ {s} : sessions'[t] = sessions[t]
      BY <1>0, <3>2
    <3>5. CASE sessions'[s] = Released
      <4>1. sessions'[s].id = NoSession
        BY <3>5 DEF Released
      <4>2. colder' \subseteq Slot \X Slot
        BY <3>2, <3>5 DEF UseOrder
      <4>3. \A a, b \in Slot :
                <<a, b>> \in colder' <=> <<a, b>> \in colder /\ a # s /\ b # s
        BY <3>2, <3>5
      <4>4. \A a \in Slot : <<a, a>> \notin colder'
        BY ZenonT(20), SMTT(20), <4>3 DEF UseOrder
      <4>5. \A a, b, d \in Slot :
                <<a, b>> \in colder' /\ <<b, d>> \in colder' => <<a, d>> \in colder'
        BY <4>3 DEF UseOrder
      <4>6. \A a, b \in Slot :
                a # b /\ sessions'[a].id # NoSession /\ sessions'[b].id # NoSession
                => <<a, b>> \in colder' \/ <<b, a>> \in colder'
        BY <3>4, <4>1, <4>3 DEF UseOrder
      <4> QED
        BY <4>2, <4>4, <4>5, <4>6 DEF UseOrder
    <3>6. CASE sessions'[s] # Released
      <4>1. sessions'[s].id = sessions[s].id
        BY <3>1, <3>3, <3>4, <3>6, UnclaimGivesOneBack
      <4>2. \A t \in Slot : sessions'[t].id = sessions[t].id
        BY <3>4, <4>1
      <4>3. colder' = colder
        BY <3>2, <3>6
      <4>4. UseOrder(sessions', colder)
        BY <4>2, SameNamesOrder
      <4> QED
        BY <4>3, <4>4
    <3> QED
      BY <3>5, <3>6
  <2> QED
    BY <2>1, <2>2
<1> QED
  BY <1>1, <1>2, <1>3, <1>4, <1>5, <1>6, <1>7 DEF Next

\* While a slot is free or unclaimed, get_session() refuses no name with
\* ENOSPC, for every table size: last_used orders the slots in use, so there is
\* always a coldest one to reclaim.
THEOREM RoomIsFound == Spec => []RoomWhileUnclaimed
<1>1. IInv /\ UseOrder(sessions, colder) /\ [Next]_vars => UseOrder(sessions, colder)'
  <2>1. ASSUME UseOrder(sessions, colder), UNCHANGED vars
        PROVE  UseOrder(sessions, colder)'
    BY <2>1 DEF vars
  <2> QED
    BY <2>1, OrderNext
<1>2. IInv /\ UseOrder(sessions, colder) => RoomWhileUnclaimed
  BY RoomFound DEF IInv, RoomWhileUnclaimed
<1> QED
  BY <1>1, <1>2, OrderInit, SessionsInductive, PTL DEF Spec
-----------------------------------------------------------------------------
(***************************************************************************)
(* Proofs about SessionVariables, what a session remembers besides.  The   *)
(* argument: no name and type is ever in two slots of a table, so the slot *)
(* a request finds first is the only one, and what SETVAR wrote there last *)
(* is what the next request reads.                                         *)
(***************************************************************************)
CONSTANTS
    Shell,                          \* the Session of SessionVariables
    Text,                           \* the Value of SessionVariables
    Global, VarName, Code, MaxVars, MaxCount, Caller, EnvName, Nested

VARIABLES live, table, result, tally, privileged, told, spent, env, envarc, pending, saved

SV == INSTANCE SessionVariables WITH Session <- Shell, Value <- Text

\* A slot of a table: free, or a whole entry.
Entry == {SV!Free} \cup [name : VarName, type : SV!Kind, value : Text]
ToldOf == [VarName \X SV!Kind -> Text \cup {SV!Unset}]
EntriesOf == [SV!Slots -> Entry]

\* No name and type is in two slots, and what is told of them is in the slot.
IsMap(tb, td) ==
    /\ \A i, j \in SV!Slots :
          tb[i] # SV!Free /\ tb[i].name = tb[j].name /\ tb[i].type = tb[j].type => i = j
    /\ \A i \in SV!Slots : tb[i] # SV!Free => td[<<tb[i].name, tb[i].type>>] = tb[i].value
    /\ \A n \in VarName, k \in SV!Kind :
          td[<<n, k>>] # SV!Unset => \E i \in SV!Slots : tb[i].name = n /\ tb[i].type = k


\* Every table is a map and agrees with the history; a session not in use has
\* nothing.
VarMaps ==
    /\ live \subseteq Shell
    /\ table \in [SV!Tables -> EntriesOf]
    /\ told \in [SV!Tables -> ToldOf]
    /\ \A t \in SV!Tables : IsMap(table[t], told[t])
    /\ \A s \in Shell \ live : table[s] = SV!NoVars /\ told[s] = SV!Nothing

\* The results, and the counts with their history.
VarCounts ==
    /\ result \in [Shell -> Code \cup {SV!Unset}]
    /\ tally \in [Shell -> BOOLEAN]
    /\ privileged \in [Shell -> 0 .. MaxCount]
    /\ spent \in [Shell -> Nat]
    /\ SV!CountsOnePeriod

\* The files of the global variables and the calls under way; what is saved is in
\* the archive, and no call is about to delete it there.
VarFiles ==
    /\ env \in [EnvName -> Text \cup {SV!Unset, SV!Short}]
    /\ envarc \in [EnvName -> Text \cup {SV!Unset, SV!Short}]
    /\ pending \in [Caller -> {SV!NoCall}
                               \cup [op : {"set"}, name : EnvName, value : Text]
                               \cup [op : {"delete"}, name : EnvName]]
    /\ saved \subseteq EnvName
    /\ \A n \in saved : envarc[n] # SV!Unset /\ ~ SV!Deleting(n)

USE ZenonT(10), SMTT(20)

\* find_variable() and allocate_variable() take the first slot of the ones they
\* look for: it is one of them.
LEMMA FirstIsIn ==
    ASSUME NEW S \in SUBSET SV!Slots, S # {}, SV!Constants
    PROVE  SV!First(S) \in S
<1>1. S \in SUBSET Nat
  BY SMTT(20) DEF SV!Slots, SV!Constants
<1>2. \E i \in S : \A j \in S : i <= j
  BY <1>1, LeastOf
<1> QED
  BY <1>2 DEF SV!First

\* A cleared table is a map that holds nothing.
LEMMA EmptyIsMap ==
    ASSUME SV!Constants
    PROVE  IsMap(SV!NoVars, SV!Nothing) /\ SV!NoVars \in EntriesOf /\ SV!Nothing \in ToldOf
BY DEF IsMap, SV!NoVars, SV!Nothing, SV!Free, SV!Slots, SV!Kind, EntriesOf, ToldOf, Entry

\* SETVAR in the slot allocate_variable() gives keeps the table a map: the slot
\* either has the name and type already, or nothing has.
LEMMA SetIsMap ==
    ASSUME SV!Constants, NEW tb \in EntriesOf, NEW td \in ToldOf, IsMap(tb, td),
           NEW n \in VarName, NEW k \in SV!Kind, NEW v \in Text,
           NEW i \in SV!allocate_variable(tb, n, k),
           NEW tc, tc = [tb EXCEPT ![i] = [name |-> n, type |-> k, value |-> v]],
           NEW tf, tf = [td EXCEPT ![<<n, k>>] = v]
    PROVE  IsMap(tc, tf) /\ tc \in EntriesOf /\ tf \in ToldOf
<1> DEFINE e == [name |-> n, type |-> k, value |-> v]
<1>1. /\ e \in Entry /\ e.name = n /\ e.type = k /\ e.value = v /\ e # SV!Free
      /\ n # SV!NoName /\ v # SV!Unset
  BY DEF Entry, SV!Free, SV!Constants
<1>2. /\ i \in SV!Slots
      /\ \/ tb[i].name = n /\ tb[i].type = k
         \/ tb[i].name = SV!NoName /\ \A j \in SV!Slots : ~(tb[j].name = n /\ tb[j].type = k)
  BY DEF SV!allocate_variable, SV!find_variable, SV!FirstFree
<1>3. \A j \in SV!Slots : tc[j] = IF j = i THEN e ELSE tb[j]
  BY DEF EntriesOf
<1>4. <<n, k>> \in VarName \X SV!Kind /\ tf \in ToldOf /\ tc \in EntriesOf
  BY <1>1, <1>2 DEF EntriesOf, ToldOf
<1>5. \A m \in VarName, l \in SV!Kind :
         tf[<<m, l>>] = IF m = n /\ l = k THEN v ELSE td[<<m, l>>]
  BY SMTT(30), ZenonT(20), <1>4 DEF ToldOf
<1>6. \A j \in SV!Slots : /\ tb[j] \in Entry
                          /\ tb[j] # SV!Free => tb[j].name \in VarName /\ tb[j].type \in SV!Kind
                          /\ tb[j].name = SV!NoName => tb[j] = SV!Free
  BY DEF EntriesOf, Entry, SV!Constants, SV!Free
<1>7. \A j \in SV!Slots : j # i => ~(tb[j].name = n /\ tb[j].type = k)
  BY SMTT(20), <1>1, <1>2, <1>6 DEF IsMap, SV!Free
<1> HIDE DEF e
<1>8. \A j, h \in SV!Slots :
          tc[j] # SV!Free /\ tc[j].name = tc[h].name /\ tc[j].type = tc[h].type => j = h
  BY SMTT(20), <1>1, <1>3, <1>7 DEF IsMap
<1>9. \A j \in SV!Slots : tc[j] # SV!Free => tf[<<tc[j].name, tc[j].type>>] = tc[j].value
  BY SMTT(20), <1>1, <1>3, <1>5, <1>6, <1>7 DEF IsMap
<1>10. ASSUME NEW m \in VarName, NEW l \in SV!Kind, tf[<<m, l>>] # SV!Unset
       PROVE  \E j \in SV!Slots : tc[j].name = m /\ tc[j].type = l
  <2>1. CASE m = n /\ l = k
    BY <2>1, <1>1, <1>2, <1>3
  <2>2. CASE ~(m = n /\ l = k)
    <3>1. PICK j \in SV!Slots : tb[j].name = m /\ tb[j].type = l
      BY SMTT(20), <2>2, <1>5, <1>10 DEF IsMap
    <3>2. j # i
      BY <3>1, <2>2, <1>2 DEF SV!Constants
    <3> QED
      BY <3>1, <3>2, <1>3
  <2> QED
    BY <2>1, <2>2
<1> QED
  BY <1>4, <1>8, <1>9, <1>10 DEF IsMap

\* DELVAR clears the one slot that has the name and type.
LEMMA DelIsMap ==
    ASSUME SV!Constants, NEW tb \in EntriesOf, NEW td \in ToldOf, IsMap(tb, td),
           NEW n \in VarName, NEW k \in SV!Kind,
           NEW i \in SV!find_variable(tb, n, k),
           NEW tc, tc = [tb EXCEPT ![i] = SV!Free],
           NEW tf, tf = [td EXCEPT ![<<n, k>>] = SV!Unset]
    PROVE  IsMap(tc, tf) /\ tc \in EntriesOf /\ tf \in ToldOf
<1>1. i \in SV!Slots /\ tb[i].name = n /\ tb[i].type = k
  BY DEF SV!find_variable
<1>2. <<n, k>> \in VarName \X SV!Kind /\ tf \in ToldOf /\ tc \in EntriesOf
  BY <1>1 DEF EntriesOf, ToldOf, Entry
<1>3. \A j \in SV!Slots : tc[j] = IF j = i THEN SV!Free ELSE tb[j]
  BY DEF EntriesOf
<1>5. \A m \in VarName, l \in SV!Kind :
         tf[<<m, l>>] = IF m = n /\ l = k THEN SV!Unset ELSE td[<<m, l>>]
  BY <1>2 DEF ToldOf
<1>6. \A j \in SV!Slots : /\ tb[j] \in Entry
                          /\ tb[j] # SV!Free => tb[j].name \in VarName /\ tb[j].type \in SV!Kind
                          /\ tb[j].name = SV!NoName => tb[j] = SV!Free
  BY DEF EntriesOf, Entry, SV!Constants, SV!Free
<1>7. \A j \in SV!Slots : j # i => ~(tb[j].name = n /\ tb[j].type = k)
  BY SMTT(20), <1>1, <1>6 DEF IsMap, SV!Free, SV!Constants
<1>8. \A j, h \in SV!Slots :
          tc[j] # SV!Free /\ tc[j].name = tc[h].name /\ tc[j].type = tc[h].type => j = h
  BY SMTT(20), <1>3, <1>6 DEF IsMap, SV!Free, SV!Constants
<1>9. \A j \in SV!Slots : tc[j] # SV!Free => tf[<<tc[j].name, tc[j].type>>] = tc[j].value
  BY SMTT(20), <1>3, <1>5, <1>6, <1>7 DEF IsMap
<1>10. ASSUME NEW m \in VarName, NEW l \in SV!Kind, tf[<<m, l>>] # SV!Unset
       PROVE  \E j \in SV!Slots : tc[j].name = m /\ tc[j].type = l
  <2>1. ~(m = n /\ l = k)
    BY <1>5, <1>10
  <2>2. PICK j \in SV!Slots : tb[j].name = m /\ tb[j].type = l
    BY SMTT(20), <2>1, <1>5, <1>10 DEF IsMap
  <2> QED
    BY <2>1, <2>2, <1>1, <1>3
<1> QED
  BY <1>2, <1>8, <1>9, <1>10 DEF IsMap

\* SETVAR keeps the maps, in the session's table or in the shared one.
LEMMA SetVarKeeps ==
    ASSUME SV!Constants, VarMaps, VarCounts, NEW s \in Shell, NEW n \in VarName,
           NEW k \in SV!Kind, NEW sc \in SV!Scopes, NEW v \in Text,
           SV!SetVar(s, n, k, sc, v)
    PROVE  VarMaps' /\ VarCounts'
<1> DEFINE t == IF sc = {"global"} THEN Global ELSE s
           room == SV!allocate_variable(table[t], n, k)
           i == SV!First(room)
           tc == [table[t] EXCEPT ![i] = [name |-> n, type |-> k, value |-> v]]
           tf == [told[t] EXCEPT ![<<n, k>>] = v]
<1>1. t \in SV!Tables /\ (t \in Shell => t \in live)
  BY DEF SV!SetVar, SV!Tables, SV!Constants
<1>2. /\ live' = live /\ table' = [table EXCEPT ![t] = tc] /\ told' = [told EXCEPT ![t] = tf]
      /\ room # {} /\ UNCHANGED <<result, tally, privileged, spent>>
  BY DEF SV!SetVar
<1>3. i \in room
  <2>1. room \in SUBSET SV!Slots
    BY DEF SV!allocate_variable, SV!find_variable, SV!FirstFree
  <2> QED
    BY <1>2, <2>1, FirstIsIn
<1>4. table[t] \in EntriesOf /\ told[t] \in ToldOf /\ IsMap(table[t], told[t])
  BY <1>1 DEF VarMaps
<1> HIDE DEF room, i, t
<1>5. IsMap(tc, tf) /\ tc \in EntriesOf /\ tf \in ToldOf
  BY <1>3, <1>4, SetIsMap DEF room
<1> HIDE DEF tc, tf
<1>6. VarMaps'
  BY SMTT(20), <1>1, <1>2, <1>5 DEF VarMaps
<1>7. VarCounts'
  BY <1>2 DEF VarCounts, SV!CountsOnePeriod
<1> QED
  BY <1>6, <1>7

\* DELVAR keeps them, in the table lookup_variable() finds the name in.
LEMMA DelVarKeeps ==
    ASSUME SV!Constants, VarMaps, VarCounts, NEW s \in Shell, NEW n \in VarName,
           NEW k \in SV!Kind, NEW sc \in SV!Scopes, SV!DelVar(s, n, k, sc)
    PROVE  VarMaps' /\ VarCounts'
<1>1. PICK t \in SV!lookup_variable(s, n, k, sc) :
         /\ table' = [table EXCEPT ![t][SV!First(SV!find_variable(table[t], n, k))] = SV!Free]
         /\ told' = [told EXCEPT ![t][<<n, k>>] = SV!Unset]
  BY ZenonT(20), SMTT(20) DEF SV!DelVar
<1> DEFINE found == SV!find_variable(table[t], n, k)
           i == SV!First(found)
           tc == [table[t] EXCEPT ![i] = SV!Free]
           tf == [told[t] EXCEPT ![<<n, k>>] = SV!Unset]
<1>2. t \in SV!Tables /\ (t \in Shell => t \in live) /\ found # {}
  BY DEF SV!DelVar, SV!Tables, SV!Constants, SV!lookup_variable
<1>3. /\ live' = live /\ table' = [table EXCEPT ![t] = tc] /\ told' = [told EXCEPT ![t] = tf]
      /\ UNCHANGED <<result, tally, privileged, spent>>
  BY ZenonT(20), SMTT(20), <1>1 DEF SV!DelVar
<1>4. i \in found
  <2>1. found \in SUBSET SV!Slots
    BY DEF SV!find_variable
  <2> QED
    BY <1>2, <2>1, FirstIsIn
<1>5. table[t] \in EntriesOf /\ told[t] \in ToldOf /\ IsMap(table[t], told[t])
  BY <1>2 DEF VarMaps
<1> HIDE DEF found, i
<1>6. IsMap(tc, tf) /\ tc \in EntriesOf /\ tf \in ToldOf
  BY <1>4, <1>5, DelIsMap DEF found
<1> HIDE DEF tc, tf
<1>7. VarMaps'
  BY SMTT(20), <1>2, <1>3, <1>6 DEF VarMaps
<1>8. VarCounts'
  BY <1>3 DEF VarCounts, SV!CountsOnePeriod
<1> QED
  BY <1>7, <1>8

\* Making, cloning and releasing a session keep them.
LEMMA SessionStepsKeep ==
    ASSUME SV!Constants, VarMaps, VarCounts, NEW s \in Shell,
           \/ SV!Open(s)
           \/ SV!Release(s)
           \/ \E c \in Shell : SV!CloneSession(s, c)
    PROVE  VarMaps' /\ VarCounts'
<1>1. ASSUME SV!Open(s) PROVE VarMaps' /\ VarCounts'
  BY <1>1 DEF SV!Open, VarMaps, VarCounts, SV!CountsOnePeriod
<1>2. ASSUME SV!Release(s) PROVE VarMaps' /\ VarCounts'
  <2>1. s \in SV!Tables
    BY DEF SV!Tables
  <2>2. VarMaps'
    BY SMTT(20), <1>2, <2>1, EmptyIsMap DEF SV!Release, VarMaps
  <2>3. VarCounts'
    BY SMTT(20), <1>2 DEF SV!Release, VarCounts, SV!CountsOnePeriod, SV!Constants
  <2> QED
    BY <2>2, <2>3
<1>3. ASSUME NEW c \in Shell, SV!CloneSession(s, c) PROVE VarMaps' /\ VarCounts'
  <2>1. s \in SV!Tables /\ c \in SV!Tables
    BY DEF SV!Tables
  <2>2. VarMaps'
    BY SMTT(20), <1>3, <2>1 DEF SV!CloneSession, VarMaps
  <2>3. VarCounts'
    BY <1>3 DEF SV!CloneSession, VarCounts, SV!CountsOnePeriod
  <2> QED
    BY <2>2, <2>3
<1> QED
  BY <1>1, <1>2, <1>3

\* SETRESULT, TALLY and PRIVOP touch no table and keep the counts.
LEMMA CountStepsKeep ==
    ASSUME SV!Constants, VarMaps, VarCounts, NEW s \in Shell,
           \/ SV!TallyReport(s)
           \/ \E v \in Code : SV!SetResult(s, v)
           \/ \E b \in BOOLEAN : SV!Tally(s, b) \/ SV!PrivOp(s, b)
    PROVE  VarMaps' /\ VarCounts'
<1>1. UNCHANGED <<live, table, told>>
  BY DEF SV!TallyReport, SV!SetResult, SV!Tally, SV!PrivOp
<1>2. VarMaps'
  BY <1>1 DEF VarMaps
<1>3. ASSUME SV!TallyReport(s) PROVE VarCounts'
  BY SMTT(20), <1>3 DEF SV!TallyReport, SV!AfterReport, VarCounts, SV!CountsOnePeriod, SV!Constants
<1>4. ASSUME NEW v \in Code, SV!SetResult(s, v) PROVE VarCounts'
  BY <1>4 DEF SV!SetResult, VarCounts, SV!CountsOnePeriod
<1>5. ASSUME NEW b \in BOOLEAN, SV!Tally(s, b) PROVE VarCounts'
  BY SMTT(20), <1>5 DEF SV!Tally, VarCounts, SV!CountsOnePeriod, SV!Constants
<1>6. ASSUME NEW b \in BOOLEAN, SV!PrivOp(s, b) PROVE VarCounts'
  BY SMTT(20), <1>6 DEF SV!PrivOp, VarCounts, SV!CountsOnePeriod, SV!Constants
<1> QED
  BY <1>2, <1>3, <1>4, <1>5, <1>6

\* What the broker knows is not touched by the global variables' files, and a
\* new broker knows nothing.
LEMMA FileStepsKeep ==
    ASSUME SV!Constants, VarMaps, VarCounts,
           \/ SV!GlobalCall
           \/ \E host \in BOOLEAN, how \in [EnvName -> SV!Outcome] : SV!StartBroker(host, how)
    PROVE  VarMaps' /\ VarCounts'
<1>1. ASSUME SV!GlobalCall PROVE VarMaps' /\ VarCounts'
  <2>1. UNCHANGED SV!memory
    BY <1>1 DEF SV!GlobalCall, SV!Killed, SV!ArchiveSet, SV!ArchiveDelete,
                SV!DeleteGlobalVar, SV!SetGlobalVar
  <2> QED
    BY <2>1 DEF SV!memory, VarMaps, VarCounts, SV!CountsOnePeriod
<1>2. ASSUME NEW host \in BOOLEAN, NEW how \in [EnvName -> SV!Outcome],
             SV!StartBroker(host, how)
      PROVE  VarMaps' /\ VarCounts'
  <2>1. VarMaps'
    BY <1>2, EmptyIsMap DEF SV!StartBroker, VarMaps, SV!Tables
  <2>2. VarCounts'
    BY SMTT(20), <1>2 DEF SV!StartBroker, VarCounts, SV!CountsOnePeriod, SV!Constants
  <2> QED
    BY <2>1, <2>2
<1> QED
  BY <1>1, <1>2

\* A file after global_var_write() is one of the files there may be, and is
\* there when it was or when a value was written.
LEMMA FileWritten ==
    ASSUME NEW old \in Text \cup {SV!Unset, SV!Short},
           NEW v \in Text \cup {SV!Unset, SV!Short}, NEW how \in SV!Outcome
    PROVE  /\ SV!global_var_write(old, v, how) \in Text \cup {SV!Unset, SV!Short}
           /\ v # SV!Unset /\ (how = "done" \/ old # SV!Unset) =>
                SV!global_var_write(old, v, how) # SV!Unset
BY DEF SV!global_var_write, SV!Outcome, SV!Short, SV!Unset

\* The first file of a SetVar() or DeleteVar().  What is to be deleted from the
\* archive is no longer counted as saved from here on.
LEMMA FirstFileKeeps ==
    ASSUME SV!Constants, VarFiles, NEW c \in Caller, NEW n \in EnvName,
           NEW save \in BOOLEAN,
           \/ \E done \in BOOLEAN : SV!DeleteGlobalVar(c, n, save, done)
           \/ \E v \in Text, how \in SV!Outcome : SV!SetGlobalVar(c, n, v, save, how)
    PROVE  VarFiles'
<1>1. ASSUME NEW done \in BOOLEAN, SV!DeleteGlobalVar(c, n, save, done) PROVE VarFiles'
  <2>1. /\ env' \in [EnvName -> Text \cup {SV!Unset, SV!Short}]
        /\ envarc' = envarc /\ saved' = IF save THEN saved \ {n} ELSE saved
    BY <1>1 DEF SV!DeleteGlobalVar, VarFiles
  <2>2. pending' = [pending EXCEPT ![c] = IF save THEN [op |-> "delete", name |-> n] ELSE SV!NoCall]
    BY <1>1 DEF SV!DeleteGlobalVar
  <2>3. \A m \in saved' : ~ SV!Deleting(m)'
    BY <2>1, <2>2 DEF VarFiles, SV!Deleting, SV!NoCall
  <2> QED
    BY <2>1, <2>2, <2>3 DEF VarFiles
<1>2. ASSUME NEW v \in Text, NEW how \in SV!Outcome, SV!SetGlobalVar(c, n, v, save, how)
      PROVE  VarFiles'
  <2>1. /\ env' \in [EnvName -> Text \cup {SV!Unset, SV!Short}]
        /\ envarc' = envarc /\ saved' = saved
    BY <1>2, FileWritten DEF SV!SetGlobalVar, VarFiles
  <2>2. PICK p \in {SV!NoCall} \cup [op : {"set"}, name : EnvName, value : Text] :
           pending' = [pending EXCEPT ![c] = p]
    BY <1>2 DEF SV!SetGlobalVar
  <2>3. p.op # "delete"
    BY SMTT(20) DEF SV!NoCall
  <2>4. \A m \in saved' : ~ SV!Deleting(m)'
    BY <2>1, <2>2, <2>3 DEF VarFiles, SV!Deleting
  <2> QED
    BY <2>1, <2>2, <2>4 DEF VarFiles
<1> QED
  BY <1>1, <1>2

\* The second file.  It is deleted only by a call that was about to, so not when
\* it counts as saved.
LEMMA SecondFileKeeps ==
    ASSUME SV!Constants, VarFiles, NEW c \in Caller,
           \/ SV!Killed(c)
           \/ \E how \in SV!Outcome : SV!ArchiveSet(c, how)
           \/ \E done \in BOOLEAN : SV!ArchiveDelete(c, done)
    PROVE  VarFiles'
<1>1. /\ env' = env /\ pending' = [pending EXCEPT ![c] = SV!NoCall]
  BY DEF SV!Killed, SV!ArchiveSet, SV!ArchiveDelete
<1>2. \A m \in EnvName : SV!Deleting(m)' => SV!Deleting(m)
  BY <1>1 DEF VarFiles, SV!Deleting, SV!NoCall
<1>3. ASSUME SV!Killed(c) PROVE VarFiles'
  BY <1>1, <1>2, <1>3 DEF SV!Killed, VarFiles
<1>4. ASSUME NEW how \in SV!Outcome, SV!ArchiveSet(c, how) PROVE VarFiles'
  <2>0. pending[c].name \in EnvName /\ pending[c].value \in Text
    BY SMTT(20), <1>4 DEF SV!ArchiveSet, VarFiles, SV!NoCall
  <2>1. PICK n \in EnvName, v \in Text :
           /\ envarc' = [envarc EXCEPT ![n] = SV!global_var_write(@, v, how)]
           /\ saved' = IF how = "done" /\ ~ SV!Deleting(n) THEN saved \cup {n} ELSE saved
    BY ZenonT(20), <1>4, <2>0 DEF SV!ArchiveSet
  <2>2. v # SV!Unset
    BY DEF SV!Constants
  <2>3. envarc' \in [EnvName -> Text \cup {SV!Unset, SV!Short}]
    BY <2>1, FileWritten DEF VarFiles
  <2>4. \A m \in saved' : envarc'[m] # SV!Unset
    BY <2>1, <2>2, FileWritten DEF VarFiles
  <2>5. \A m \in saved' : m \in EnvName /\ ~ SV!Deleting(m)
    BY <2>1 DEF VarFiles
  <2> QED
    BY <1>1, <1>2, <2>3, <2>4, <2>5 DEF VarFiles
<1>5. ASSUME NEW done \in BOOLEAN, SV!ArchiveDelete(c, done) PROVE VarFiles'
  <2>0. pending[c].name \in EnvName /\ pending[c].op = "delete"
    BY SMTT(20), <1>5 DEF SV!ArchiveDelete, VarFiles, SV!NoCall
  <2>1. PICK n \in EnvName : /\ SV!Deleting(n)
                             /\ envarc' = [envarc EXCEPT ![n] = IF done THEN SV!Unset ELSE @]
    BY ZenonT(20), <1>5, <2>0 DEF SV!ArchiveDelete, SV!Deleting
  <2>2. n \notin saved /\ saved' = saved
    BY <1>5, <2>1 DEF VarFiles, SV!ArchiveDelete
  <2> QED
    BY <1>1, <1>2, <2>1, <2>2 DEF VarFiles
<1> QED
  BY <1>3, <1>4, <1>5

\* A start of the broker leaves the archive alone.
LEMMA StartKeepsFiles ==
    ASSUME SV!Constants, VarFiles, NEW host \in BOOLEAN,
           NEW how \in [EnvName -> SV!Outcome], SV!StartBroker(host, how)
    PROVE  VarFiles'
<1>1. PICK old \in [EnvName -> Text \cup {SV!Unset, SV!Short}] :
         env' = SV!restore_environment_archive(old, how)
  BY DEF SV!StartBroker, VarFiles
<1>2. env' \in [EnvName -> Text \cup {SV!Unset, SV!Short}]
  BY <1>1, FileWritten DEF SV!restore_environment_archive, VarFiles
<1>3. /\ envarc' = envarc /\ saved' = saved
      /\ pending' = IF host THEN [c \in Caller |-> SV!NoCall] ELSE pending
  BY DEF SV!StartBroker
<1>4. \A m \in EnvName : SV!Deleting(m)' => SV!Deleting(m)
  BY <1>3 DEF SV!Deleting, SV!NoCall
<1> QED
  BY <1>2, <1>3, <1>4 DEF VarFiles

\* The files keep their invariant in every reachable state.
LEMMA FilesInvariant == SV!Constants => (SV!Spec => []VarFiles)
<1> SUFFICES ASSUME SV!Constants PROVE SV!Spec => []VarFiles
  OBVIOUS
<1>1. ASSUME SV!Init PROVE VarFiles
  BY <1>1 DEF SV!Init, VarFiles
<1>2. ASSUME VarFiles, [SV!Next]_SV!vars PROVE VarFiles'
  <2>1. ASSUME UNCHANGED SV!files PROVE VarFiles'
    BY <1>2, <2>1 DEF SV!files, VarFiles, SV!Deleting
  <2>2. ASSUME SV!Request PROVE UNCHANGED SV!files
    <3>1. ASSUME NEW s, SV!Open(s) \/ SV!Release(s) \/ SV!TallyReport(s)
          PROVE  UNCHANGED SV!files
      BY <3>1 DEF SV!Open, SV!Release, SV!TallyReport
    <3>2. ASSUME NEW s, NEW c, SV!CloneSession(s, c) \/ SV!SetResult(s, c)
          PROVE  UNCHANGED SV!files
      BY <3>2 DEF SV!CloneSession, SV!SetResult
    <3>3. ASSUME NEW s, NEW b, SV!Tally(s, b) \/ SV!PrivOp(s, b) PROVE UNCHANGED SV!files
      BY <3>3 DEF SV!Tally, SV!PrivOp
    <3>4. ASSUME NEW s, NEW n, NEW k, NEW sc, SV!DelVar(s, n, k, sc)
          PROVE  UNCHANGED SV!files
      BY <3>4 DEF SV!DelVar
    <3>5. ASSUME NEW s, NEW n, NEW k, NEW sc, NEW v, SV!SetVar(s, n, k, sc, v)
          PROVE  UNCHANGED SV!files
      BY <3>5 DEF SV!SetVar
    <3> QED
      BY ZenonT(20), <2>2, <3>1, <3>2, <3>3, <3>4, <3>5 DEF SV!Request
  <2>3. ASSUME SV!GlobalCall PROVE VarFiles'
    BY <1>2, <2>3, FirstFileKeeps, SecondFileKeeps DEF SV!GlobalCall
  <2>4. UNCHANGED SV!vars => UNCHANGED SV!files
    BY DEF SV!vars
  <2> QED
    BY <1>2, <2>1, <2>2, <2>3, <2>4, StartKeepsFiles DEF SV!Next
<1> QED
  BY <1>1, <1>2, PTL DEF SV!Spec

\* A global variable that was saved is found, for any number of names and of
\* processes that set and delete it, dying between its two files or not, and
\* across starts of the broker and boots of the host (SavedIsFound of
\* SessionVariables, part of AnswersAreTrue).
THEOREM SavedVariablesAreFound == SV!Constants => (SV!Spec => []SV!SavedIsFound)
<1>1. VarFiles => SV!SavedIsFound
  BY DEF VarFiles, SV!SavedIsFound, SV!GlobalVar
<1> QED
  BY <1>1, FilesInvariant, PTL

\* Both hold in every reachable state.
LEMMA VarInvariant == SV!Constants => (SV!Spec => [](VarMaps /\ VarCounts))
<1> SUFFICES ASSUME SV!Constants PROVE SV!Spec => [](VarMaps /\ VarCounts)
  OBVIOUS
<1>1. ASSUME SV!Init PROVE VarMaps /\ VarCounts
  <2>1. VarMaps
    BY <1>1, EmptyIsMap DEF SV!Init, VarMaps, SV!Tables
  <2>2. VarCounts
    BY SMTT(20), <1>1 DEF SV!Init, VarCounts, SV!CountsOnePeriod, SV!Constants
  <2> QED
    BY <2>1, <2>2
<1>2. ASSUME VarMaps, VarCounts, [SV!Next]_SV!vars PROVE VarMaps' /\ VarCounts'
  <2>1. CASE UNCHANGED SV!vars
    BY <1>2, <2>1 DEF SV!vars, SV!memory, VarMaps, VarCounts, SV!CountsOnePeriod
  <2>2. ASSUME SV!Request PROVE VarMaps' /\ VarCounts'
    BY <1>2, <2>2, SetVarKeeps, DelVarKeeps, SessionStepsKeep, CountStepsKeep DEF SV!Request
  <2> QED
    BY <1>2, <2>1, <2>2, FileStepsKeep DEF SV!Next
<1> QED
  BY <1>1, <1>2, PTL DEF SV!Spec

\* In a table that is a map the entry found is the one told of.
LEMMA FoundIsTold ==
    ASSUME SV!Constants, NEW tb \in EntriesOf, NEW td \in ToldOf, IsMap(tb, td),
           NEW n \in VarName, NEW k \in SV!Kind
    PROVE  /\ SV!find_variable(tb, n, k) = {} <=> td[<<n, k>>] = SV!Unset
           /\ SV!find_variable(tb, n, k) # {} =>
                tb[SV!First(SV!find_variable(tb, n, k))].value = td[<<n, k>>]
<1> DEFINE found == SV!find_variable(tb, n, k)
<1>1. found \in SUBSET SV!Slots
  BY DEF SV!find_variable
<1>2. \A i \in found : tb[i] # SV!Free /\ tb[i].value \in Text /\ td[<<n, k>>] = tb[i].value
  BY SMTT(20) DEF SV!find_variable, IsMap, EntriesOf, Entry, SV!Free, SV!Constants
<1>3. td[<<n, k>>] # SV!Unset => found # {}
  BY SMTT(20) DEF SV!find_variable, IsMap
<1> HIDE DEF found
<1>4. found # {} => SV!First(found) \in found
  BY <1>1, FirstIsIn
<1> QED
  BY <1>2, <1>3, <1>4 DEF SV!Constants, found

\* The variables of a session are a map, for any number of sessions, names and
\* slots: GETVAR and LISTVARS answer what SETVAR last set and DELVAR has not
\* deleted since, local before shared, across CLONESESSION and a slot's reuse
\* (ReadsWhatWasTold of SessionVariables, part of AnswersAreTrue).
THEOREM VariablesAreAMap == SV!Constants => (SV!Spec => []SV!ReadsWhatWasTold)
<1> SUFFICES ASSUME SV!Constants PROVE SV!Spec => []SV!ReadsWhatWasTold
  OBVIOUS
<1>1. ASSUME VarMaps PROVE SV!ReadsWhatWasTold
  <2> SUFFICES ASSUME NEW s \in live, NEW n \in VarName, NEW k \in SV!Kind
               PROVE  /\ SV!GetVar(s, n, k, {"local"}) = told[s][<<n, k>>]
                      /\ SV!GetVar(s, n, k, {"global"}) = told[Global][<<n, k>>]
                      /\ SV!GetVar(s, n, k, {}) =
                            IF told[s][<<n, k>>] # SV!Unset THEN told[s][<<n, k>>]
                            ELSE told[Global][<<n, k>>]
                      /\ n \in SV!ListVars(s, k) <=> told[s][<<n, k>>] # SV!Unset
    BY ZenonT(20), SMTT(20) DEF SV!ReadsWhatWasTold
  <2>1. s \in SV!Tables /\ Global \in SV!Tables /\ s # Global
    BY <1>1 DEF SV!Tables, VarMaps, SV!Constants
  <2>2. \A t \in {s, Global} :
          /\ SV!find_variable(table[t], n, k) = {} <=> told[t][<<n, k>>] = SV!Unset
          /\ SV!find_variable(table[t], n, k) # {} =>
                table[t][SV!First(SV!find_variable(table[t], n, k))].value = told[t][<<n, k>>]
    <3> SUFFICES ASSUME NEW t \in {s, Global}
                 PROVE  /\ SV!find_variable(table[t], n, k) = {} <=> told[t][<<n, k>>] = SV!Unset
                        /\ SV!find_variable(table[t], n, k) # {} =>
                             table[t][SV!First(SV!find_variable(table[t], n, k))].value
                               = told[t][<<n, k>>]
      OBVIOUS
    <3>1. table[t] \in EntriesOf /\ told[t] \in ToldOf /\ IsMap(table[t], told[t])
      BY <1>1, <2>1 DEF VarMaps
    <3> QED
      BY <3>1, FoundIsTold
  <2>3. \A u : (CHOOSE x \in {u} : TRUE) = u
    OBVIOUS
  <2>4. SV!GetVar(s, n, k, {"local"}) = told[s][<<n, k>>]
    BY <2>2, <2>3 DEF SV!GetVar, SV!lookup_variable
  <2>5. SV!GetVar(s, n, k, {"global"}) = told[Global][<<n, k>>]
    BY <2>2, <2>3 DEF SV!GetVar, SV!lookup_variable
  <2>6. SV!GetVar(s, n, k, {}) = IF told[s][<<n, k>>] # SV!Unset THEN told[s][<<n, k>>]
                                 ELSE told[Global][<<n, k>>]
    BY <2>2, <2>3 DEF SV!GetVar, SV!lookup_variable
  <2>7. n \in SV!ListVars(s, k) <=> SV!find_variable(table[s], n, k) # {}
    BY DEF SV!ListVars, SV!find_variable
  <2> QED
    BY <2>2, <2>4, <2>5, <2>6, <2>7
<1> QED
  BY <1>1, VarInvariant, PTL

\* The tally is the operations that succeeded since it was last read or reset,
\* saturated at UINT32_MAX (CountsOnePeriod and TypeOK of SessionVariables).
THEOREM TallyCountsOnePeriod == SV!Constants => (SV!Spec => [](SV!TypeOK /\ SV!CountsOnePeriod))
<1> SUFFICES ASSUME SV!Constants PROVE SV!Spec => [](SV!TypeOK /\ SV!CountsOnePeriod)
  OBVIOUS
<1>1. VarMaps /\ VarCounts /\ VarFiles => SV!TypeOK /\ SV!CountsOnePeriod
  BY DEF VarMaps, VarCounts, VarFiles, SV!TypeOK, EntriesOf, Entry
<1> QED
  BY <1>1, VarInvariant, FilesInvariant, PTL
=============================================================================
