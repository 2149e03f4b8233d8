--------------------------- MODULE BrokerSessions ---------------------------
(***************************************************************************)
(* The session table of ace-broker and the connections that claim it       *)
(* (src/src/broker.c).                                                     *)
(*                                                                         *)
(* A request names its session; get_session() finds it, or takes the first *)
(* free slot, or, with a full table, the least recently used slot that no  *)
(* connection has claimed.  ATTACH claims a session for the life of the    *)
(* connection: the claim is an INDEX into the table, so it is sound only   *)
(* while the slot keeps its session.  Dropping the last claim frees the    *)
(* slot.                                                                   *)
(*                                                                         *)
(* Abstracted: a connection is its descriptor, which the kernel may reuse  *)
(* once it is closed.  The contents of a session that CLONESESSION copies  *)
(* (current directory, command paths, assigns, local variables, result     *)
(* codes, fail level, prompt) are one value.  last_used is kept as the     *)
(* order it induces, since session_clock gives every touch a new ordinal.  *)
(***************************************************************************)
EXTENDS Naturals, FiniteSets

CONSTANTS
    Fd,             \* descriptors the kernel hands out for connections
    SessionId,      \* the names requests carry (ACE_SESSION)
    MaxSessions,    \* MAX_SESSIONS
    Value,          \* contents of a session
    Fresh,          \* the contents get_session() gives a new session
    NoSession,      \* the id of a slot that is not in use
    NoSlot          \* anchor -1: the connection has claimed nothing

Slot == 1..MaxSessions

ASSUME SessionConstants ==
    /\ MaxSessions \in Nat
    /\ IsFiniteSet(Fd)
    /\ NoSession \notin SessionId
    /\ NoSlot \notin Nat
    /\ Fresh \in Value

VARIABLES
    sessions,   \* sessions[s]: the slot's struct broker_session
    colder,     \* <<s, t>>: s was last used before t
    open,       \* descriptors in the connection table
    anchor,     \* anchor[c]: struct broker_connection.anchor
    claimed     \* claimed[c]: history; the session id c's ATTACH named

vars == <<sessions, colder, open, anchor, claimed>>

Session == [id : SessionId \cup {NoSession}, anchors : Nat, contents : Value]

\* release_session(): the slot as memset() leaves it.
Released == [id |-> NoSession, anchors |-> 0, contents |-> Fresh]

TypeOK ==
    /\ sessions \in [Slot -> Session]
    /\ colder \subseteq Slot \X Slot
    /\ open \subseteq Fd
    /\ anchor \in [Fd -> Slot \cup {NoSlot}]
    /\ claimed \in [Fd -> SessionId \cup {NoSession}]

Init ==
    /\ sessions = [s \in Slot |-> Released]
    /\ colder = {}
    /\ open = {}
    /\ anchor = [c \in Fd |-> NoSlot]
    /\ claimed = [c \in Fd |-> NoSession]

-----------------------------------------------------------------------------
(***************************************************************************)
(* Finding or making a session, as operators on a table `ss' and the order *)
(* of use `cl', because CLONESESSION looks up twice.                       *)
(***************************************************************************)

\* touch_session(): s becomes the most recently used slot.
Touched(cl, s) == {p \in cl : p[1] # s} \cup ((Slot \ {s}) \X {s})

\* find_session(), and the first thing get_session() tries.
Holds(ss, id, s) == ss[s].id = id

\* Mutant: the eviction scan does not look at the anchors.
ClaimableAnchored(ss, cl, s) ==
    \/ /\ ss[s].id = NoSession
       /\ \A t \in Slot : t < s => ss[t].id # NoSession
    \/ /\ \A t \in Slot : ss[t].id # NoSession
       /\ \A t \in Slot \ {s} : <<s, t>> \in cl

\* Mutant: a full table is never reclaimed.
ClaimableFreeOnly(ss, cl, s) ==
    /\ ss[s].id = NoSession
    /\ \A t \in Slot : t < s => ss[t].id # NoSession

\* The slot a name that is not in the table takes: the first free one, or in a
\* full table the coldest one without an anchor.
Claimable(ss, cl, s) ==
    \/ /\ ss[s].id = NoSession
       /\ \A t \in Slot : t < s => ss[t].id # NoSession
    \/ /\ \A t \in Slot : ss[t].id # NoSession
       /\ ss[s].anchors = 0
       /\ \A t \in Slot \ {s} : ss[t].anchors = 0 => <<s, t>> \in cl

\* Mutant: a slot is taken without looking for the name first.
GetsAnySlot(ss, cl, id, s) == Holds(ss, id, s) \/ Claimable(ss, cl, s)

\* get_session(id) returns slot s; for no s at all, it returns NULL.
GetsSession(ss, cl, id, s) ==
    \/ Holds(ss, id, s)
    \/ /\ \A t \in Slot : ~Holds(ss, id, t)
       /\ Claimable(ss, cl, s)

\* The table get_session(id) leaves when it returns slot s.
AfterGet(ss, id, s) ==
    IF Holds(ss, id, s)
    THEN ss
    ELSE [ss EXCEPT ![s] = [id |-> id, anchors |-> 0, contents |-> Fresh]]

-----------------------------------------------------------------------------
(***************************************************************************)
(* Requests.  Each one starts with get_session(session_id), whatever the   *)
(* operation; with no slot to be had it answers ENOSPC and changes nothing.*)
(***************************************************************************)

\* accept_connection(): a new connection claims nothing.
AcceptConnection(c) ==
    /\ c \notin open
    /\ open' = open \cup {c}
    /\ anchor' = [anchor EXCEPT ![c] = NoSlot]
    /\ claimed' = [claimed EXCEPT ![c] = NoSession]
    /\ UNCHANGED <<sessions, colder>>

\* A request that reads its session, or that its handler refuses: the session
\* exists afterwards, and has been touched.
Lookup(c, id) ==
    /\ c \in open
    /\ \E s \in Slot :
        /\ GetsSession(sessions, colder, id, s)
        /\ sessions' = AfterGet(sessions, id, s)
        /\ colder' = Touched(colder, s)
    /\ UNCHANGED <<open, anchor, claimed>>

\* A request that changes what its session holds: SETCWD, ASSIGN, PATH, SETVAR,
\* DELVAR, SETRESULT, SETFAILLEVEL, SETPROMPT, and GETCWD when it has to walk
\* the current directory up to one that still exists.
Update(c, id, v) ==
    /\ c \in open
    /\ \E s \in Slot :
        /\ GetsSession(sessions, colder, id, s)
        /\ sessions' = [AfterGet(sessions, id, s) EXCEPT ![s].contents = v]
        /\ colder' = Touched(colder, s)
    /\ UNCHANGED <<open, anchor, claimed>>

\* Mutant: a second ATTACH is not refused.
AttachAgain(c, id) ==
    /\ c \in open
    /\ \E s \in Slot :
        /\ GetsSession(sessions, colder, id, s)
        /\ sessions' = [AfterGet(sessions, id, s) EXCEPT ![s].anchors = @ + 1]
        /\ colder' = Touched(colder, s)
        /\ anchor' = [anchor EXCEPT ![c] = s]
        /\ claimed' = [claimed EXCEPT ![c] = id]
    /\ UNCHANGED open

\* Mutant: the index is kept from the other base.
AttachOffByOne(c, id) ==
    /\ c \in open
    /\ anchor[c] = NoSlot
    /\ \E s \in Slot :
        /\ GetsSession(sessions, colder, id, s)
        /\ sessions' = [AfterGet(sessions, id, s) EXCEPT ![s].anchors = @ + 1]
        /\ colder' = Touched(colder, s)
        /\ anchor' = [anchor EXCEPT ![c] = s - 1]
        /\ claimed' = [claimed EXCEPT ![c] = id]
    /\ UNCHANGED open

\* ATTACH: the first one on a connection claims the session.  A second one is
\* EALREADY, and one whose root services do not start is refused: both leave
\* only the lookup behind.
Attach(c, id) ==
    /\ c \in open
    /\ anchor[c] = NoSlot
    /\ \E s \in Slot :
        /\ GetsSession(sessions, colder, id, s)
        /\ sessions' = [AfterGet(sessions, id, s) EXCEPT ![s].anchors = @ + 1]
        /\ colder' = Touched(colder, s)
        /\ anchor' = [anchor EXCEPT ![c] = s]
        /\ claimed' = [claimed EXCEPT ![c] = id]
    /\ UNCHANGED open

\* CLONESESSION: the child must be new; it gets a slot from a second
\* get_session() and the parent's contents are copied from slot p to slot s.
\* The parent has just been touched, so a full table gives it up only when no
\* other slot is unclaimed: then s = p and the copy is of the cleared slot.
CloneSession(c, id, child) ==
    /\ c \in open
    /\ child # id
    /\ \E p, s \in Slot :
        LET parent == AfterGet(sessions, id, p)
            both   == AfterGet(parent, child, s)
        IN /\ GetsSession(sessions, colder, id, p)
           /\ \A t \in Slot : ~Holds(parent, child, t)
           /\ GetsSession(parent, Touched(colder, p), child, s)
           /\ sessions' = [both EXCEPT ![s].contents = both[p].contents]
           /\ colder' = Touched(Touched(colder, p), s)
    /\ UNCHANGED <<open, anchor, claimed>>

\* CLONESESSION onto a name that exists is EEXIST, after touching both.
CloneExisting(c, id, child) ==
    /\ c \in open
    /\ child # id
    /\ \E p, s \in Slot :
        /\ GetsSession(sessions, colder, id, p)
        /\ Holds(AfterGet(sessions, id, p), child, s)
        /\ sessions' = AfterGet(sessions, id, p)
        /\ colder' = Touched(Touched(colder, p), s)
    /\ UNCHANGED <<open, anchor, claimed>>

\* Mutant: the last claim leaves the session in its slot.
UnclaimKeeps(slot) == [slot EXCEPT !.anchors = slot.anchors - 1]

\* A slot with one claim given back: the last claim on a session frees it.
Unclaim(slot) ==
    IF slot.anchors = 1 THEN Released
                        ELSE [slot EXCEPT !.anchors = slot.anchors - 1]

\* drop_connection(): the kernel reports every close, so this is also a crash.
DropConnection(c) ==
    /\ c \in open
    /\ open' = open \ {c}
    /\ anchor' = [anchor EXCEPT ![c] = NoSlot]
    /\ claimed' = [claimed EXCEPT ![c] = NoSession]
    /\ IF anchor[c] = NoSlot \/ sessions[anchor[c]].anchors = 0
       THEN UNCHANGED <<sessions, colder>>
       ELSE LET s == anchor[c]
            IN /\ sessions' = [sessions EXCEPT ![s] = Unclaim(sessions[s])]
               /\ colder' = IF sessions'[s] = Released
                            THEN {p \in colder : s \notin {p[1], p[2]}}
                            ELSE colder

Next ==
    \E c \in Fd :
        \/ AcceptConnection(c)
        \/ DropConnection(c)
        \/ \E id \in SessionId :
            \/ Lookup(c, id)
            \/ Attach(c, id)
            \/ \E v \in Value : Update(c, id, v)
            \/ \E child \in SessionId :
                \/ CloneSession(c, id, child)
                \/ CloneExisting(c, id, child)

Spec == Init /\ [][Next]_vars

-----------------------------------------------------------------------------
(***************************************************************************)
(* Properties                                                              *)
(***************************************************************************)

\* The claims a slot counts are the open connections that hold it: ATTACH counts
\* a connection once and every close gives exactly that reference back.
AnchorsCounted ==
    \A s \in Slot :
        sessions[s].anchors = Cardinality({c \in open : anchor[c] = s})

\* A connection's claim is an index into the table; for as long as the
\* connection is open that slot still holds the session its ATTACH named, so a
\* live shell never has its session reclaimed and never frees somebody else's.
ClaimHoldsItsSession ==
    \A c \in Fd :
        anchor[c] # NoSlot =>
            /\ c \in open
            /\ claimed[c] \in SessionId
            /\ sessions[anchor[c]].id = claimed[c]

\* A name is in the table at most once: two lookups of one session never reach
\* two different slots.
OneSlotPerSession ==
    \A s, t \in Slot :
        /\ sessions[s].id = sessions[t].id
        /\ sessions[s].id # NoSession
        => s = t

\* The three together: what a connection holds, what a slot counts and what a
\* name finds agree, through claims, clones, evictions and reused descriptors.
ClaimsSound == ClaimHoldsItsSession /\ AnchorsCounted /\ OneSlotPerSession

\* While some slot is free or unclaimed, get_session() finds room for any name:
\* a full table of unclaimed sessions never refuses (ENOSPC) a new one.
RoomWhileUnclaimed ==
    (\E s \in Slot : sessions[s].anchors = 0) =>
        \A id \in SessionId :
            \E s \in Slot : GetsSession(sessions, colder, id, s)

\* A claimed session leaves its slot only by its last connection closing, and
\* then it does leave it: neither another request's get_session() nor a clone
\* displaces it, and none outlives its owner.
LivesAsLongAsItsClaims ==
    [][\A s \in Slot :
          sessions[s].anchors > 0 =>
              /\ sessions'[s].id # sessions[s].id =>
                    \A c \in open : anchor[c] = s => c \notin open'
              /\ sessions'[s].anchors = 0 => sessions'[s] = Released]_vars

\* NewCLI opens "another real AROS shell with a cloned initial session": a
\* session that comes into being by a clone has its parent's contents, and the
\* parent, which CLONESESSION only reads, is still there.
CloneCopiesItsParent ==
    [][\A c \in Fd, id, child \in SessionId :
          CloneSession(c, id, child) =>
              \E p, s \in Slot :
                  /\ sessions'[p].id = id
                  /\ sessions'[s].id = child
                  /\ sessions'[p].contents = sessions'[s].contents]_vars
=============================================================================
