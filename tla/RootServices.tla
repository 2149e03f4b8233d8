---------------------------- MODULE RootServices ----------------------------
(***************************************************************************)
(* The privileged services of a broker in --root mode: when the broker     *)
(* starts them and lets them go (start_root_services, stop_root_services,  *)
(* ensure_access_worker, perform_privileged_operation, ATTACH and          *)
(* drop_connection of src/src/broker.c), and the processes behind its two  *)
(* handles (src/src/ace_fmm.c, ace_crm.c, ace_fmm_client.c): the           *)
(* supervisor, here an Fmm, with the volume worker it forks at startup,    *)
(* and the file workers, each a Crm, it forks on request.                  *)
(*                                                                         *)
(* A process learns that its peer is gone from the end of its channel.     *)
(* What is asked of the services, and their answers about files, are left  *)
(* out: only whether a channel works matters here.                         *)
(***************************************************************************)
EXTENDS Naturals, FiniteSets, FiniteSetTheorems, TLAPS

CONSTANTS
    Conn,   \* connections to the broker
    Fmm,    \* supervisors ever started: a bound
    Crm,    \* file workers ever started: a bound
    None

ASSUME ServiceConstants == None \notin Fmm \cup Crm /\ IsFiniteSet(Conn)

VARIABLES
    up,         \* the broker is running
    conn,       \* each connection: closed, open, or a shell's (anchor >= 0)
    rootShells, \* root_shells
    fmm,        \* the broker's fmm handle
    lost,       \* that handle's closed flag: its conversation has failed
    crm,        \* the broker's crm handle
    unread,     \* file workers whose channel lies in a reply nobody read
    sup,        \* each supervisor process
    vol,        \* its volume worker
    wrk         \* each file worker process

vars == <<up, conn, rootShells, fmm, lost, crm, unread, sup, vol, wrk>>

TypeOK ==
    /\ up \in BOOLEAN
    /\ conn \in [Conn -> {"closed", "open", "shell"}]
    /\ rootShells \in 0..Cardinality(Conn)
    /\ fmm \in Fmm \cup {None}
    /\ lost \in BOOLEAN
    /\ crm \in Crm \cup {None}
    /\ unread \subseteq Crm
    /\ sup \in [Fmm -> {"unborn", "serving", "leaving", "gone", "killed"}]
    /\ vol \in [Fmm -> {"unborn", "serving", "gone"}]
    /\ wrk \in [Crm -> {"unborn", "serving", "gone"}]

Init ==
    /\ up = TRUE
    /\ conn = [c \in Conn |-> "closed"]
    /\ rootShells = 0
    /\ fmm = None
    /\ lost = FALSE
    /\ crm = None
    /\ unread = {}
    /\ sup = [f \in Fmm |-> "unborn"]
    /\ vol = [f \in Fmm |-> "unborn"]
    /\ wrk = [k \in Crm |-> "unborn"]

-----------------------------------------------------------------------------
\* The broker's handles.

\* Mutant: the supervisor's handle stays open.
StopCrmOnly ==
    /\ crm' = None
    /\ UNCHANGED <<fmm, lost, unread>>

\* stop_root_services: both handles are closed, and what was unread with them.
StopServices ==
    /\ crm' = None
    /\ fmm' = None
    /\ lost' = FALSE
    /\ unread' = {}

\* ace_fmm_start and perform_handshake, then the device view is prepared.  The
\* new supervisor has forked its volume worker (start_volume_worker).
Starts(f) ==
    /\ sup[f] = "unborn"
    /\ sup' = [sup EXCEPT ![f] = "serving"]
    /\ vol' = [vol EXCEPT ![f] = "serving"]

\* start_root_services with no handle.  It fails with nothing started when
\* nobody is authenticated, and with the new supervisor let go again when
\* the device view cannot be made.
StartServices ==
    /\ \E f \in Fmm : Starts(f) /\ fmm' = f
    /\ lost' = FALSE

StartFails ==
    /\ \/ UNCHANGED <<sup, vol>>
       \/ \E f \in Fmm : Starts(f)
    /\ UNCHANGED <<fmm, lost>>

\* spawn_crm in a supervisor that serves.
Spawns(k) ==
    /\ wrk[k] = "unborn"
    /\ wrk' = [wrk EXCEPT ![k] = "serving"]

-----------------------------------------------------------------------------
\* Connections.

Open(c) ==
    /\ up
    /\ conn[c] = "closed"
    /\ conn' = [conn EXCEPT ![c] = "open"]
    /\ UNCHANGED <<up, rootShells, fmm, lost, crm, unread, sup, vol, wrk>>

Counted(c) ==
    /\ conn' = [conn EXCEPT ![c] = "shell"]
    /\ rootShells' = rootShells + 1

\* Mutant: only the shell that starts the services is counted.
AttachUncounted(c) ==
    /\ up
    /\ conn[c] = "open"
    /\ conn' = [conn EXCEPT ![c] = "shell"]
    /\ \/ fmm # None /\ UNCHANGED <<fmm, lost, sup, vol, rootShells>>
       \/ fmm = None /\ StartServices /\ rootShells' = rootShells + 1
    /\ UNCHANGED <<up, crm, unread, wrk>>

\* ATTACH by a --root shell: the first one needs the services to start.
\* A handle that is there already will do, whatever has become of it.
Attach(c) ==
    /\ up
    /\ conn[c] = "open"
    /\ Counted(c)
    /\ \/ /\ rootShells > 0 \/ fmm # None
          /\ UNCHANGED <<fmm, lost, sup, vol>>
       \/ rootShells = 0 /\ fmm = None /\ StartServices
    /\ UNCHANGED <<up, crm, unread, wrk>>

AttachFails(c) ==
    /\ up
    /\ conn[c] = "open"
    /\ rootShells = 0 /\ fmm = None
    /\ StartFails
    /\ UNCHANGED <<up, conn, rootShells, crm, unread, wrk>>

\* Mutant: any connection's close is taken for a shell's.
DropCountingAny(c) ==
    /\ up
    /\ conn[c] # "closed"
    /\ conn' = [conn EXCEPT ![c] = "closed"]
    /\ rootShells' = rootShells - 1
    /\ \/ rootShells = 1 /\ StopServices
       \/ rootShells # 1 /\ UNCHANGED <<fmm, lost, crm, unread>>
    /\ UNCHANGED <<up, sup, vol, wrk>>

\* Mutant: the services stop with every connection.
DropStoppingAlways(c) ==
    /\ up
    /\ conn[c] # "closed"
    /\ conn' = [conn EXCEPT ![c] = "closed"]
    /\ rootShells' = IF conn[c] = "shell" THEN rootShells - 1 ELSE rootShells
    /\ StopServices
    /\ UNCHANGED <<up, sup, vol, wrk>>

\* drop_connection: the last shell takes the services with it.
Drop(c) ==
    /\ up
    /\ conn[c] # "closed"
    /\ conn' = [conn EXCEPT ![c] = "closed"]
    /\ rootShells' = IF conn[c] = "shell" THEN rootShells - 1 ELSE rootShells
    /\ \/ conn[c] = "shell" /\ rootShells = 1 /\ StopServices
       \/ /\ conn[c] = "open" \/ rootShells > 1
          /\ UNCHANGED <<fmm, lost, crm, unread>>
    /\ UNCHANGED <<up, sup, vol, wrk>>

\* PRIVOP from any connection.  perform_privileged_operation with a crm handle:
\* the worker answers, or the channel fails and the handle is dropped.
PrivopFails(c) ==
    /\ up
    /\ conn[c] # "closed"
    /\ crm # None
    /\ crm' = None
    /\ UNCHANGED <<up, conn, rootShells, fmm, lost, unread, sup, vol, wrk>>

\* Mutant: a handle whose conversation has failed is replaced.
PrivopBuildsAgain(c) ==
    /\ up
    /\ conn[c] # "closed"
    /\ crm = None
    /\ \E f \in Fmm :
         /\ fmm' = f
         /\ \/ fmm = f /\ ~lost /\ UNCHANGED <<sup, vol>>
            \/ (fmm = None \/ lost) /\ Starts(f)
         /\ \/ /\ sup'[f] = "serving"
               /\ \E k \in Crm :
                    /\ Spawns(k)
                    /\ crm' \in {k, None}
                    /\ lost' = FALSE
                    /\ UNCHANGED unread
            \/ lost' = TRUE /\ UNCHANGED <<crm, unread, wrk>>
    /\ UNCHANGED <<up, conn, rootShells>>

\* Without one, ensure_access_worker starts the services if there is no fmm
\* handle, whether a shell is attached or not, and asks the supervisor f for
\* a file worker.  It gets one, and may lose it at once; or the conversation
\* fails, at worst after the worker was made.
PrivopBuilds(c) ==
    /\ up
    /\ conn[c] # "closed"
    /\ crm = None /\ ~lost
    /\ \E f \in Fmm :
         /\ fmm' = f
         /\ \/ fmm = f /\ UNCHANGED <<sup, vol>>
            \/ fmm = None /\ Starts(f)
         /\ \/ /\ sup'[f] = "serving"
               /\ \E k \in Crm :
                    /\ Spawns(k)
                    /\ \/ crm' \in {k, None} /\ UNCHANGED <<lost, unread>>
                       \/ lost' = TRUE /\ unread' = unread \cup {k} /\ UNCHANGED crm
            \/ lost' = TRUE /\ UNCHANGED <<crm, unread, wrk>>
    /\ UNCHANGED <<up, conn, rootShells>>

PrivopRefused(c) ==
    /\ up
    /\ conn[c] # "closed"
    /\ crm = None /\ fmm = None
    /\ StartFails
    /\ UNCHANGED <<up, conn, rootShells, crm, unread, wrk>>

\* The broker exits, idle or killed; every channel it had ends.
BrokerExit ==
    /\ up
    /\ up' = FALSE
    /\ conn' = [c \in Conn |-> "closed"]
    /\ rootShells' = 0
    /\ StopServices
    /\ UNCHANGED <<sup, vol, wrk>>

-----------------------------------------------------------------------------
\* The services.

\* serve() of the supervisor returns when its channel ends or its
\* authorisation lapses; stop_volume_worker then ends the worker's channel ...
FmmLeaves(f) ==
    /\ sup[f] = "serving"
    /\ sup' = [sup EXCEPT ![f] = "leaving"]
    /\ UNCHANGED <<up, conn, rootShells, fmm, lost, crm, unread, vol, wrk>>

\* ... and waits for it before exiting.
FmmExits(f) ==
    /\ sup[f] = "leaving"
    /\ vol[f] = "gone"
    /\ sup' = [sup EXCEPT ![f] = "gone"]
    /\ UNCHANGED <<up, conn, rootShells, fmm, lost, crm, unread, vol, wrk>>

FmmKilled(f) ==
    /\ sup[f] \in {"serving", "leaving"}
    /\ sup' = [sup EXCEPT ![f] = "killed"]
    /\ UNCHANGED <<up, conn, rootShells, fmm, lost, crm, unread, vol, wrk>>

\* The volume worker unmounts and exits when the supervisor's end closes; it
\* may be killed before.
VolumeLeaves(f) ==
    /\ vol[f] = "serving"
    /\ vol' = [vol EXCEPT ![f] = "gone"]
    /\ UNCHANGED <<up, conn, rootShells, fmm, lost, crm, unread, sup, wrk>>

\* ace_crm_serve returns when the broker's end closes; the worker may be killed.
CrmLeaves(k) ==
    /\ wrk[k] = "serving"
    /\ wrk' = [wrk EXCEPT ![k] = "gone"]
    /\ UNCHANGED <<up, conn, rootShells, fmm, lost, crm, unread, sup, vol>>

-----------------------------------------------------------------------------
Request(c) ==
    \/ Open(c) \/ Attach(c) \/ AttachFails(c) \/ Drop(c)
    \/ PrivopFails(c) \/ PrivopBuilds(c) \/ PrivopRefused(c)

Next ==
    \/ \E c \in Conn : Request(c)
    \/ BrokerExit
    \/ \E f \in Fmm : FmmLeaves(f) \/ FmmExits(f) \/ FmmKilled(f) \/ VolumeLeaves(f)
    \/ \E k \in Crm : CrmLeaves(k)

Spec == Init /\ [][Next]_vars

\* Each service sees its channel end and leaves; the broker exits when it has
\* been idle long enough (BrokerLifetime).
Fairness ==
    /\ \A f \in Fmm :
         /\ WF_vars(fmm # f /\ FmmLeaves(f))
         /\ WF_vars(FmmExits(f))
         /\ WF_vars(sup[f] # "serving" /\ VolumeLeaves(f))
    /\ \A k \in Crm : WF_vars(crm # k /\ k \notin unread /\ CrmLeaves(k))
    /\ WF_vars((\A c \in Conn : conn[c] = "closed") /\ BrokerExit)

FairSpec == Spec /\ Fairness

-----------------------------------------------------------------------------
\* root_shells counts the shells attached, so the one that brings it to zero
\* is the last (ATTACH and drop_connection).
RootShellsCounted ==
    rootShells = Cardinality({c \in Conn : conn[c] = "shell"})

\* As long as a --root shell is attached the broker keeps the handle it started
\* for it: no other connection's going, and no failed operation, takes it away.
ShellsHaveServices == rootShells > 0 => fmm # None

\* Both together: every shell that is attached is counted, and what is counted
\* has its services, so only the last one's going stops them.
RootShellsAreServed == RootShellsCounted /\ ShellsHaveServices

\* While a --root shell is attached nobody is asked to authenticate again: the
\* handle stays the one the first shell's attach made, through failed operations
\* and the death of the services ("the one time an authentication request may
\* be made").
AuthenticatesOnce == [][rootShells > 0 /\ rootShells' > 0 => fmm' = fmm]_vars

\* When nobody is connected for good, no privileged process is left, whichever
\* order the broker, the supervisor and the workers stop in.
NoServiceLeft ==
    <>[](\A c \in Conn : conn[c] = "closed") =>
        <>[](/\ \A f \in Fmm : sup[f] # "serving" /\ vol[f] # "serving"
             /\ \A k \in Crm : wrk[k] # "serving")

-----------------------------------------------------------------------------
(***************************************************************************)
(* Proofs, for any finite set of connections and any sets of processes.    *)
(***************************************************************************)

\* The part of TypeOK the argument needs.
Shape ==
    /\ conn \in [Conn -> {"closed", "open", "shell"}]
    /\ rootShells \in Nat

\* The count is what makes the last shell recognisable: without it, Drop could
\* bring rootShells to zero with a shell still attached, or below.
ServicesInv == Shape /\ RootShellsCounted /\ ShellsHaveServices

Shells == {c \in Conn : conn[c] = "shell"}

USE ServiceConstants

\* A step that leaves every connection what it was keeps the count.
LEMMA CountSame ==
    ASSUME RootShellsCounted, UNCHANGED <<conn, rootShells>>
    PROVE  RootShellsCounted'
BY DEF RootShellsCounted

\* A connection that becomes a shell's is one more.
LEMMA CountUp ==
    ASSUME NEW c \in Conn, Shape, RootShellsCounted, conn[c] # "shell",
           conn' = [conn EXCEPT ![c] = "shell"], rootShells' = rootShells + 1
    PROVE  RootShellsCounted'
<1>1. IsFiniteSet(Shells) /\ c \notin Shells
  BY FS_Subset DEF Shells
<1>2. Cardinality(Shells \cup {c}) = Cardinality(Shells) + 1
  BY <1>1, FS_AddElement
<1>3. {k \in Conn : conn'[k] = "shell"} = Shells \cup {c}
  BY DEF Shape, Shells
<1> QED BY <1>2, <1>3 DEF RootShellsCounted, Shells

\* A shell's connection that closes is one less, and there was one.
LEMMA CountDown ==
    ASSUME NEW c \in Conn, Shape, RootShellsCounted, conn[c] = "shell",
           conn' = [conn EXCEPT ![c] = "closed"], rootShells' = rootShells - 1
    PROVE  RootShellsCounted' /\ rootShells > 0
<1>1. IsFiniteSet(Shells) /\ c \in Shells
  BY FS_Subset DEF Shells
<1>2. Cardinality(Shells \ {c}) = Cardinality(Shells) - 1
  BY <1>1, FS_RemoveElement
<1>3. Cardinality(Shells) # 0
  BY <1>1, FS_EmptySet
<1>4. {k \in Conn : conn'[k] = "shell"} = Shells \ {c}
  BY DEF Shape, Shells
<1>5. rootShells = Cardinality(Shells)
  BY DEF RootShellsCounted, Shells
<1>6. rootShells > 0
  BY <1>3, <1>5 DEF Shape
<1>7. rootShells' = Cardinality(Shells \ {c})
  BY <1>2, <1>5
<1>8. RootShellsCounted'
  BY <1>4, <1>7 DEF RootShellsCounted
<1> QED BY <1>6, <1>8

\* A connection that is no shell's before or after is none in the count.
LEMMA CountElse ==
    ASSUME NEW c \in Conn, NEW to \in {"open", "closed"}, Shape, RootShellsCounted,
           conn[c] # "shell",
           conn' = [conn EXCEPT ![c] = to], rootShells' = rootShells
    PROVE  RootShellsCounted'
<1>1. {k \in Conn : conn'[k] = "shell"} = {k \in Conn : conn[k] = "shell"}
  BY DEF Shape
<1> QED BY <1>1 DEF RootShellsCounted

\* What a connection asks for.
LEMMA RequestKeeps ==
    ASSUME NEW c \in Conn, ServicesInv, Request(c)
    PROVE  ServicesInv'
<1> USE DEF ServicesInv
<1>1. CASE Open(c)
  <2>1. RootShellsCounted'
    BY <1>1, CountElse DEF Open
  <2> QED BY <1>1, <2>1 DEF Open, Shape, ShellsHaveServices
<1>2. CASE Attach(c)
  <2>1. conn' = [conn EXCEPT ![c] = "shell"] /\ rootShells' = rootShells + 1
    BY <1>2 DEF Attach, Counted
  <2>2. RootShellsCounted'
    BY <1>2, <2>1, CountUp DEF Attach
  <2>3. fmm' # None
    BY <1>2 DEF Attach, StartServices, ShellsHaveServices
  <2> QED BY <2>1, <2>2, <2>3 DEF Shape, ShellsHaveServices
<1>3. CASE AttachFails(c)
  BY <1>3, CountSame DEF AttachFails, StartFails, Shape, ShellsHaveServices
<1>4. CASE Drop(c) /\ conn[c] = "shell"
  <2>1. conn' = [conn EXCEPT ![c] = "closed"] /\ rootShells' = rootShells - 1
    BY <1>4 DEF Drop
  <2>2. RootShellsCounted' /\ rootShells > 0
    BY <1>4, <2>1, CountDown
  <2>3. Shape'
    BY <2>1, <2>2 DEF Shape
  <2>4. ShellsHaveServices'
    BY <1>4, <2>1, <2>2 DEF Drop, Shape, ShellsHaveServices
  <2> QED BY <2>2, <2>3, <2>4
<1>5. CASE Drop(c) /\ conn[c] # "shell"
  <2>1. conn' = [conn EXCEPT ![c] = "closed"] /\ UNCHANGED <<rootShells, fmm>>
    BY <1>5 DEF Drop
  <2>2. RootShellsCounted'
    BY <1>5, <2>1, CountElse
  <2> QED BY <2>1, <2>2 DEF Shape, ShellsHaveServices
<1>6. CASE PrivopFails(c)
  BY <1>6, CountSame DEF PrivopFails, Shape, ShellsHaveServices
<1>7. CASE PrivopBuilds(c)
  BY <1>7, CountSame DEF PrivopBuilds, Shape, ShellsHaveServices
<1>8. CASE PrivopRefused(c)
  BY <1>8, CountSame DEF PrivopRefused, StartFails, Shape, ShellsHaveServices
<1> QED BY <1>1, <1>2, <1>3, <1>4, <1>5, <1>6, <1>7, <1>8 DEF Request

-----------------------------------------------------------------------------
\* ServicesInv is inductive.
THEOREM ServicesInductive == Spec => []ServicesInv
<1>1. Init => ServicesInv
  <2> SUFFICES ASSUME Init PROVE ServicesInv
    OBVIOUS
  <2>1. {c \in Conn : conn[c] = "shell"} = {}
    BY DEF Init
  <2>2. RootShellsCounted
    BY <2>1, FS_EmptySet DEF Init, RootShellsCounted
  <2> QED BY <2>2 DEF Init, ServicesInv, Shape, ShellsHaveServices
<1>2. ServicesInv /\ [Next]_vars => ServicesInv'
  <2> SUFFICES ASSUME ServicesInv, [Next]_vars PROVE ServicesInv'
    OBVIOUS
  <2>1. CASE \E c \in Conn : Request(c)
    BY <2>1, RequestKeeps
  <2>2. CASE BrokerExit
    <3>1. {c \in Conn : conn'[c] = "shell"} = {}
      BY <2>2 DEF BrokerExit
    <3>2. RootShellsCounted'
      BY <2>2, <3>1, FS_EmptySet DEF BrokerExit, RootShellsCounted
    <3> QED BY <2>2, <3>2
            DEF BrokerExit, StopServices, ServicesInv, Shape, ShellsHaveServices
  <2>3. CASE \E f \in Fmm : FmmLeaves(f) \/ FmmExits(f) \/ FmmKilled(f) \/ VolumeLeaves(f)
    <3>1. UNCHANGED <<conn, rootShells, fmm>>
      BY <2>3 DEF FmmLeaves, FmmExits, FmmKilled, VolumeLeaves
    <3> QED BY <3>1, CountSame DEF ServicesInv, Shape, ShellsHaveServices
  <2>4. CASE \E k \in Crm : CrmLeaves(k)
    BY <2>4, CountSame
       DEF CrmLeaves, ServicesInv, Shape, ShellsHaveServices
  <2>5. CASE UNCHANGED vars
    BY <2>5, CountSame DEF vars, ServicesInv, Shape, ShellsHaveServices
  <2> QED BY <2>1, <2>2, <2>3, <2>4, <2>5 DEF Next
<1> QED BY <1>1, <1>2, PTL DEF Spec

\* root_shells is exact, so the services go with the last shell and no sooner.
THEOREM ShellsAreCounted == Spec => []RootShellsCounted
<1>1. ServicesInv => RootShellsCounted
  BY DEF ServicesInv
<1> QED BY <1>1, ServicesInductive, PTL

\* An attached --root shell always has the handle that was started for it.
THEOREM ShellsKeepServices == Spec => []ShellsHaveServices
<1>1. ServicesInv => ShellsHaveServices
  BY DEF ServicesInv
<1> QED BY <1>1, ServicesInductive, PTL

\* Both: for every set of connections and handles, the shells attached are the
\* shells counted, and while there is one the broker holds its handle.
THEOREM ShellsAreServed == Spec => []RootShellsAreServed
BY ShellsAreCounted, ShellsKeepServices, PTL DEF RootShellsAreServed

\* The handle changes only while no shell is attached, or with the last one.
THEOREM OneAuthentication == Spec => AuthenticatesOnce
<1>1. ServicesInv /\ [Next]_vars => (rootShells > 0 /\ rootShells' > 0 => fmm' = fmm)
  <2> SUFFICES ASSUME ServicesInv, [Next]_vars, rootShells > 0, rootShells' > 0
               PROVE  fmm' = fmm
    OBVIOUS
  <2>1. fmm # None
    BY DEF ServicesInv, ShellsHaveServices
  <2>2. CASE \E c \in Conn : Request(c)
    <3>1. PICK c \in Conn : Request(c)
      BY <2>2
    <3>2. CASE Open(c) \/ Attach(c) \/ AttachFails(c)
      BY <2>1, <3>2 DEF Open, Attach, AttachFails
    <3>3. CASE Drop(c)
      BY <3>3 DEF Drop, ServicesInv, Shape
    <3>4. CASE PrivopFails(c) \/ PrivopBuilds(c) \/ PrivopRefused(c)
      BY <2>1, <3>4 DEF PrivopFails, PrivopBuilds, PrivopRefused
    <3> QED BY <3>1, <3>2, <3>3, <3>4 DEF Request
  <2>3. CASE BrokerExit
    BY <2>3 DEF BrokerExit
  <2>4. CASE \/ \E f \in Fmm : FmmLeaves(f) \/ FmmExits(f) \/ FmmKilled(f) \/ VolumeLeaves(f)
             \/ \E k \in Crm : CrmLeaves(k)
    BY <2>4 DEF FmmLeaves, FmmExits, FmmKilled, VolumeLeaves, CrmLeaves
  <2> QED BY <2>2, <2>3, <2>4 DEF Next, vars
<1> QED BY <1>1, ServicesInductive, PTL DEF Spec, AuthenticatesOnce

-----------------------------------------------------------------------------
\* TypeOK but for the bound on rootShells, which is the count's.
Typed ==
    /\ up \in BOOLEAN
    /\ fmm \in Fmm \cup {None}
    /\ lost \in BOOLEAN
    /\ crm \in Crm \cup {None}
    /\ unread \subseteq Crm
    /\ sup \in [Fmm -> {"unborn", "serving", "leaving", "gone", "killed"}]
    /\ vol \in [Fmm -> {"unborn", "serving", "gone"}]
    /\ wrk \in [Crm -> {"unborn", "serving", "gone"}]

\* A supervisor that starts, and a file worker, keep the processes' types.
LEMMA StartsTyped ==
    ASSUME NEW f \in Fmm, Typed, Starts(f)
    PROVE  /\ sup' \in [Fmm -> {"unborn", "serving", "leaving", "gone", "killed"}]
           /\ vol' \in [Fmm -> {"unborn", "serving", "gone"}]
BY DEF Typed, Starts

LEMMA SpawnsTyped ==
    ASSUME NEW k \in Crm, Typed, Spawns(k)
    PROVE  wrk' \in [Crm -> {"unborn", "serving", "gone"}]
BY DEF Typed, Spawns

LEMMA RequestTyped ==
    ASSUME NEW c \in Conn, Typed, Request(c)
    PROVE  Typed'
<1>1. CASE Open(c) \/ PrivopFails(c)
  BY <1>1 DEF Open, PrivopFails, Typed
<1>2. CASE Attach(c)
  <2>1. CASE UNCHANGED <<fmm, lost, sup, vol>>
    BY <1>2, <2>1 DEF Attach, Typed
  <2>2. CASE StartServices
    BY <1>2, <2>2, StartsTyped DEF Attach, StartServices, Typed
  <2> QED BY <1>2, <2>1, <2>2 DEF Attach
<1>3. CASE AttachFails(c) \/ PrivopRefused(c)
  <2>1. StartFails /\ UNCHANGED <<up, crm, unread, wrk>>
    BY <1>3 DEF AttachFails, PrivopRefused
  <2> QED BY <2>1, StartsTyped DEF StartFails, Typed
<1>4. CASE Drop(c)
  BY <1>4 DEF Drop, StopServices, Typed
<1>5. CASE PrivopBuilds(c)
  <2>1. PICK f \in Fmm :
          /\ fmm' = f
          /\ \/ fmm = f /\ UNCHANGED <<sup, vol>>
             \/ fmm = None /\ Starts(f)
          /\ \/ /\ sup'[f] = "serving"
                /\ \E k \in Crm :
                     /\ Spawns(k)
                     /\ \/ crm' \in {k, None} /\ UNCHANGED <<lost, unread>>
                        \/ lost' = TRUE /\ unread' = unread \cup {k} /\ UNCHANGED crm
             \/ lost' = TRUE /\ UNCHANGED <<crm, unread, wrk>>
    BY <1>5 DEF PrivopBuilds
  <2>2. /\ sup' \in [Fmm -> {"unborn", "serving", "leaving", "gone", "killed"}]
        /\ vol' \in [Fmm -> {"unborn", "serving", "gone"}]
    BY <2>1, StartsTyped DEF Typed
  <2>3. /\ wrk' \in [Crm -> {"unborn", "serving", "gone"}]
        /\ crm' \in Crm \cup {None}
        /\ unread' \subseteq Crm
        /\ lost' \in BOOLEAN
    BY <2>1, SpawnsTyped DEF Typed
  <2>4. up' \in BOOLEAN
    BY <1>5 DEF PrivopBuilds, Typed
  <2> QED BY <2>1, <2>2, <2>3, <2>4 DEF Typed
<1> QED BY <1>1, <1>2, <1>3, <1>4, <1>5 DEF Request

\* Every variable keeps its type; that root_shells never exceeds the number of
\* connections, nor wraps below zero, comes from its being their count.
THEOREM ServicesTyped == Spec => []TypeOK
<1>1. Init => Typed
  <2> SUFFICES ASSUME Init PROVE Typed
    OBVIOUS
  <2>1. up \in BOOLEAN /\ lost \in BOOLEAN
    BY Zenon DEF Init
  <2>2. /\ sup \in [Fmm -> {"unborn", "serving", "leaving", "gone", "killed"}]
        /\ vol \in [Fmm -> {"unborn", "serving", "gone"}]
        /\ wrk \in [Crm -> {"unborn", "serving", "gone"}]
    BY DEF Init
  <2>3. fmm = None /\ crm = None /\ unread = {}
    BY DEF Init
  <2> QED BY <2>1, <2>2, <2>3 DEF Typed
<1>2. Typed /\ [Next]_vars => Typed'
  <2> SUFFICES ASSUME Typed, [Next]_vars PROVE Typed'
    OBVIOUS
  <2>1. CASE \E c \in Conn : Request(c)
    BY <2>1, RequestTyped
  <2>2. CASE BrokerExit
    BY <2>2 DEF BrokerExit, StopServices, Typed
  <2>3. CASE \E f \in Fmm : FmmLeaves(f) \/ FmmExits(f) \/ FmmKilled(f) \/ VolumeLeaves(f)
    BY <2>3 DEF FmmLeaves, FmmExits, FmmKilled, VolumeLeaves, Typed
  <2>4. CASE \E k \in Crm : CrmLeaves(k)
    BY <2>4 DEF CrmLeaves, Typed
  <2>5. CASE UNCHANGED vars
    BY <2>5 DEF vars, Typed
  <2> QED BY <2>1, <2>2, <2>3, <2>4, <2>5 DEF Next
<1>3. Typed /\ ServicesInv => TypeOK
  <2> SUFFICES ASSUME Typed, ServicesInv PROVE TypeOK
    OBVIOUS
  <2>1. Cardinality(Shells) <= Cardinality(Conn) /\ Cardinality(Conn) \in Nat
    BY FS_Subset, FS_CardinalityType DEF Shells
  <2>2. rootShells = Cardinality(Shells) /\ rootShells \in Nat
    BY DEF ServicesInv, RootShellsCounted, Shells, Shape
  <2>3. rootShells \in 0..Cardinality(Conn)
    BY <2>1, <2>2
  <2> QED BY <2>3 DEF Typed, ServicesInv, Shape, TypeOK
<1> QED BY <1>1, <1>2, <1>3, ServicesInductive, PTL DEF Spec
=============================================================================
