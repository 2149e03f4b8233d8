----------------------------- MODULE VolumeWorker -----------------------------
(***************************************************************************)
(* The FMM: a supervisor (ace_fmm.c) that answers the broker, a volume      *)
(* worker (ace_fmm_volume.c) that mounts each filesystem once beneath a     *)
(* view root in a private mount namespace, and the CRM it is asked to start.*)
(* The broker makes one request at a time.  A key is a device or, for a     *)
(* bind, a device number.                                                   *)
(*                                                                         *)
(* Faults: unsharing the namespace fails, a mount fails, the table is full, *)
(* the worker dies, the answer comes after the broker's patience, the       *)
(* authorisation lapses, the broker dies.                                   *)
(***************************************************************************)
EXTENDS Integers, FiniteSets

CONSTANTS Key,          \* filesystems; Binds are those without a device node
          Binds,
          Unsupported,  \* of a type the worker does not mount
          MaxVolumes, MaxRequests

VARIABLES ns,        \* "private", or "shared" when unsharing failed
          host,      \* key -> is it mounted on the host, and how
          volumes,   \* the worker's table
          mounted,   \* key -> mounts stacked on its view directory
          dirs,      \* view directories that exist
          viewRoot,  \* the view root has been made
          supRoot,   \* the supervisor has heard of it
          crm,       \* "none", "blind" or "sees": a CRM, and its view root
          worker,    \* "up", "dead" (killed) or "left" (at end of file)
          channel,   \* the supervisor's end of the worker's channel
          sup,       \* "serving", "leaving", "gone"
          broker,    \* its connection: "open", "closed", or "gone"
          req,       \* the request on its way, and who has it
          prepared,  \* the broker has been told of the view root
          mountFailed,  \* keys whose directory was made and mount failed
          requests

vars == <<ns, host, volumes, mounted, dirs, viewRoot, supRoot, crm, worker,
          channel, sup, broker, req, prepared, mountFailed, requests>>

NoRequest == [what |-> "none", key |-> CHOOSE k \in Key : TRUE, at |-> "nobody", reply |-> "none"]
Asked(w, k) == [what |-> w, key |-> k, at |-> "supervisor", reply |-> "none"]

\* main: the namespace is tried once, before the worker is forked, so that
\* worker and CRM share what came of it.
Init ==
    /\ ns \in {"private", "shared"}
    /\ host \in [Binds -> {"no", "root", "covered"}]
    /\ volumes = {} /\ mounted = [k \in Key |-> 0] /\ dirs = {}
    /\ viewRoot = FALSE /\ supRoot = FALSE /\ crm = "none"
    /\ worker = "up" /\ channel = "open" /\ sup = "serving" /\ broker = "open"
    /\ req = NoRequest /\ prepared = FALSE
    /\ mountFailed = {} /\ requests = 0

WorkerState == <<volumes, mounted, dirs, viewRoot, mountFailed>>
Ends == <<worker, channel, sup, broker>>

-----------------------------------------------------------------------------
(* The broker.                                                              *)

\* ace_privilege_connection_request: one at a time, and none once closed.
Request(w, k) ==
    /\ broker = "open" /\ req = NoRequest /\ requests < MaxRequests
    /\ w = "mount" => k \notin Binds
    /\ w = "bind" => k \in Binds
    /\ w \in {"mount", "bind", "spawn"} => prepared
    /\ w \in {"prepare", "spawn", "ping"} => k = NoRequest.key
    /\ w = "spawn" => crm = "none"
    /\ req' = Asked(w, k) /\ requests' = requests + 1
    /\ UNCHANGED <<ns, host, WorkerState, supRoot, crm, Ends, prepared>>

\* The prepared, or end of file when the supervisor has gone.
Receive ==
    /\ broker = "open" /\ req.what # "none"
    /\ \/ /\ req.at = "broker" /\ UNCHANGED broker
          /\ prepared' = (prepared \/ (req.what = "prepare" /\ req.reply = "OK"))
       \/ req.at # "broker" /\ sup = "gone" /\ broker' = "closed" /\ UNCHANGED prepared
    /\ req' = NoRequest
    /\ UNCHANGED <<ns, host, WorkerState, supRoot, crm, worker, channel, sup, requests>>

\* wait_readable gives up: the connection is not used again, because the
\* answer to this request would be taken for the answer to the next.
ReplyTimeout ==
    /\ broker = "open" /\ req.what # "none" /\ req.at \in {"supervisor", "worker"}
    /\ broker' = "closed"
    /\ UNCHANGED <<ns, host, WorkerState, supRoot, crm, worker, channel, sup, req, prepared, requests>>

\* stop_root_services, or the broker's death: end of file for the supervisor
\* and for the CRM.
BrokerLeaves ==
    /\ broker \in {"open", "closed"} /\ broker' = "gone" /\ crm' = "none"
    /\ UNCHANGED <<ns, host, WorkerState, supRoot, worker, channel, sup, req, prepared, requests>>

-----------------------------------------------------------------------------
(* The supervisor.                                                          *)

Replied(outcome) == [req EXCEPT !.at = "broker", !.reply = outcome]

\* dispatch and forward_to_volume: a volume request goes to the worker while
\* there is one; a CRM is started with the view root as it is known here.
Dispatch ==
    /\ sup = "serving" /\ req.at = "supervisor"
    /\ CASE req.what \in {"prepare", "mount", "bind"} ->
              /\ req' = IF channel = "open" THEN [req EXCEPT !.at = "worker"]
                        ELSE Replied("HOST_ERROR")
              /\ UNCHANGED crm
         [] req.what = "spawn" ->
              /\ crm' = IF broker = "gone" THEN "none" ELSE IF supRoot THEN "sees" ELSE "blind"
              /\ req' = Replied("OK")
         [] OTHER -> req' = Replied("OK") /\ UNCHANGED crm
    /\ UNCHANGED <<ns, host, WorkerState, supRoot, Ends, prepared, requests>>

\* The worker's answer is relayed, and a view root remembered; a worker that
\* is not there any more is an error, and its channel is given up.
RelayOnly ==
    /\ sup = "serving" /\ channel = "open"
    /\ \/ /\ req.at = "answered"
          /\ req' = [req EXCEPT !.at = "broker"] /\ UNCHANGED <<channel, supRoot>>
       \/ /\ req.at = "worker" /\ worker = "dead"
          /\ channel' = "closed" /\ req' = Replied("HOST_ERROR") /\ UNCHANGED supRoot
    /\ UNCHANGED <<ns, host, WorkerState, crm, worker, sup, broker, prepared, requests>>
Relay ==
    /\ sup = "serving" /\ channel = "open"
    /\ \/ /\ req.at = "answered"
          /\ req' = [req EXCEPT !.at = "broker"]
          /\ supRoot' = (supRoot \/ (req.what = "prepare" /\ req.reply = "OK"))
          /\ UNCHANGED channel
       \/ /\ req.at = "worker" /\ worker = "dead"
          /\ channel' = "closed" /\ req' = Replied("HOST_ERROR") /\ UNCHANGED supRoot
    /\ UNCHANGED <<ns, host, WorkerState, crm, worker, sup, broker, prepared, requests>>

\* serve ends: the deadline has lapsed, or the broker's end is closed and
\* nothing of its is in hand.
ServeEnds ==
    /\ sup = "serving"
    /\ \/ req.at \in {"nobody", "broker"}
       \/ req.at = "supervisor" /\ broker = "gone"
    /\ sup' = "leaving"
    /\ UNCHANGED <<ns, host, WorkerState, supRoot, crm, worker, channel, broker, req, prepared, requests>>

\* stop_volume_worker: close the channel, wait for the worker, and exit.  The
\* kernel drops a namespace nobody is in.
WaitsFirst ==
    /\ sup = "leaving" /\ channel = "open" /\ worker # "up" /\ channel' = "closed"
    /\ UNCHANGED <<ns, host, WorkerState, supRoot, crm, worker, sup, broker, req, prepared, requests>>
CloseWorkerChannel ==
    /\ sup = "leaving" /\ channel = "open" /\ channel' = "closed"
    /\ UNCHANGED <<ns, host, WorkerState, supRoot, crm, worker, sup, broker, req, prepared, requests>>
stop_volume_worker ==
    /\ sup = "leaving" /\ channel = "closed" /\ worker # "up" /\ sup' = "gone"
    /\ mounted' = IF crm = "none" THEN [k \in Key |-> 0] ELSE mounted
    /\ UNCHANGED <<ns, host, volumes, dirs, viewRoot, mountFailed, supRoot, crm, worker, channel,
                   broker, req, prepared, requests>>

-----------------------------------------------------------------------------
(* The volume worker.                                                       *)

Answered(outcome) == [req EXCEPT !.at = "answered", !.reply = outcome]
NoChange == UNCHANGED <<volumes, mounted, dirs, viewRoot, mountFailed>>

\* init_namespace reports what unsharing came to; ensure_view_root needs it.
init_namespace == ns = "private"
ensure_view_root ==
    /\ req.what = "prepare"
    /\ IF init_namespace
       THEN /\ viewRoot' = TRUE /\ req' = Answered("OK")
            /\ UNCHANGED <<volumes, mounted, dirs, mountFailed>>
       ELSE req' = Answered("HOST_ERROR") /\ NoChange

\* The view directory is made and, unless something is mounted on it already,
\* the filesystem mounted or bound on it, and the entry taken last; with no entry left the mount is undone again.
NoRoomKeepsIt(k) ==
    /\ dirs' = dirs \cup {k} /\ viewRoot' = TRUE
    /\ mounted' = [mounted EXCEPT ![k] = @ + 1]
    /\ volumes' = IF Cardinality(volumes) < MaxVolumes THEN volumes \cup {k} ELSE volumes
    /\ mountFailed' = IF Cardinality(volumes) < MaxVolumes THEN mountFailed ELSE mountFailed \cup {k}
    /\ req' = Answered(IF Cardinality(volumes) < MaxVolumes THEN "OK" ELSE "HOST_ERROR")
MountOn(k) ==
    /\ dirs' = dirs \cup {k} /\ viewRoot' = TRUE
    /\ IF Cardinality(volumes) < MaxVolumes /\ mounted[k] = 0
       THEN /\ mounted' = [mounted EXCEPT ![k] = @ + 1] /\ volumes' = volumes \cup {k}
            /\ req' = Answered("OK") /\ UNCHANGED mountFailed
       ELSE /\ req' = Answered("HOST_ERROR") /\ mountFailed' = mountFailed \cup {k}
            /\ UNCHANGED <<mounted, volumes>>
MountFails(k) ==
    /\ dirs' = dirs \cup {k} /\ viewRoot' = TRUE /\ mountFailed' = mountFailed \cup {k}
    /\ req' = Answered("HOST_ERROR") /\ UNCHANGED <<mounted, volumes>>

\* An entry that has its view already is answered as it stands.
AlreadyViewed(k) == k \in volumes

supported_filesystem(k) == k \notin Unsupported

\* do_mount: type, namespace, device, entry, directory; a mounted directory
\* is busy; then a bind of the host's own root mount or a fresh mount.
do_mount ==
    /\ req.what = "mount"
    /\ LET k == req.key
       IN CASE ~supported_filesystem(k) -> req' = Answered("UNSUPPORTED") /\ NoChange
            [] supported_filesystem(k) /\ ~init_namespace -> req' = Answered("REFUSED") /\ NoChange
            [] OTHER -> \/ AlreadyViewed(k) /\ req' = Answered("OK") /\ NoChange
                        \/ ~AlreadyViewed(k) /\ (MountOn(k) \/ MountFails(k))

\* do_bind: the same for a filesystem that must be mounted on the host with
\* nothing mounted over it.
do_bind ==
    /\ req.what = "bind"
    /\ LET k == req.key
       IN CASE ~init_namespace -> req' = Answered("REFUSED") /\ NoChange
            [] init_namespace /\ AlreadyViewed(k) -> req' = Answered("OK") /\ NoChange
            [] init_namespace /\ ~AlreadyViewed(k) /\ host[k] # "root" ->
                 req' = Answered("UNSUPPORTED") /\ NoChange
            [] OTHER -> MountOn(k) \/ MountFails(k)

WorkerServes ==
    /\ worker = "up" /\ req.at = "worker"
    /\ ensure_view_root \/ do_mount \/ do_bind
    /\ UNCHANGED <<ns, host, supRoot, crm, Ends, prepared, requests>>

\* End of file: every entry is unmounted and its directory removed, newest
\* first, and then the view root if nothing is left in it.
LeavesMounts == UNCHANGED <<volumes, mounted, dirs, viewRoot>>
ace_fmm_volume_shutdown ==
    /\ mounted' = [k \in Key |-> IF k \in volumes THEN 0 ELSE mounted[k]]
    /\ dirs' = dirs \ volumes
    /\ viewRoot' = (viewRoot /\ dirs \ volumes # {})
    /\ volumes' = {}
WorkerLeaves ==
    /\ worker = "up" /\ channel = "closed" /\ worker' = "left"
    /\ ace_fmm_volume_shutdown
    /\ UNCHANGED <<ns, host, supRoot, crm, channel, sup, broker, req, prepared, mountFailed, requests>>

WorkerDies ==
    /\ worker = "up" /\ sup = "serving" /\ worker' = "dead"
    /\ UNCHANGED <<ns, host, WorkerState, supRoot, crm, channel, sup, broker, req, prepared, requests>>

-----------------------------------------------------------------------------
Leaving == Receive \/ Dispatch \/ Relay \/ WorkerServes \/ CloseWorkerChannel
           \/ WorkerLeaves \/ stop_volume_worker \/ (broker = "gone" /\ ServeEnds)

Next == \/ \E w \in {"prepare", "mount", "bind", "spawn", "ping"}, k \in Key : Request(w, k)
        \/ ReplyTimeout \/ BrokerLeaves \/ ServeEnds \/ WorkerDies \/ Leaving

Spec == Init /\ [][Next]_vars
FairSpec == Spec /\ WF_vars(Leaving)

\* The worker's, the supervisor's and the broker's state have their types.
TypeOK ==
    /\ ns \in {"private", "shared"} /\ volumes \subseteq Key /\ dirs \subseteq Key
    /\ mounted \in [Key -> 0..MaxRequests] /\ crm \in {"none", "blind", "sees"}
    /\ worker \in {"up", "dead", "left"} /\ channel \in {"open", "closed"}
    /\ sup \in {"serving", "leaving", "gone"} /\ broker \in {"open", "closed", "gone"}
    /\ req.at \in {"nobody", "supervisor", "worker", "answered", "broker"}

\* Between requests the worker's table says what is mounted: one entry for a
\* filesystem in view, one mount on its directory, never two, none without an
\* entry (do_mount, do_bind against a repeated request and a full table); and
\* all of it in the private namespace.
TableIsTheView ==
    /\ worker = "up" => \A k \in Key : mounted[k] = IF k \in volumes THEN 1 ELSE 0
    /\ (\E k \in Key : mounted[k] > 0) => ns = "private"
    /\ Cardinality(volumes) <= MaxVolumes

\* A worker that left on its own account left nothing mounted, and no
\* directory but one whose mount had failed (ace_fmm_volume_shutdown).
LeavesNothingBehind ==
    worker = "left" => /\ \A k \in Key : mounted[k] = 0
                       /\ dirs \subseteq mountFailed

\* A CRM can open what is in the view: it was started with its root
\* (forward_to_volume remembers it for spawn_crm).
CrmSeesTheView == crm # "blind"

BrokerGone == broker = "gone"
ServiceGone == sup = "gone" /\ worker # "up"

\* When the broker has gone, the supervisor and its worker go too.
EndsWithTheBroker == BrokerGone ~> ServiceGone
=============================================================================
