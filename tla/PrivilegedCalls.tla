--------------------------- MODULE PrivilegedCalls ---------------------------
(***************************************************************************)
(* One protected file operation: ace_crm_retry.c tries it as the user, asks *)
(* the broker when that fails, the broker asks the CRM, and the CRM does    *)
(* the one thing it was asked as root and answers.  Three objects stand for *)
(* all: "own" is in a directory of the user, "prv" in a directory only root *)
(* may enter, and "view" in the FMM's mount namespace, where the user has   *)
(* no such name at all.                                                     *)
(*                                                                         *)
(* Faults: the CRM dies before or after it acted, the broker or its         *)
(* connection dies with the answer, and the answer takes longer than        *)
(* FMM_REPLY_TIMEOUT_MS.                                                    *)
(***************************************************************************)
EXTENDS Integers, Sequences, FiniteSets

CONSTANTS MaxOps, MaxFaults, Root

Path == {"own", "prv", "view"}
\* a full directory, a link, and a link that leads out of its volume
Kind == {"absent", "file", "dir", "full", "link", "out"}

VARIABLES obj,       \* path -> [kind, owner, mark]
          op,        \* the operation of the client, [what, p, q]
          pc,        \* where it is
          local,     \* errno of the unprivileged attempt
          attempt,   \* connections tried by native_broker_privop
          reply,     \* what the exchange brought back: [outcome, err]
          result,    \* what the caller is told
          did,       \* times a CRM has performed this operation
          late,      \* an operation a CRM is still to perform, unheard
          crm,       \* the broker's CRM connection: "none" or "up"
          faults, ops

vars == <<obj, op, pc, local, attempt, reply, result, did, late, crm, faults, ops>>

Opens == {"open", "opendir", "create"}
Looks == {"stat", "lstat", "readlink"}
Changes == {"unlink", "mkdir", "symlink", "chmod", "utime"}
One == Opens \cup Looks \cup Changes
Two == {"rename", "link"}
Operation == [what : One, p : Path, q : {"own"}] \cup [what : Two, p : Path, q : Path]
NoOp == [what |-> "none", p |-> "own", q |-> "own"]

Thing(k, who) == [kind |-> k, owner |-> who, mark |-> FALSE]
Nothing == Thing("absent", "user")

Init ==
    /\ obj \in [own  : {Nothing, Thing("full", "root")},
               prv  : {Nothing, Thing("full", "root")},
               view : {Nothing, Thing("out", "root")}]
    /\ op = NoOp /\ pc = "idle" /\ local = "none" /\ attempt = 0
    /\ reply = [outcome |-> 0, err |-> "none"] /\ result = "none" /\ did = 0
    /\ late = {} /\ crm = "none" /\ faults = 0 /\ ops = 0

-----------------------------------------------------------------------------
(* The kernel's answer to a call whose caller may make it.                  *)

\* unlink, or rmdir when it is a directory: one Delete removes either kind
remove_either_kind(o, p) ==
    CASE o[p].kind = "absent" -> "ENOENT"
      [] o[p].kind = "full"   -> "ENOTEMPTY"
      [] OTHER                -> "ok"

Renames(o, p, q) ==
    CASE o[p].kind = "absent" -> "ENOENT"
      [] o[q].kind = "full"   -> "ENOTEMPTY"
      [] o[p].kind # "file" /\ o[q].kind \notin {"absent", o[p].kind} -> "EEXIST"
      [] o[p].kind = "file" /\ o[q].kind = "dir" -> "EISDIR"
      [] OTHER                -> "ok"

IsDir(o, p) == o[p].kind \in {"dir", "full"}

Answers(o, x) ==
    CASE x.what \in {"mkdir", "symlink"} ->
              IF o[x.p].kind = "absent" THEN "ok" ELSE "EEXIST"
      [] x.what = "unlink" -> remove_either_kind(o, x.p)
      [] x.what = "rename" -> Renames(o, x.p, x.q)
      [] x.what = "create" -> IF IsDir(o, x.p) THEN "EISDIR" ELSE "ok"
      [] o[x.p].kind = "absent" -> "ENOENT"
      [] x.what = "link" -> IF IsDir(o, x.p) THEN "EPERM"
                            ELSE IF o[x.q].kind # "absent" THEN "EEXIST" ELSE "ok"
      [] x.what = "opendir" -> IF IsDir(o, x.p) THEN "ok" ELSE "ENOTDIR"
      [] x.what = "readlink" -> IF o[x.p].kind \in {"link", "out"} THEN "ok" ELSE "EINVAL"
      [] OTHER -> "ok"

Effect(o, x, who) ==
    CASE x.what = "mkdir"   -> [o EXCEPT ![x.p] = Thing("dir", who)]
      [] x.what = "symlink" -> [o EXCEPT ![x.p] = Thing("link", who)]
      [] x.what = "unlink"  -> [o EXCEPT ![x.p] = Nothing]
      [] x.what = "rename"  -> IF x.p = x.q THEN o
                               ELSE [o EXCEPT ![x.q] = o[x.p], ![x.p] = Nothing]
      [] x.what = "link"    -> [o EXCEPT ![x.q] = o[x.p]]
      [] x.what = "create" /\ o[x.p].kind = "absent" ->
                               [o EXCEPT ![x.p] = Thing("file", who)]
      [] x.what \in {"chmod", "utime"} -> [o EXCEPT ![x.p].mark = TRUE]
      [] OTHER -> o

-----------------------------------------------------------------------------
(* The client: try as the user, and ask only when that fails.               *)

Uses(x) == {x.p} \cup (IF x.what \in Two THEN {x.q} ELSE {})

\* A directory only root may enter, and a name that exists only in the view
AsUser(x) ==
    IF "view" \in Uses(x) THEN "ENOENT"
    ELSE IF "prv" \in Uses(x) THEN "EACCES"
    ELSE Answers(obj, x)

may_escalate == Root

\* ace_crm_retry_link: EPERM on a directory is the kernel's last word
Final(x, err) ==
    x.what = "link" /\ err = "EPERM" /\ x.p = "own" /\ IsDir(obj, x.p)

Begin(x) ==
    /\ pc = "idle" /\ ops < MaxOps
    /\ ops' = ops + 1 /\ op' = x /\ did' = 0 /\ attempt' = 0
    /\ result' = "none"
    /\ IF AsUser(x) = "ok"
       THEN /\ obj' = Effect(obj, x, "user")
            /\ pc' = "told" /\ local' = "none"
       ELSE /\ pc' = IF may_escalate /\ ~Final(x, AsUser(x)) THEN "ask" ELSE "told"
            /\ local' = AsUser(x) /\ obj' = obj
    /\ UNCHANGED <<reply, late, crm, faults>>

\* The caller has its result
Return ==
    /\ pc = "told"
    /\ pc' = "idle"
    /\ result' = IF local = "none" THEN "ok" ELSE local
    /\ op' = NoOp /\ local' = "none" /\ did' = 0
    /\ UNCHANGED <<obj, attempt, reply, late, crm, faults, ops>>

-----------------------------------------------------------------------------
(* The broker, with the connection it holds to its CRM.                     *)

\* ensure_access_worker builds the worker, or cannot
ensure_access_worker ==
    /\ pc = "ask" /\ crm # "up"
    /\ \/ crm' = "up" /\ UNCHANGED <<pc, reply, faults>>
       \/ /\ faults < MaxFaults /\ faults' = faults + 1
          /\ crm' = "none"
          /\ reply' = [outcome |-> 1, err |-> "EIO"] /\ pc' = "answered"
    /\ UNCHANGED <<obj, op, local, attempt, result, did, late, ops>>

\* privop_domain_path: "view" is relative to the device view, all else is host
privop_domain_path(p) == IF p = "view" THEN "view" ELSE "host"
CrossesDomains(x) ==
    x.what \in Two /\ privop_domain_path(x.p) # privop_domain_path(x.q)

\* openat2 with RESOLVE_BENEATH: following a link out of the volume is refused
resolve_in_domain(x) ==
    ~(obj[x.p].kind = "out" /\ x.what \in Opens \cup {"stat", "chmod", "utime"})

\* ace_crm_serve: one request, performed as root
CrmAnswer(x) == IF resolve_in_domain(x) THEN Answers(obj, x) ELSE "ELOOP"

perform_privileged_operation ==
    /\ pc = "ask" /\ crm = "up"
    /\ IF CrossesDomains(op)
       THEN /\ reply' = [outcome |-> 1, err |-> "EXDEV"]
            /\ UNCHANGED <<obj, did>>
       ELSE IF CrmAnswer(op) = "ok"
       THEN /\ obj' = Effect(obj, op, "root") /\ did' = did + 1
            /\ reply' = [outcome |-> 0, err |-> "none"]
       ELSE /\ reply' = [outcome |-> 1, err |-> CrmAnswer(op)]
            /\ UNCHANGED <<obj, did>>
    /\ pc' = "answered"
    /\ UNCHANGED <<op, local, attempt, result, late, crm, faults, ops>>

\* The channel to the CRM fails, before it acted or with its answer; the worker
\* is dropped and the caller hears EIO
CrmFails ==
    /\ pc = "ask" /\ crm = "up" /\ faults < MaxFaults
    /\ ~CrossesDomains(op)
    /\ \/ obj' = obj /\ did' = did
       \/ CrmAnswer(op) = "ok" /\ obj' = Effect(obj, op, "root") /\ did' = did + 1
    /\ crm' = "none" /\ pc' = "answered" /\ faults' = faults + 1
    /\ reply' = [outcome |-> 1, err |-> "EIO"]
    /\ UNCHANGED <<op, local, attempt, result, late, ops>>

\* FMM_REPLY_TIMEOUT_MS passes first: the CRM will act on a request nobody waits for
ReplyTimeout ==
    /\ pc = "ask" /\ crm = "up" /\ faults < MaxFaults
    /\ ~CrossesDomains(op)
    /\ late' = late \cup {op}
    /\ crm' = "none" /\ pc' = "answered" /\ faults' = faults + 1
    /\ reply' = [outcome |-> 1, err |-> "EIO"]
    /\ UNCHANGED <<obj, op, local, attempt, result, did, ops>>

LateActs(x) ==
    /\ x \in late
    /\ late' = late \ {x}
    /\ obj' = IF CrmAnswer(x) = "ok" THEN Effect(obj, x, "root") ELSE obj
    /\ did' = IF x = op THEN did + 1 ELSE did
    /\ UNCHANGED <<op, pc, local, attempt, reply, result, crm, faults, ops>>

-----------------------------------------------------------------------------
(* native_broker_privop and the answer the caller is told.                  *)

\* the broker's connection dies with the answer: one more attempt, then -1
TriesForever ==
    /\ pc = "answered"
    /\ pc' = "ask" /\ crm' = "none"
    /\ UNCHANGED <<obj, op, local, attempt, reply, result, did, late, faults, ops>>
BrokerConnectionDies ==
    /\ pc = "answered" /\ faults < MaxFaults
    /\ faults' = faults + 1
    /\ attempt' = attempt + 1
    /\ IF attempt = 0 THEN pc' = "ask" /\ reply' = reply
                      ELSE pc' = "answered" /\ reply' = [outcome |-> -1, err |-> "EIO"]
    /\ crm' = "none"
    /\ UNCHANGED <<obj, op, local, result, did, late, ops>>

\* report_failure: a fact about the exchange leaves the caller's refusal standing
ReportsLast(r, failure) == r.err
report_failure(r, failure) ==
    IF r.outcome < 0 \/ r.err \in {"EIO", "EPROTO"} THEN failure ELSE r.err

Finish ==
    /\ pc = "answered"
    /\ pc' = "idle"
    /\ result' = IF reply.outcome = 0 THEN "ok" ELSE report_failure(reply, local)
    /\ op' = NoOp /\ local' = "none" /\ did' = 0 /\ attempt' = 0
    /\ reply' = [outcome |-> 0, err |-> "none"]
    /\ UNCHANGED <<obj, late, crm, faults, ops>>

Next ==
    \/ \E x \in Operation : Begin(x)
    \/ Return \/ ensure_access_worker \/ perform_privileged_operation
    \/ CrmFails \/ ReplyTimeout \/ BrokerConnectionDies \/ Finish
    \/ \E x \in late : LateActs(x)

Spec == Init /\ [][Next]_vars
FairSpec ==
    Spec /\ WF_vars(Return \/ ensure_access_worker \/ perform_privileged_operation
                    \/ Finish)

-----------------------------------------------------------------------------
TypeOK ==
    /\ \A p \in Path : obj[p].kind \in Kind /\ obj[p].owner \in {"user", "root"}
    /\ pc \in {"idle", "told", "ask", "answered"} /\ attempt \in 0 .. 2 + MaxFaults
    /\ crm \in {"none", "up"} /\ late \subseteq Operation

\* What a command is told is about its object.  Neither a broken channel nor a
\* CRM that could not be built reaches it as an error: the user's own refusal
\* stands instead (report_failure).
AnswersAboutTheObject ==
    (pc = "idle" /\ result # "none") => result \notin {"EIO", "EPROTO", "none"}

\* A call returns "ok" exactly when the operation was done once.
TellsTheCaller ==
    (pc # "idle" /\ pc' = "idle" /\ faults' = 0) =>
         IF result' = "ok" THEN did + (IF local = "none" THEN 1 ELSE 0) = 1
         ELSE did = 0


Called == pc # "idle"

\* A call through the seam comes back, whatever fails on the way.
CallComesBack == Called ~> ~Called
=============================================================================
