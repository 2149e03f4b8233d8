------------------------------ MODULE DosLookup ------------------------------
(***************************************************************************)
(* One name beneath a multi-assign, A:x, as a command's process finds it.   *)
(* The broker resolves the whole name against the first target that exists *)
(* (SessionAssigns); when nothing is there, native_dos.c walks the targets  *)
(* GetDeviceProc() hands out from the process's own DOS list, which         *)
(* assign_compat.c loads from the broker once.  Lock(), Open(), Rename()    *)
(* and DeleteFile() each make that walk, or do not.                         *)
(*                                                                         *)
(* Target t is a host directory; `obj' says what is called x in it.         *)
(***************************************************************************)
EXTENDS Integers, Sequences, SequencesExt, FiniteSets

CONSTANTS Target, MaxTargets, MaxChanges

VARIABLES targets,   \* the assign's targets, in the session
          present,   \* target directories that exist
          obj,       \* target -> what x is there
          loaded,    \* dos_list_loaded, and with which flags
          head,      \* dol_Lock of the entry: <<target>>, or <<>> for NULL
          rest,      \* al_Lock of its AssignList
          fresh,     \* nothing has changed since the list was loaded
          changes

vars == <<targets, present, obj, loaded, head, rest, fresh, changes>>

\* a special object is a FIFO, a socket or a device node
Object == {"absent", "file", "dir", "special"}

Init ==
    /\ targets \in {<<t>> : t \in Target}
    /\ present = Target
    /\ obj \in [Target -> {"absent", "file"}]
    /\ loaded = "no" /\ head = <<>> /\ rest = <<>>
    /\ fresh = FALSE /\ changes = 0

-----------------------------------------------------------------------------
\* resolve_assign_target in the broker: the first target that is a directory
Direct == SelectSeq(targets, LAMBDA t : t \in present)

\* fopen("rb") through the retry seam; Open() closes a directory again
Opened(t) ==
    CASE obj[t] = "absent" -> "ENOENT"
      [] obj[t] = "dir"    -> "WRONG_TYPE"
      [] OTHER             -> "opened"

\* native_broker_resolve_path_for_open refuses what is not a file or drawer
refuse_unopenable_object(t) == obj[t] = "special"

\* GetDeviceProc's iteration; a NULL dol_Lock is still a step of it
GetDeviceProc ==
    IF loaded # "assigns" THEN <<>>
    ELSE <<head>> \o [i \in DOMAIN rest |-> <<rest[i]>>]

\* native_union_candidate: nothing beneath a target without a lock
native_union_candidate(d) == IF d = <<>> \/ d[1] \notin present THEN <<>> ELSE d

\* native_union_existing: the directory x is found in, as a sequence
native_union_existing ==
    LET holds == SelectSeq(GetDeviceProc,
                   LAMBDA d : LET c == native_union_candidate(d)
                              IN  c # <<>> /\ obj[c[1]] # "absent")
    IN  IF Direct # <<>> /\ obj[Direct[1]] # "absent" THEN <<Direct[1]>>
        ELSE IF holds # <<>> THEN holds[1] ELSE <<>>

Lock == native_union_existing

\* Open, MODE_OLDFILE.  A candidate that does not resolve leaves open_errno as it
\* was, and the walk goes on only past ENOENT and ENOTDIR.
FirstOnly(err) == <<>>
Walk(err) ==
    LET Step(acc, d) ==
            LET c == native_union_candidate(d)
                e == IF c = <<>> THEN acc.err ELSE Opened(c[1])
            IN  IF acc.done THEN acc
                ELSE [err  |-> e, at |-> IF e = "opened" THEN c ELSE <<>>,
                      done |-> e # "ENOENT"]
    IN  FoldLeft(Step, [err |-> err, at |-> <<>>, done |-> FALSE],
                 GetDeviceProc).at

OpenOld ==
    IF Direct = <<>> THEN Walk("none")
    ELSE IF refuse_unopenable_object(Direct[1]) THEN <<>>
    ELSE IF Opened(Direct[1]) = "opened" THEN <<Direct[1]>>
    ELSE IF Opened(Direct[1]) = "WRONG_TYPE" THEN <<>>
    ELSE Walk("ENOENT")

-----------------------------------------------------------------------------
Changed(b) ==
    /\ changes < MaxChanges
    /\ changes' = changes + 1
    /\ fresh' = (fresh /\ b)

\* MODE_NEWFILE writes beneath the first target alone
OpenNew ==
    /\ Direct # <<>> /\ obj[Direct[1]] \in {"absent", "file"}
    /\ obj' = [obj EXCEPT ![Direct[1]] = "file"]
    /\ Changed(TRUE)
    /\ UNCHANGED <<targets, present, loaded, head, rest>>

\* DeleteFile resolves the name with the broker and makes no walk
DeleteFile ==
    /\ Direct # <<>> /\ obj[Direct[1]] # "absent"
    /\ obj' = [obj EXCEPT ![Direct[1]] = "absent"]
    /\ Changed(TRUE)
    /\ UNCHANGED <<targets, present, loaded, head, rest>>

\* Rename A:x to a name elsewhere takes the object Lock() would find
Rename ==
    /\ native_union_existing # <<>>
    /\ obj' = [obj EXCEPT ![native_union_existing[1]] = "absent"]
    /\ Changed(TRUE)
    /\ UNCHANGED <<targets, present, loaded, head, rest>>

\* The host makes a drawer or a FIFO called x
Make(t, kind) ==
    /\ t \in present /\ obj[t] = "absent"
    /\ obj' = [obj EXCEPT ![t] = kind]
    /\ Changed(TRUE)
    /\ UNCHANGED <<targets, present, loaded, head, rest>>

\* The host removes a whole target, or puts it back
RemoveTarget(t) ==
    /\ present' = IF t \in present THEN present \ {t} ELSE present \cup {t}
    /\ obj' = [obj EXCEPT ![t] = "absent"]
    /\ Changed(FALSE)
    /\ UNCHANGED <<targets, loaded, head, rest>>

\* ASSIGN A: ... ADD, by any process of the session
AssignAdd(t) ==
    /\ t \notin Range(targets) /\ Len(targets) < MaxTargets
    /\ targets' = Append(targets, t)
    /\ Changed(FALSE)
    /\ UNCHANGED <<present, obj, loaded, head, rest>>

\* load_assigns: the first line of an assign makes the entry, with a lock when
\* its directory can be locked; a later line joins the list or is dropped
LoadsFirstOnly ==
    head' = <<targets[1]>> /\ rest' = <<>>
load_assigns ==
    /\ head' = IF targets[1] \in present THEN <<targets[1]>> ELSE <<>>
    /\ rest' = SelectSeq(Tail(targets), LAMBDA t : t \in present)

\* LockDosList: the first caller's flags decide what is loaded, once
LockDosList(flags) ==
    /\ loaded = "no"
    /\ loaded' = flags
    /\ IF flags = "assigns" THEN load_assigns ELSE UNCHANGED <<head, rest>>
    /\ fresh' = TRUE
    /\ UNCHANGED <<targets, present, obj, changes>>

\* the command ends and another one starts with no list
NewProcess ==
    /\ loaded # "no"
    /\ loaded' = "no" /\ head' = <<>> /\ rest' = <<>> /\ fresh' = FALSE
    /\ UNCHANGED <<targets, present, obj, changes>>

Next ==
    \/ OpenNew \/ DeleteFile \/ Rename \/ NewProcess
    \/ \E t \in Target : RemoveTarget(t) \/ AssignAdd(t)
    \/ \E t \in Target, kind \in {"dir", "special"} : Make(t, kind)
    \/ \E flags \in {"assigns", "devices"} : LockDosList(flags)

Spec == Init /\ [][Next]_vars

-----------------------------------------------------------------------------
TypeOK ==
    /\ obj \in [Target -> Object] /\ present \subseteq Target
    /\ Range(targets) \subseteq Target /\ Range(head \o rest) \subseteq Target
    /\ loaded \in {"no", "assigns", "devices"}

\* With a list loaded from the session's present targets, Lock() finds x exactly
\* when some target holds it, in the first target that does: a first target that
\* is missing or empty hides nothing behind it (native_union_existing).
LockSeesEveryTarget ==
    (fresh /\ loaded = "assigns") =>
        LET holding == SelectSeq(targets, LAMBDA t : obj[t] # "absent")
        IN  Lock = (IF holding = <<>> THEN <<>> ELSE <<holding[1]>>)

\* A file Lock() finds is the file Open() opens, in whatever target it is and
\* however old the list is: the walk Open() makes for itself stops no earlier.
OpenFindsWhatLockFinds ==
    (Direct # <<>> /\ Lock # <<>> /\ obj[Lock[1]] = "file") => OpenOld = Lock

\* Open() of a FIFO, socket or device node is refused before anything is opened.
\* The broker refuses the object of the first target only; a candidate of the
\* walk goes to fopen() whatever it is.
SpecialsAreNotOpened ==
    OpenOld # <<>> => obj[OpenOld[1]] # "special"
=============================================================================
