--------------------------- MODULE SessionAssigns ---------------------------
(***************************************************************************)
(* The names one broker session resolves: its assigns, its current         *)
(* directory and its command path, as src/src/broker.c keeps them in       *)
(* struct broker_session and changes them in handle_client().              *)
(*                                                                         *)
(* A host directory is the sequence of its components; `dirs' holds the    *)
(* ones that exist.  A piece of AmigaDOS text is a record: `vol' is what   *)
(* stands before the colon ("" for none, ":" for a lone leading colon),    *)
(* `up' the number of leading slashes and `rel' the components after them. *)
(* A host path stored as text has one leading slash, so read as AmigaDOS   *)
(* text it starts in the parent of the current directory.                  *)
(***************************************************************************)
EXTENDS Naturals, FiniteSets, Sequences, SequencesExt

CONSTANTS
    Universe,     \* the host directories the model knows, prefix closed
    Volume,       \* the name of the one mounted volume, whose root is <<>>
    Clips,        \* the assign resolve_path() repairs by itself, "CLIPS"
    ClipsDir,     \* the clipboard store's host directory
    Boot,         \* assign name -> host directory, as seed_boot_assigns() sets
    Names,        \* the names ASSIGN requests use
    Texts,        \* the AmigaDOS texts requests carry
    MaxAssigns,   \* MAX_ASSIGNS
    MaxTargets,   \* MAX_ASSIGN_TARGETS
    MaxPaths,     \* MAX_COMMAND_PATHS
    MaxOps        \* bound: requests and host changes of one behaviour

VARIABLES
    dirs,         \* host directories that exist
    cwd,          \* session->cwd
    assigns,      \* session->assigns[]
    paths,        \* session->command_paths[], command_path_count of them
    up,           \* FALSE once a request has recursed without end
    ops           \* requests and host changes so far

vars == <<dirs, cwd, assigns, paths, up, ops>>

Slots == 1 .. MaxAssigns

(* ASSIGN_DIRECTORY, ASSIGN_LATE and ASSIGN_NONBINDING, and the zero of a  *)
(* slot memset() has cleared.                                              *)
Types == {"none", "directory", "late", "nonbinding"}

NoText == [vol |-> "", up |-> 0, rel |-> <<>>]

(* A free slot: name[0] is NUL.                                            *)
Empty == [name |-> "", root |-> NoText, targets |-> <<>>, type |-> "none",
          host_backed |-> FALSE]

HostText(d) == [vol |-> "", up |-> 1, rel |-> d]

(* name_from_host_with_mappings(): the volume-qualified DOS name.          *)
Logical(d) == [vol |-> Volume, up |-> 0, rel |-> d]

(***************************************************************************)
(* find_assign() and allocate_assign().  Slots are searched in order; a    *)
(* name that is not there takes the first free slot, cleared.              *)
(***************************************************************************)
find_assign(as, n) == {i \in Slots : as[i].name = n}

FreeSlots(as) == {i \in Slots : as[i].name = ""}

First(S) == CHOOSE i \in S : \A j \in S : i <= j

SlotFor(as, n) ==
    IF find_assign(as, n) # {} THEN find_assign(as, n)
    ELSE IF FreeSlots(as) # {} THEN {First(FreeSlots(as))} ELSE {}

allocate_assign(as, n, i) ==
    IF as[i].name = n THEN as ELSE [as EXCEPT ![i] = [Empty EXCEPT !.name = n]]

(* set_directory_assign(): the path must be a directory, the table must    *)
(* have room; the assign keeps the host path itself.                       *)
set_directory_assign(as, n, d) ==
    IF d \notin dirs \/ SlotFor(as, n) = {} THEN as
    ELSE LET i == First(SlotFor(as, n)) IN
         [as EXCEPT ![i] = [name |-> n, root |-> HostText(d),
                            targets |-> <<HostText(d)>>, type |-> "directory",
                            host_backed |-> TRUE]]

(***************************************************************************)
(* Resolution.  An answer is the path (a host directory name, which need   *)
(* not exist, or Failed, or Endless) and what resolving changed on the     *)
(* way: the slots whose late assign found its directory, and whether       *)
(* CLIPS: was repaired.                                                    *)
(***************************************************************************)
Failed == <<"failed">>
Endless == <<"endless">>

Answer(p, b) == [path |-> p, bound |-> b]

(* pop_host_component(), n times: the root's parent is the root.           *)
Pop(d, n) == SubSeq(d, 1, IF Len(d) > n THEN Len(d) - n ELSE 0)

(* resolve_path() once the base of every assign is known.  CLIPS: that is  *)
(* missing answers for the store, if the store and the table have room.    *)
PathOf(as, bases, t) ==
    IF t.vol = "" THEN Answer(Pop(cwd, t.up) \o t.rel, {})
    ELSE IF t.vol = ":" THEN Answer(t.rel, {})
    ELSE IF find_assign(as, t.vol) # {}
      THEN LET b == bases[First(find_assign(as, t.vol))]
           IN  IF b.path \in {Failed, Endless} THEN b
               ELSE Answer(b.path \o t.rel, b.bound)
    ELSE IF t.vol = Clips /\ ClipsDir \in dirs /\ FreeSlots(as) # {}
      THEN Answer(ClipsDir \o t.rel, {0})
    ELSE IF t.vol = Volume THEN Answer(t.rel, {})
    ELSE Answer(Failed, {})

(* resolve_assign_target(): the first target that exists, the root when    *)
(* there is no target list.  What it resolves by name it resolves with     *)
(* resolve_path() again.                                                   *)
resolve_assign_target(as, inner, i) ==
    LET e == as[i]
        list == IF e.targets = <<>> THEN <<e.root>> ELSE e.targets
        Try(acc, t) ==
            IF acc.path # Failed THEN acc
            ELSE LET r == IF e.host_backed THEN Answer(t.rel, {})
                          ELSE PathOf(as, inner, t)
                     b == acc.bound \cup r.bound
                 IN  IF r.path = Endless THEN Answer(Endless, b)
                     ELSE IF r.path \in dirs THEN Answer(r.path, b \cup {i})
                     ELSE Answer(Failed, b)
    IN  FoldLeft(Try, Answer(Failed, {}), list)

(* The call resolve_path() -> resolve_assign_target() -> resolve_path()    *)
(* carries no argument that shrinks.  A chain of more assigns than the     *)
(* table holds has met one of them twice and never returns.                *)
Bases(as) ==
    LET B[n \in 0 .. MaxAssigns] ==
            IF n = 0 THEN [i \in Slots |-> Answer(Endless, {})]
            ELSE [i \in Slots |-> resolve_assign_target(as, B[n-1], i)]
    IN  B[MaxAssigns]

resolve_path(as, t) == PathOf(as, Bases(as), t)

(* What resolving leaves in the table.                                     *)
Bound(as, b) ==
    LET repaired == IF 0 \in b THEN set_directory_assign(as, Clips, ClipsDir)
                    ELSE as
    IN  [i \in Slots |->
            IF i \in b /\ repaired[i].type = "late"
            THEN [repaired[i] EXCEPT !.type = "directory"] ELSE repaired[i]]

(* canonical_assign_target(): what stands in the assign is the canonical   *)
(* DOS name of the directory the value resolves to.                        *)
StoredAsGiven(t, d) == t
StoredTarget(t, d) == Logical(d)

(***************************************************************************)
(* Requests.                                                               *)
(***************************************************************************)
Step == up /\ ops < MaxOps /\ ops' = ops + 1

(* A request that resolves t in the table as: it never returns, it fails   *)
(* with the table as resolving left it, or it goes on.                     *)
Resolving(as, t, Then(_, _)) ==
    LET r == resolve_path(as, t)
    IN  IF r.path = Endless
        THEN up' = FALSE /\ UNCHANGED <<dirs, cwd, assigns, paths>>
        ELSE up' = up /\ dirs' = dirs /\ Then(r.path, Bound(as, r.bound))

(* RESOLVE.                                                                *)
Resolve(t) ==
    /\ Step
    /\ Resolving(assigns, t, LAMBDA p, as :
           assigns' = as /\ UNCHANGED <<cwd, paths>>)

(* SETCWD, by name and (PATH_HOST) by host path.                           *)
SetCwd(t) ==
    /\ Step
    /\ Resolving(assigns, t, LAMBDA p, as :
           /\ assigns' = as
           /\ cwd' = IF p \in dirs THEN p ELSE cwd
           /\ paths' = paths)

SetCwdHost(d) ==
    /\ Step
    /\ cwd' = IF d \in dirs THEN d ELSE cwd
    /\ UNCHANGED <<dirs, assigns, paths, up>>

(* settle_current_directory(), called by GETCWD: up to the nearest         *)
(* ancestor that exists.                                                   *)
Settled(d) == d[CHOOSE n \in DOMAIN d :
                   d[n] \in dirs /\ \A m \in DOMAIN d : m < n => d[m] \notin dirs]

settle_current_directory(d) == Settled([n \in 1 .. Len(d) + 1 |-> Pop(d, n - 1)])

GetCwd ==
    /\ Step
    /\ cwd' = settle_current_directory(cwd)
    /\ UNCHANGED <<dirs, assigns, paths, up>>

(* ASSIGN with ASSIGN_REMOVE: the whole entry.                             *)
AssignRemove(n) ==
    /\ Step
    /\ assigns' = [i \in Slots |-> IF assigns[i].name = n THEN Empty
                                   ELSE assigns[i]]
    /\ UNCHANGED <<dirs, cwd, paths, up>>

(* ASSIGN with ASSIGN_REMOVE_ITEM: one target; the last one takes the      *)
(* entry with it.  `root' is left as it was.                               *)
WithoutItem(e, t) ==
    LET hit == {k \in DOMAIN e.targets : e.targets[k] = t}
        left == IF hit = {} THEN e.targets ELSE RemoveAt(e.targets, First(hit))
    IN  IF left = <<>> THEN Empty ELSE [e EXCEPT !.targets = left]

AssignRemoveItem(n, t) ==
    /\ Step
    /\ find_assign(assigns, n) # {}
    /\ Resolving(assigns, t, LAMBDA p, as :
           /\ assigns' = IF p \notin dirs THEN as
                         ELSE [as EXCEPT ![First(find_assign(as, n))] =
                                 WithoutItem(@, StoredTarget(t, p))]
           /\ UNCHANGED <<cwd, paths>>)

(* ASSIGN with ASSIGN_ADD or ASSIGN_PREPEND.                               *)
WithItem(e, t, prepend) ==
    LET list == IF prepend THEN <<t>> \o e.targets ELSE Append(e.targets, t)
    IN  [e EXCEPT !.targets = list, !.root = list[1], !.type = "directory",
                  !.host_backed = FALSE]

AssignAdd(n, t, prepend) ==
    /\ Step
    /\ find_assign(assigns, n) # {}
    /\ Len(assigns[First(find_assign(assigns, n))].targets) < MaxTargets
    /\ Resolving(assigns, t, LAMBDA p, as :
           /\ assigns' = IF p \notin dirs THEN as
                         ELSE [as EXCEPT ![First(find_assign(as, n))] =
                                 WithItem(@, StoredTarget(t, p), prepend)]
           /\ UNCHANGED <<cwd, paths>>)

(* ASSIGN with ASSIGN_PATH or ASSIGN_DEFER: the text as it is, unresolved. *)
AssignDeferred(n, t, type) ==
    /\ Step
    /\ SlotFor(assigns, n) # {}
    /\ assigns' = [assigns EXCEPT ![First(SlotFor(assigns, n))] =
                     [Empty EXCEPT !.name = n, !.root = t, !.type = type]]
    /\ UNCHANGED <<dirs, cwd, paths, up>>

(* ASSIGN of a directory.  The entry is allocated before the value is      *)
(* resolved, and stays when resolving fails.                               *)
Assign(n, t) ==
    /\ Step
    /\ SlotFor(assigns, n) # {}
    /\ LET i == First(SlotFor(assigns, n))
       IN  Resolving(allocate_assign(assigns, n, i), t, LAMBDA p, as :
             /\ assigns' = IF p \notin dirs THEN as
                           ELSE LET s == StoredTarget(t, p) IN
                                [as EXCEPT ![i] =
                                   [name |-> n, root |-> s, targets |-> <<s>>,
                                    type |-> "directory",
                                    host_backed |-> FALSE]]
             /\ UNCHANGED <<cwd, paths>>)

\* A mutated NewPaths: a full list takes one more.
NewPathsUnbounded(list, p, mode) ==
    LET at == {k \in DOMAIN list : list[k] = p}
    IN  CASE mode = "remove" /\ at # {} -> RemoveAt(list, First(at))
          [] mode = "prepend" /\ at = {} -> <<p>> \o list
          [] mode = "append" /\ at = {} -> Append(list, p)
          [] OTHER -> list

(* PATH: reset first, then the named directory goes in or out.  The list   *)
(* holds canonical host paths and no path twice.                           *)
NewPaths(list, p, mode) ==
    LET at == {k \in DOMAIN list : list[k] = p}
    IN  CASE mode = "remove" /\ at # {} -> RemoveAt(list, First(at))
          [] mode = "prepend" /\ at = {} /\ Len(list) < MaxPaths -> <<p>> \o list
          [] mode = "append" /\ at = {} /\ Len(list) < MaxPaths -> Append(list, p)
          [] OTHER -> list

Path(t, mode, reset) ==
    /\ Step
    /\ Resolving(assigns, t, LAMBDA p, as :
           LET list == IF reset THEN <<>> ELSE paths
           IN  /\ assigns' = as
               /\ paths' = IF p \in dirs THEN NewPaths(list, p, mode) ELSE list
               /\ cwd' = cwd)

PathReset ==
    /\ Step
    /\ paths' = <<>>
    /\ UNCHANGED <<dirs, cwd, assigns, up>>

(* The host's file system changes under the session.                       *)
HostRemoves(d) ==
    /\ Step
    /\ d \in dirs \ {<<>>}
    /\ \A x \in dirs : x # d => ~ IsPrefix(d, x)
    /\ dirs' = dirs \ {d}
    /\ UNCHANGED <<cwd, assigns, paths, up>>

HostMakes(d) ==
    /\ Step
    /\ d \in Universe \ dirs
    /\ Pop(d, 1) \in dirs
    /\ dirs' = dirs \cup {d}
    /\ UNCHANGED <<cwd, assigns, paths, up>>

-----------------------------------------------------------------------------
(* get_session(): a fresh session stands in the broker's own directory and *)
(* holds the boot assigns.                                                 *)
BootOrder == SetToSeq(DOMAIN Boot)

Init ==
    /\ dirs = Universe
    /\ cwd = <<>>
    /\ assigns = [i \in Slots |->
         IF i \in DOMAIN BootOrder
         THEN LET n == BootOrder[i] IN
              [name |-> n, root |-> HostText(Boot[n]),
               targets |-> <<HostText(Boot[n])>>, type |-> "directory",
               host_backed |-> TRUE]
         ELSE Empty]
    /\ paths = <<>>
    /\ up = TRUE
    /\ ops = 0

Next ==
    \/ \E t \in Texts : Resolve(t) \/ SetCwd(t)
    \/ \E d \in Universe : SetCwdHost(d)
    \/ GetCwd
    \/ \E n \in Names : AssignRemove(n)
    \/ \E n \in Names, t \in Texts : AssignRemoveItem(n, t)
    \/ \E n \in Names, t \in Texts, b \in BOOLEAN : AssignAdd(n, t, b)
    \/ \E n \in Names, t \in Texts, k \in {"late", "nonbinding"} :
          AssignDeferred(n, t, k)
    \/ \E n \in Names, t \in Texts : Assign(n, t)
    \/ \E t \in Texts, m \in {"append", "prepend", "remove"}, r \in BOOLEAN :
          Path(t, m, r)
    \/ PathReset
    \/ \E d \in Universe : HostRemoves(d) \/ HostMakes(d)

Spec == Init /\ [][Next]_vars

-----------------------------------------------------------------------------
Text == [vol : Names \cup {"", ":", Volume, Clips}, up : 0 .. 1,
         rel : Universe \cup {t.rel : t \in Texts}]

(* The variables hold what struct broker_session can hold.                 *)
TypeOK ==
    /\ dirs \subseteq Universe /\ <<>> \in dirs
    /\ cwd \in Universe
    /\ \A i \in Slots :
         /\ assigns[i].name \in Names \cup {"", Clips} \cup DOMAIN Boot
         /\ assigns[i].root \in Text
         /\ \A k \in DOMAIN assigns[i].targets : assigns[i].targets[k] \in Text
         /\ Len(assigns[i].targets) <= MaxTargets
         /\ assigns[i].type \in Types
         /\ assigns[i].host_backed \in BOOLEAN
    /\ \A k \in DOMAIN paths : paths[k] \in Universe
    /\ Len(paths) <= MaxPaths
    /\ up \in BOOLEAN /\ ops \in 0 .. MaxOps

(* resolve_path() and resolve_assign_target() call each other without a    *)
(* depth limit.  A request can fail to return only when the session holds  *)
(* an assign whose text was never resolved (PATH or DEFER), or one that    *)
(* hides the volume its own target is named by.                            *)
EndlessOnlyByDeferral ==
    up \/ \E i \in Slots : \/ assigns[i].type \in {"late", "nonbinding"}
                           \/ assigns[i].type = "directory"
                                /\ assigns[i].targets = <<>>
                           \/ assigns[i].name = Volume

(* A bound assign that neither hides the volume nor mixes a boot-time host *)
(* path with an added directory.                                           *)
Steady(as, i) ==
    /\ as[i].targets # <<>>
    /\ find_assign(as, Volume) = {}
    /\ \/ as[i].host_backed
       \/ \A k \in DOMAIN as[i].targets : as[i].targets[k].up = 0

(* A step that leaves assign and directories alone leaves its path alone.  *)
StandsStill ==
    \A i \in Slots :
        (assigns' = assigns /\ dirs' = dirs /\ Steady(assigns, i))
            => Bases(assigns)[i].path = Bases(assigns)'[i].path

(* A directory assign stands still: moving the current directory changes   *)
(* neither where a bound assign leads nor whether it leads anywhere.       *)
(* (Not for an assign that hides the volume, nor for one to which a        *)
(* directory was added while it still held its boot-time host path.)       *)
BoundAssignsStandStill == [][StandsStill]_vars

(* "Store a canonical, volume-qualified DOS target" (the ASSIGN case): a   *)
(* target that is resolved as DOS text is volume-qualified.                *)
TargetsAreDosNames ==
    \A i \in Slots : ~ assigns[i].host_backed =>
       \A k \in DOMAIN assigns[i].targets : assigns[i].targets[k].vol = Volume
=============================================================================
