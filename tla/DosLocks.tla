------------------------------ MODULE DosLocks ------------------------------
(***************************************************************************)
(* Directory locks and the current directory of a shell process             *)
(* (native_dos.c).  The current directory lives in the broker and is shared *)
(* by every process of the session; a process only keeps a lock that names  *)
(* it, native_current_dir, which may be the caller's own pointer.  Cli()    *)
(* rebuilds the list of command drawers from the broker and frees the one   *)
(* before; the Shell searches that list by standing on its locks in turn.   *)
(*                                                                         *)
(* Lock 0 is native_initial_dir, which is static; the others are heap locks.*)
(***************************************************************************)
EXTENDS Integers, Sequences, FiniteSets, SequencesExt

CONSTANTS Dir,          \* the drawers of the host
          Drawers,      \* the session's command path, the C: drawer last
          Home,         \* where the session starts
          MaxLocks      \* heap locks alive at once

VARIABLES exists,       \* drawers the host still has
          bcwd,         \* the session's current directory, in the broker
          path,         \* what each lock names
          live,         \* heap locks allocated
          current,      \* native_current_dir
          list,         \* cli_CommandDir
          saved,        \* what the Shell's search will put back, or NoLock
          asked         \* the directory the user last chose

vars == <<exists, bcwd, path, live, current, list, saved, asked>>

NoLock == -1
Initial == 0
Lock == 0 .. MaxLocks

Init ==
    /\ exists = Dir
    /\ bcwd = Home /\ asked = Home
    /\ path = [l \in Lock |-> Home]
    /\ live = {} /\ current = NoLock /\ list = <<>> /\ saved = NoLock

-----------------------------------------------------------------------------
\* native_sync_current_dir: the lock the process stands on is rewritten in place
TrustsItsLock(p, c) ==
    [path |-> IF c = NoLock THEN [p EXCEPT ![Initial] = bcwd] ELSE p,
     current |-> IF c = NoLock THEN Initial ELSE c]
native_sync_current_dir(p, c) ==
    LET l == IF c = NoLock THEN Initial ELSE c
    IN  [path |-> [p EXCEPT ![l] = bcwd], current |-> l]

\* CurrentDir: the broker refuses a drawer that is gone, and then nothing changes
CurrentDir(l) ==
    LET s == native_sync_current_dir(path, current)
        ok == l # NoLock /\ s.path[l] \in exists
    IN  [path    |-> s.path,
         current |-> IF ok THEN l ELSE s.current,
         bcwd    |-> IF ok THEN s.path[l] ELSE bcwd,
         old     |-> IF ok \/ l = NoLock THEN s.current ELSE NoLock]

Stands(r) == path' = r.path /\ current' = r.current /\ bcwd' = r.bcwd

-----------------------------------------------------------------------------
\* UnLock: the initial lock is process state, not a heap lock
UnLock(ls) == live \ (ls \ {Initial})

FreesTheList(c) == c
free_cli_path_list(c) == IF c \in Range(list) THEN NoLock ELSE c

\* refresh_cli_path_list: a drawer of the path that is gone keeps the old list;
\* a missing C: is only left out
NewDrawers == SelectSeq(Drawers, LAMBDA d : d \in exists)
refresh_cli_path_list ==
    LET n     == Len(NewDrawers)
        fresh == SetToSortSeq(1 .. MaxLocks \ live, LAMBDA a, b : a < b)
        ids   == SubSeq(fresh, 1, n)
    IN  IF \E d \in Range(Front(Drawers)) : d \notin exists
        THEN UNCHANGED <<path, live, current, list>>
        ELSE /\ Len(fresh) >= n
             /\ path' = [l \in Lock |-> IF l \in Range(ids)
                                        THEN NewDrawers[CHOOSE i \in 1 .. n : ids[i] = l]
                                        ELSE path[l]]
             /\ live' = UnLock(Range(list)) \cup Range(ids)
             /\ current' = free_cli_path_list(current)
             /\ list' = ids

Cli ==
    /\ saved = NoLock
    /\ refresh_cli_path_list
    /\ UNCHANGED <<exists, bcwd, saved, asked>>

-----------------------------------------------------------------------------
(* The Shell's search for a command (AROS's loadCommand): it keeps the      *)
(* current directory, stands on the drawers of the list in turn, and puts   *)
(* the first one back.  The drawer it came from may be deleted meanwhile.   *)
BeginSearch ==
    /\ saved = NoLock /\ list # <<>>
    /\ LET r == CurrentDir(NoLock) IN Stands(r) /\ saved' = r.old
    /\ UNCHANGED <<exists, live, list, asked>>

StandOn(k) ==
    /\ saved # NoLock
    /\ Stands(CurrentDir(list[k]))
    /\ UNCHANGED <<exists, live, list, saved, asked>>

EndSearch ==
    /\ saved # NoLock
    /\ Stands(CurrentDir(saved))
    /\ saved' = NoLock
    /\ asked' = IF asked \in exists THEN asked ELSE bcwd'
    /\ UNCHANGED <<exists, live, list>>

\* the CD command: a pattern must match one directory, and one only
cd_find_directory(matches) ==
    IF Cardinality(matches \cap exists) = 1 THEN matches \cap exists ELSE {}

ChildCd(matches) ==
    /\ saved = NoLock
    /\ \E d \in cd_find_directory(matches) : bcwd' = d /\ asked' = d
    /\ UNCHANGED <<exists, path, live, current, list, saved>>

\* any process of the host removes a drawer; the last one stays
Delete(d) ==
    /\ d \in exists /\ exists # {d}
    /\ exists' = exists \ {d}
    /\ UNCHANGED <<bcwd, path, live, current, list, saved, asked>>

Next ==
    \/ Cli
    \/ BeginSearch \/ EndSearch
    \/ \E k \in DOMAIN list : StandOn(k)
    \/ \E matches \in SUBSET Dir : ChildCd(matches)
    \/ \E d \in Dir : Delete(d)

Spec == Init /\ [][Next]_vars

-----------------------------------------------------------------------------
TypeOK ==
    /\ exists \subseteq Dir /\ bcwd \in Dir /\ asked \in Dir
    /\ path \in [Lock -> Dir]
    /\ live \subseteq 1 .. MaxLocks
    /\ current \in Lock \cup {NoLock} /\ saved \in Lock \cup {NoLock}
    /\ Range(list) \subseteq live

\* The process never stands on a lock that has been freed: a shell whose drawer
\* was deleted under it is left on a lock of the command list, and the next
\* Cli() frees that list (free_cli_path_list).
StandsOnALiveLock == current \in live \cup {NoLock, Initial}

\* The directory a command chose is still the session's when the Shell has
\* searched its path, as long as that drawer exists (native_sync_current_dir:
\* the Shell would otherwise put back the directory from before the command).
ChosenDirectoryStays == saved = NoLock => bcwd = asked
=============================================================================
