------------------------------- MODULE DosScan -------------------------------
(***************************************************************************)
(* Listing a drawer (native_dos.c): Examine() opens the host directory on   *)
(* the lock and ExNext() reads it forward, one entry a call.  AROS's        *)
(* ExAll(), the caller of Dir and of every command that lists, fills a      *)
(* buffer of Room entries a call; an entry that does not fit is given back  *)
(* by lowering fib_DiskKey by one, and the next call must see it again.  A  *)
(* host directory can hold names AmigaDOS cannot spell, and entries that    *)
(* are removed between readdir() and stat().                                *)
(***************************************************************************)
EXTENDS Integers, Sequences, FiniteSets, SequencesExt

CONSTANTS MaxEntries, Room, MaxScans

VARIABLES dir,       \* the host directory, in readdir() order
          scan,      \* lock->scan: the next entry of the open DIR, 0 when closed
          key,       \* lock->scan_key
          prev,      \* lock->scan_prev_pos
          fib,       \* fib_DiskKey of the caller's block
          batch,     \* entries in ExAll's buffer
          listed,    \* what the caller has collected since Examine()
          break,     \* Ctrl-C is pending
          ended,     \* why the last scan ended
          scans

vars == <<dir, scan, key, prev, fib, batch, listed, break, ended, scans>>

Kind == {"plain", "unspellable", "deep"}
Entries == 1 .. Len(dir)

Init ==
    /\ dir \in UNION {[1 .. n -> Kind] : n \in 0 .. MaxEntries}
    /\ scan = 0 /\ key = 0 /\ prev = 0 /\ fib = 0 /\ batch = 0
    /\ listed = <<>> /\ break = FALSE /\ ended = "none" /\ scans = 0

-----------------------------------------------------------------------------
\* Examine on a directory (re)starts the scan
Examine ==
    /\ scans < MaxScans
    /\ scans' = scans + 1
    /\ scan' = 1 /\ key' = 0 /\ prev' = 1
    /\ listed' = <<>> /\ batch' = 0 /\ ended' = "none"
    /\ UNCHANGED <<dir, fib, break>>

-----------------------------------------------------------------------------
\* the entry ExAll gave back is read again
Forward(f) == [at |-> scan, key |-> key]
Replay(f) ==
    IF key > 0 /\ f = key - 1 THEN [at |-> prev, key |-> key - 1]
                              ELSE [at |-> scan, key |-> key]

\* native_fill_fib succeeds, or the name has no spelling and the scan goes on; an
\* entry that has gone, or whose host path is too long, fails the whole scan
native_fill_fib(i) ==
    CASE dir[i] = "plain"       -> "filled"
      [] dir[i] = "unspellable" -> "skip"
      [] OTHER                  -> "error"

StepsOver(at) ==
    LET S == {i \in at .. Len(dir) : native_fill_fib(i) # "skip"}
    IN  IF S = {} THEN 0
        ELSE IF Min(S) > at /\ Min(S) < Len(dir) THEN Min(S) + 1 ELSE Min(S)
NextShown(at) ==
    LET S == {i \in at .. Len(dir) : native_fill_fib(i) # "skip"}
    IN  IF S = {} THEN 0 ELSE Min(S)

\* ExAll puts the entry into its buffer, or gives it back to the lock
Buffered(i) ==
    IF batch < Room
    THEN batch' = batch + 1 /\ listed' = Append(listed, i) /\ fib' = key'
    ELSE batch' = 0 /\ listed' = listed /\ fib' = key' - 1

ExNext ==
    LET r == Replay(fib)
        i == NextShown(r.at)
    IN  IF break
        THEN /\ ended' = "break"
             /\ UNCHANGED <<scan, key, prev, fib, batch, listed>>
        ELSE IF i = 0
        THEN /\ scan' = 0 /\ key' = r.key /\ ended' = "no more entries"
             /\ fib' \in {fib, 0}
             /\ UNCHANGED <<prev, batch, listed>>
        ELSE IF native_fill_fib(i) = "error"
        THEN /\ scan' = i + 1 /\ key' = r.key /\ ended' = "error"
             /\ UNCHANGED <<prev, fib, batch, listed>>
        ELSE /\ scan' = i + 1 /\ prev' = i /\ key' = r.key + 1
             /\ ended' = ended
             /\ Buffered(i)

\* ExAll, for one entry
ExAllEntry ==
    /\ scan > 0 /\ ended = "none"
    /\ ExNext
    /\ UNCHANGED <<dir, break, scans>>

\* The host removes an entry the scan has yet to read
Removed(i) ==
    /\ dir[i] = "plain" /\ i \notin Range(listed)
    /\ dir' = [dir EXCEPT ![i] = "gone"]
    /\ UNCHANGED <<scan, key, prev, fib, batch, listed, break, ended, scans>>

\* Ctrl-C is typed, and the command that was listing takes the signal
Break ==
    /\ break' = ~break
    /\ break => ended = "break"
    /\ UNCHANGED <<dir, scan, key, prev, fib, batch, listed, ended, scans>>

Next ==
    \/ Examine
    \/ ExAllEntry
    \/ \E i \in Entries : Removed(i)
    \/ Break

Spec == Init /\ [][Next]_vars

-----------------------------------------------------------------------------
TypeOK ==
    /\ scan \in 0 .. MaxEntries + 1 /\ prev \in 0 .. MaxEntries
    /\ key \in 0 .. MaxEntries /\ fib \in 0 .. MaxEntries /\ batch \in 0 .. Room
    /\ ended \in {"none", "break", "no more entries", "error"}

\* What a command has listed is the directory's entries from the first on, each
\* once and in order, leaving out only names without a spelling: an entry that
\* did not fit ExAll's buffer is neither lost nor listed twice (ExNext's replay),
\* and a name that cannot be spelled costs that entry alone.
ListedOnceInOrder ==
    LET upto == IF listed = <<>> THEN 0 ELSE Last(listed)
        all  == SelectSeq([i \in 1 .. upto |-> i], LAMBDA i : native_fill_fib(i) # "skip")
    IN  listed = all

\* A scan that ended with ERROR_NO_MORE_ENTRIES has listed every entry whose name
\* can be spelled.
EndIsTheEnd ==
    ended = "no more entries" =>
        \A i \in Entries : dir[i] = "plain" => i \in Range(listed)
=============================================================================
