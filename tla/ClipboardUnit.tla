--------------------------- MODULE ClipboardUnit ---------------------------
(***************************************************************************)
(* Unit 0 of clipboard.device (src/clipboard_device.c) in several command  *)
(* processes, the CLIPS: backing file they share and the host's text       *)
(* clipboard (src/clipboard_bridge.c).  Every process caches the unit under*)
(* a mutex; the file is replaced atomically under flock(); the host text is*)
(* read before a read and written after an update, outside both.           *)
(*                                                                         *)
(* A clip is a sequence of two blocks, each naming who wrote it; a clip    *)
(* written by an Opaque client holds no FTXT and so has no host text.      *)
(***************************************************************************)
EXTENDS Naturals, Sequences, FiniteSets

CONSTANTS
    Writer, Reader, ProcessOf,   \* clients and the process each runs in
    Opaque,                      \* writers whose clips are not text
    MaxOps, MaxHost              \* requests begun; copies made in the host

Client == Writer \cup Reader
Process == {ProcessOf[c] : c \in Client}
NoClip == <<>>
Clip(who, n) == <<<<who, n, 1>>, <<who, n, 2>>>>
IsText(clip) == clip # NoClip /\ clip[1][1] \notin Opaque

VARIABLES
    store, host,           \* the backing file; the host's text, as a clip
    committed, pending,    \* per process: the cache, the write in progress
    write_id, read_id, post_id, write_active,
    locked,                \* the client that holds the mutex across steps
    at, io_ClipID, carried, asleep, woken,   \* per client
    taken,                 \* per reader: the blocks it has been given
    newest,                \* history: who copied last, an ACE client or the host
    ops, copies            \* history and bounds

unit == <<committed, pending, write_id, read_id, post_id, write_active, locked>>
vars == <<store, host, unit, at, io_ClipID, carried, asleep, woken, taken, newest,
          ops, copies>>

Init ==
    /\ store = NoClip /\ host = Clip("host", 0)
    /\ committed = [p \in Process |-> NoClip] /\ pending = committed
    /\ write_id = [p \in Process |-> 0]
    /\ read_id = write_id /\ post_id = write_id
    /\ write_active = [p \in Process |-> FALSE]
    /\ locked = [p \in Process |-> "none"]
    /\ at = [c \in Client |-> "idle"] /\ io_ClipID = [c \in Client |-> 0]
    /\ carried = [c \in Client |-> NoClip] /\ taken = carried
    /\ asleep = [c \in Client |-> FALSE] /\ woken = asleep
    /\ newest = "host" /\ ops = 0 /\ copies = 0

Free(c) == locked[ProcessOf[c]] = "none"
Goes(c, where) == at' = [at EXCEPT ![c] = where]
\* pthread_cond_broadcast on the unit of process p.
Broadcast(p) ==
    woken' = [c \in Client |-> woken[c] \/ (asleep[c] /\ ProcessOf[c] = p)]

\* ---- Writing

FirstBlock(c) == io_ClipID[c] = 0 \/ io_ClipID[c] = post_id[ProcessOf[c]]
Trusting(c) == write_active[ProcessOf[c]]
MayGoOn(c) ==
    write_active[ProcessOf[c]] /\ io_ClipID[c] = write_id[ProcessOf[c]]

\* CMD_WRITE: the first block opens a transaction and drops any other one's
\* bytes, a later block needs the transaction still to be its own.
write_clip(c) ==
    LET p == ProcessOf[c] IN
    /\ c \in Writer /\ Free(c) /\ at[c] \in {"idle", "posted", "half"}
    /\ at[c] = "idle" => ops < MaxOps
    /\ ops' = IF at[c] = "idle" THEN ops + 1 ELSE ops
    /\ IF at[c] \in {"idle", "posted"} /\ FirstBlock(c)
       THEN /\ write_id' = [write_id EXCEPT ![p] =
                              IF io_ClipID[c] = 0 THEN @ + 1 ELSE @]
            /\ io_ClipID' = [io_ClipID EXCEPT ![c] = write_id'[p]]
            /\ post_id' = [post_id EXCEPT ![p] = 0]
            /\ pending' = [pending EXCEPT ![p] = <<Clip(c, ops')[1]>>]
            /\ write_active' = [write_active EXCEPT ![p] = TRUE]
            /\ Goes(c, "half")
       ELSE IF at[c] = "half" /\ MayGoOn(c)
       THEN /\ pending' = [pending EXCEPT ![p] =
                             SubSeq(@, 1, 1) \o <<Clip(c, @[1][2])[2]>>]
            /\ Goes(c, "written")
            /\ UNCHANGED <<write_id, post_id, write_active, io_ClipID>>
       ELSE /\ Goes(c, "idle") /\ io_ClipID' = [io_ClipID EXCEPT ![c] = 0]
            /\ UNCHANGED <<write_id, post_id, write_active, pending>>
    /\ UNCHANGED <<store, host, committed, read_id, locked, carried, asleep,
                   woken, taken, newest, copies>>

\* CMD_UPDATE holds the unit's mutex over the commit to the file and the copy
\* to the host; an aborted transaction ends here, a failed commit leaves it.
update_clip(c) ==
    LET p == ProcessOf[c] IN
    /\ at[c] = "written" /\ Free(c)
    /\ IF ~MayGoOn(c)
       THEN /\ Goes(c, "idle") /\ io_ClipID' = [io_ClipID EXCEPT ![c] = 0]
            /\ UNCHANGED <<locked, store, newest>>
       ELSE \/ /\ store' = pending[p] /\ newest' = "clip" /\ Goes(c, "stored")
               /\ locked' = [locked EXCEPT ![p] = c] /\ UNCHANGED io_ClipID
            \/ /\ Goes(c, "idle") /\ io_ClipID' = [io_ClipID EXCEPT ![c] = 0]
               /\ UNCHANGED <<locked, store, newest>>
    /\ UNCHANGED <<host, committed, pending, write_id, read_id, post_id,
                   write_active, carried, asleep, woken, taken, ops, copies>>
\* ace_clipboard_store_commit's second half, then the cache and the waiters.
MirrorAndPublish(c) ==
    LET p == ProcessOf[c] IN
    /\ at[c] = "stored"
    /\ host' = IF IsText(pending[p]) THEN pending[p] ELSE host
    /\ committed' = [committed EXCEPT ![p] = pending[p]]
    /\ pending' = [pending EXCEPT ![p] = NoClip]
    /\ write_active' = [write_active EXCEPT ![p] = FALSE]
    /\ post_id' = [post_id EXCEPT ![p] = 0]
    /\ locked' = [locked EXCEPT ![p] = "none"]
    /\ io_ClipID' = [io_ClipID EXCEPT ![c] = 0] /\ Goes(c, "idle")
    /\ Broadcast(p)
    /\ UNCHANGED <<store, write_id, read_id, carried, asleep, taken, ops, newest, copies>>

\* CBD_POST promises a clip without writing it yet.
Post(c) ==
    LET p == ProcessOf[c] IN
    /\ c \in Writer /\ at[c] = "idle" /\ Free(c) /\ ops < MaxOps /\ ops' = ops + 1
    /\ write_id' = [write_id EXCEPT ![p] = @ + 1]
    /\ post_id' = [post_id EXCEPT ![p] = write_id'[p]]
    /\ io_ClipID' = [io_ClipID EXCEPT ![c] = write_id'[p]] /\ Goes(c, "posted")
    /\ Broadcast(p)
    /\ UNCHANGED <<store, host, committed, pending, read_id, write_active,
                   locked, carried, asleep, taken, newest, copies>>

\* ---- Reading

\* ace_clipboard_host_refresh, without the unit's mutex: read the host ...
HostRead(c) ==
    /\ c \in Reader /\ at[c] = "idle" /\ ops < MaxOps /\ ops' = ops + 1
    /\ io_ClipID' = [io_ClipID EXCEPT ![c] = 0]
    /\ taken' = [taken EXCEPT ![c] = NoClip]
    /\ carried' = [carried EXCEPT ![c] = host] /\ Goes(c, "compare")
    /\ UNCHANGED <<store, host, unit, asleep, woken, newest, copies>>
\* ... compare it with the text of the stored clip ...
CompareText(c) ==
    /\ at[c] = "compare"
    /\ Goes(c, IF IsText(store) /\ store = carried[c] THEN "load" ELSE "import")
    /\ UNCHANGED <<store, host, unit, io_ClipID, carried, asleep, woken, taken,
                   ops, newest, copies>>
\* ... and store it as a clip of its own where they differ.
Import(c) ==
    /\ at[c] = "import" /\ store' = carried[c] /\ Goes(c, "load")
    /\ UNCHANGED <<host, unit, io_ClipID, carried, asleep, woken, taken, ops,
                   newest, copies>>
LoadStore(c) ==
    /\ at[c] = "load" /\ carried' = [carried EXCEPT ![c] = store]
    /\ Goes(c, "cache")
    /\ UNCHANGED <<store, host, unit, io_ClipID, asleep, woken, taken, ops,
                   newest, copies>>

RefreshQuietly(p) == woken' = woken
RefreshBroadcast(p) == Broadcast(p)
\* refresh_unit_from_store: a changed clip is a new generation, which ends a
\* write or a post in progress.
refresh_unit_from_store(c) ==
    LET p == ProcessOf[c] IN
    /\ at[c] = "cache" /\ Free(c) /\ Goes(c, "read")
    /\ IF carried[c] = committed[p]
       THEN UNCHANGED <<committed, write_id, post_id, woken>>
       ELSE /\ committed' = [committed EXCEPT ![p] = carried[c]]
            /\ write_id' = [write_id EXCEPT ![p] = @ + 1]
            /\ post_id' = [post_id EXCEPT ![p] = 0] /\ RefreshBroadcast(p)
    /\ UNCHANGED <<store, host, pending, read_id, write_active, locked,
                   io_ClipID, carried, asleep, taken, ops, newest, copies>>

Posted(p) == post_id[p] # 0 /\ post_id[p] = write_id[p]

\* read_clip under the mutex: sleep while the current clip is only promised,
\* else take a read id and the first block.
read_clip(c) ==
    LET p == ProcessOf[c] IN
    /\ at[c] = "read" /\ Free(c) /\ (asleep[c] => woken[c])
    /\ woken' = [woken EXCEPT ![c] = FALSE]
    /\ asleep' = [asleep EXCEPT ![c] = Posted(p)]
    /\ IF Posted(p) THEN UNCHANGED <<at, read_id, io_ClipID, taken>>
       ELSE IF committed[p] = NoClip
       THEN Goes(c, "idle") /\ UNCHANGED <<read_id, io_ClipID, taken>>
       ELSE /\ read_id' = [read_id EXCEPT ![p] = @ + 1]
            /\ io_ClipID' = [io_ClipID EXCEPT ![c] = read_id'[p]]
            /\ taken' = [taken EXCEPT ![c] = <<committed[p][1]>>]
            /\ Goes(c, "reading")
    /\ UNCHANGED <<store, host, committed, pending, write_id, post_id,
                   write_active, locked, carried, ops, newest, copies>>
\* The next block, by the read id: refused once somebody else began a read.
ReadOn(c) ==
    LET p == ProcessOf[c] IN
    /\ at[c] = "reading" /\ Free(c) /\ Goes(c, "idle")
    /\ taken' = IF io_ClipID[c] = read_id[p] /\ committed[p] # NoClip
                THEN [taken EXCEPT ![c] = Append(@, committed[p][2])] ELSE taken
    /\ UNCHANGED <<store, host, unit, io_ClipID, carried, asleep, woken, ops,
                   newest, copies>>
\* AbortIO of a read that sleeps for the promised clip.
AbortRead(c) ==
    /\ at[c] = "read" /\ asleep[c] /\ Free(c)
    /\ asleep' = [asleep EXCEPT ![c] = FALSE]
    /\ woken' = [woken EXCEPT ![c] = FALSE] /\ Goes(c, "idle")
    /\ UNCHANGED <<store, host, unit, io_ClipID, carried, taken, ops, newest, copies>>

\* ---- The host and CLIPS:

HostCopies ==
    /\ copies < MaxHost /\ copies' = copies + 1 /\ host' = Clip("host", copies')
    /\ newest' = "host"
    /\ UNCHANGED <<store, unit, at, io_ClipID, carried, asleep, woken, taken, ops>>

Next ==
    \/ \E c \in Client :
         \/ write_clip(c) \/ update_clip(c) \/ MirrorAndPublish(c) \/ Post(c)
         \/ HostRead(c) \/ CompareText(c) \/ Import(c) \/ LoadStore(c)
         \/ refresh_unit_from_store(c) \/ read_clip(c) \/ ReadOn(c) \/ AbortRead(c)
    \/ HostCopies
Spec == Init /\ [][Next]_vars

TypeOK ==
    /\ \A p \in Process : write_id[p] \in Nat /\ Len(pending[p]) <= 2
    /\ \A c \in Client :
         at[c] \in {"idle", "posted", "half", "written", "stored", "compare",
                    "import", "load", "cache", "read", "reading"}

Whole(clip) == clip = NoClip \/ (Len(clip) = 2 /\ clip = Clip(clip[1][1], clip[1][2]))

\* A clip is one writer's: neither the shared file nor any process's cache
\* ever holds blocks of two transactions or half of one, however writers,
\* posts and refreshes of the same unit interleave.
CommitIsOneWriter == Whole(store) /\ \A p \in Process : Whole(committed[p])

\* A read asleep for a promised clip that nobody has woken still has
\* something to wait for: the promise, or the write that is fulfilling it.
SleepsForThePromise ==
    \A c \in Client : asleep[c] /\ ~woken[c] =>
        Posted(ProcessOf[c]) \/ write_active[ProcessOf[c]]

\* Reads are snapshots: the two blocks a reader is given under one read id
\* are of one clip.
SnapshotReads == \A c \in Reader : Len(taken[c]) = 2 => Whole(taken[c])

\* A clip that is not text stays on unit 0 until somebody copies again: the
\* refresh before a read replaces it only by host text copied after it.
ClipIsKept ==
    [][\A c \in Reader : Import(c) => \/ IsText(store) \/ store = NoClip
                                    \/ newest = "host"]_vars
=============================================================================
