---------------------------- MODULE DeviceCatalog ----------------------------
(***************************************************************************)
(* dos_devices.c: the broker's catalogue of the machine's filesystems, the  *)
(* names they answer to, and where each of them is entered.  A filesystem   *)
(* is a number; 0 is the root filesystem.  A host path is a sequence, and a *)
(* name a pair such as <<"sd", 1>> or <<"RAM", 0>>.                         *)
(*                                                                         *)
(* The desktop's user may mount a filesystem at any time.  The catalogue is *)
(* made once and never reads the mount table for a filesystem it has found. *)
(***************************************************************************)
EXTENDS Integers, Sequences, FiniteSets

CONSTANTS Ext, Other, Swap, Ram,   \* block filesystems by type, and tmpfs
          MaxDevices,              \* MAX_DOS_DEVICES
          Label, NoLabel, Place,   \* volume labels; where a user mounts things
          Labelled,                \* the filesystems that may have one at first
          MaxSteps

Fs == Ext \cup Other \cup Swap \cup Ram
Block == Fs \ Ram
Nil == <<"none">>

VARIABLES mounts,       \* /proc/self/mountinfo: a sequence of [id, at, by]
          known,        \* devices[].in_use
          kernel, label, mount_path, mount_method, view_path,
          device_view, device_view_root, services,
          undone,       \* mounts of the user's that the broker took away
          stuck,        \* mounts that were busy when it tried
          steps

vars == <<mounts, known, kernel, label, mount_path, mount_method, view_path,
          device_view, device_view_root, services, undone, stuck, steps>>

MountOf(m, f) == {i \in DOMAIN m : m[i].id = f}
First(S) == CHOOSE i \in S : \A j \in S : i <= j
Beneath(p, at) == Len(at) <= Len(p) /\ SubSeq(p, 1, Len(at)) = at

-----------------------------------------------------------------------------
(* Names.                                                                   *)

\* Kernel name, label or (for a block device, always its own) UUID.
device_alias_matches(f, name) ==
    name \in {kernel[f], label[f]} \cup (IF f \in Block THEN {<<"uuid", f>>} ELSE {})

Matches(name) == {f \in known : device_alias_matches(f, name)}
ace_dos_devices_lookup(name) == Cardinality(Matches(name))

AliasOf(f) ==
    LET candidates == <<label[f], kernel[f], <<"uuid", f>>>>
        good == {i \in 1..3 : /\ candidates[i] # NoLabel
                              /\ f \in Block \/ i < 3
                              /\ ace_dos_devices_lookup(candidates[i]) = 1}
    IN IF good = {} THEN Nil ELSE candidates[First(good)]

\* The mount a host path is in: the longest catalogued one, the latest of two.
find_mount_for_path(p) ==
    LET on == {i \in DOMAIN mounts : mounts[i].id \in known /\ Beneath(p, mounts[i].at)}
    IN IF on = {} THEN 0
       ELSE CHOOSE i \in on : \A j \in on : \/ Len(mounts[j].at) < Len(mounts[i].at)
                                            \/ Len(mounts[j].at) = Len(mounts[i].at) /\ j <= i

\* What lies below the mount point, the rest of the DOS name.
append_relative_path(p, at) == SubSeq(p, Len(at) + 1, Len(p))

ace_dos_devices_name_from_path(p) ==
    LET i == find_mount_for_path(p)
    IN IF i = 0 \/ AliasOf(mounts[i].id) = Nil THEN [name |-> Nil, rel |-> <<>>]
       ELSE [name |-> AliasOf(mounts[i].id), rel |-> append_relative_path(p, mounts[i].at)]

\* Where a name is entered in the device view, once there has been one: the
\* host's own mount first.  Nil is the failure the caller is told of.
RootInView(f) ==
    IF mount_path[f] # Nil THEN mount_path[f]
    ELSE IF f \in Ext /\ view_path[f] THEN <<"view", f>> ELSE Nil

-----------------------------------------------------------------------------
(* Finding the devices.                                                     *)

\* The synthetic name of a filesystem without a node: RAM, RAM1, ... by the
\* order of the mount table, skipping names a device already answers to.
synthetic_alias(f, taken) ==
    LET free(n) == <<"RAM", n>> \notin taken
    IN CHOOSE n \in 0..Cardinality(Fs) :
         free(n) /\ Cardinality({k \in 0..(n - 1) : free(k)}) = Cardinality({r \in Ram : r < f})

Mounted(m) == {m[i].id : i \in DOMAIN m}
Smaller(a, b) == IF a < b THEN a ELSE b

\* A mutated discovery: swap is taken for a filesystem.
DiscoverSwapToo ==
    /\ known \in SUBSET Fs
    /\ Cardinality(known \cap Block) = Smaller(MaxDevices, Cardinality(Block))
    /\ known \cap Ram \subseteq Mounted(mounts)
    /\ Cardinality(known \cap Ram) = Smaller(MaxDevices - Cardinality(known \cap Block),
                                            Cardinality(Ram \cap Mounted(mounts)))

\* Block devices first, as far as the table goes, and swap and its like never;
\* then the mounted filesystems that have no node, as far as it goes.
ace_dos_devices_discover ==
    /\ known \in SUBSET (Fs \ Swap)
    /\ Cardinality(known \cap Block) = Smaller(MaxDevices, Cardinality(Block \ Swap))
    /\ known \cap Ram \subseteq Mounted(mounts)
    /\ Cardinality(known \cap Ram) = Smaller(MaxDevices - Cardinality(known \cap Block),
                                            Cardinality(Ram \cap Mounted(mounts)))

\* The mount side of the catalogue: where each is mounted already.
add_mount_device ==
    /\ kernel = [f \in Fs |-> IF f \in Block THEN <<"sd", f>>
                              ELSE <<"RAM", synthetic_alias(f, {label[b] : b \in known \cap Block})>>]
    /\ mount_path = [f \in Fs |-> IF f \in known /\ MountOf(mounts, f) # {}
                                  THEN mounts[First(MountOf(mounts, f))].at ELSE Nil]

Init ==
    /\ \E at \in Place : mounts = <<[id |-> 0, at |-> <<>>, by |-> "user"]>>
                                  \o [i \in 1..Cardinality(Ram) |->
                                        [id |-> CHOOSE r \in Ram : Cardinality({q \in Ram : q < r}) = i - 1,
                                         at |-> at \o IF i = 1 THEN <<>> ELSE <<"b">>, by |-> "user"]]
    /\ label \in [Fs -> {NoLabel} \cup Label] /\ \A f \in Fs \ Labelled : label[f] = NoLabel
    /\ ace_dos_devices_discover
    /\ add_mount_device
    /\ mount_method = [f \in Fs |-> 0] /\ view_path = [f \in Fs |-> FALSE]
    /\ device_view = FALSE /\ device_view_root = FALSE /\ services = FALSE
    /\ undone = {} /\ stuck = {} /\ steps = 0

Step == steps < MaxSteps /\ steps' = steps + 1

-----------------------------------------------------------------------------
(* Using a volume.                                                          *)

\* mount_root: mount(8) as the user, else udisks, which chooses the place; a
\* failure is remembered as -1.
mount_root(f, how) ==
    /\ how \in {-1, 1, 2}
    /\ mount_method' = [mount_method EXCEPT ![f] = how]
    /\ IF how = -1 THEN UNCHANGED <<mounts, mount_path>>
       ELSE LET at == <<IF how = 1 THEN "run" ELSE "media", f>>
            IN /\ mounts' = Append(mounts, [id |-> f, at |-> at, by |-> "broker"])
               /\ mount_path' = [mount_path EXCEPT ![f] = at]

\* Enter what is mounted already, and otherwise mount it.
ensure_device_mount(f, how) ==
    /\ mount_path[f] = Nil /\ f \in Ext
    /\ IF MountOf(mounts, f) # {}
       THEN /\ mount_path' = [mount_path EXCEPT ![f] = mounts[First(MountOf(mounts, f))].at]
            /\ UNCHANGED <<mounts, mount_method>>
       ELSE mount_root(f, how)

\* A name is resolved: outside a device view this may mount the volume.
ace_dos_devices_root(name, how) ==
    /\ Step /\ Cardinality(Matches(name)) = 1 /\ ~device_view
    /\ \E f \in Matches(name) : ensure_device_mount(f, how)
    /\ UNCHANGED <<known, kernel, label, view_path, device_view, device_view_root, services, undone, stuck>>

\* The user mounts a filesystem that is not mounted.
UserMounts(f, at) ==
    /\ Step /\ f \in Block \ Swap /\ MountOf(mounts, f) = {}
    /\ \A i \in DOMAIN mounts : mounts[i].at # at
    /\ mounts' = Append(mounts, [id |-> f, at |-> at, by |-> "user"])
    /\ UNCHANGED <<known, kernel, label, mount_path, mount_method, view_path,
                   device_view, device_view_root, services, undone, stuck>>

\* Relabel: on the medium for a disk, in the catalogue alone for RAM:.
ace_dos_devices_relabel(name, new) ==
    /\ Step /\ Cardinality(Matches(name)) = 1
    /\ \E f \in Matches(name) : f \in Ext \cup Ram /\ label' = [label EXCEPT ![f] = new]
    /\ UNCHANGED <<mounts, known, kernel, mount_path, mount_method, view_path,
                   device_view, device_view_root, services, undone, stuck>>

-----------------------------------------------------------------------------
(* The device view, which the FMM mounts in its own namespace.              *)

\* A block device the FMM refuses as unsupported is left out; any other
\* failure of one stops the work, and root services do not start.  A
\* filesystem without a node, and one of another type, is bound if mounted;
\* if it cannot be, it is left out.
Offered(f) == f \in Ext \/ mount_path[f] # Nil
ace_dos_devices_prepare_device_view(shown) ==
    /\ shown \subseteq {f \in known : Offered(f)}
    /\ view_path' = [f \in Fs |-> f \in shown]
    /\ device_view' = TRUE /\ device_view_root' = TRUE

start_root_services(shown) ==
    /\ Step /\ ~services
    /\ ace_dos_devices_prepare_device_view(shown)
    /\ services' = TRUE
    /\ UNCHANGED <<mounts, known, kernel, label, mount_path, mount_method, undone, stuck>>

\* ace_dos_devices_shutdown: forget the views; undo the mounts recorded as
\* its own.  A busy mount stays, and is forgotten too.
Recorded == {f \in known : mount_method[f] # 0}
ForgetsUdisks(f, busy) == f \in Recorded \ busy /\ mount_method[f] = 1
Undone(f, busy) == f \in Recorded \ busy
Unmount(busy) ==
    /\ mounts' = SelectSeq(mounts, LAMBDA m : ~Undone(m.id, busy))
    /\ undone' = undone \cup {f \in Fs : \E i \in DOMAIN mounts :
                    mounts[i].id = f /\ mounts[i].by = "user" /\ Undone(f, busy)}
    /\ stuck' = stuck \cup (Recorded \cap busy)
    /\ mount_path' = [f \in Fs |-> IF f \in Recorded THEN Nil ELSE mount_path[f]]
    /\ mount_method' = [f \in Fs |-> 0]
OwnMountsOnly(busy) == Unmount(busy) /\ UNCHANGED view_path
shutdown(busy) == Unmount(busy) /\ view_path' = [f \in Fs |-> FALSE]

\* The view could not be made: the FMM is let go again.
start_root_services_fails(prepared, busy) ==
    /\ Step /\ ~services
    /\ device_view' = (device_view \/ prepared)
    /\ device_view_root' = (device_view_root \/ prepared)
    /\ shutdown(busy)
    /\ UNCHANGED <<known, kernel, label, services>>

stop_root_services(busy) ==
    /\ Step /\ services
    /\ services' = FALSE
    /\ shutdown(busy)
    /\ UNCHANGED <<known, kernel, label, device_view, device_view_root>>

Names == Label \cup {kernel[f] : f \in Fs} \cup {<<"uuid", f>> : f \in Block}

Next ==
    \/ \E name \in Names, how \in {-1, 1, 2} : ace_dos_devices_root(name, how)
    \/ \E f \in Fs, at \in Place : UserMounts(f, at)
    \/ \E name \in Names, new \in Label : ace_dos_devices_relabel(name, new)
    \/ \E shown \in SUBSET Fs : start_root_services(shown)
    \/ \E prepared \in BOOLEAN, busy \in SUBSET Ext : start_root_services_fails(prepared, busy)
    \/ \E busy \in SUBSET Ext : stop_root_services(busy)

Spec == Init /\ [][Next]_vars

-----------------------------------------------------------------------------

\* The catalogue's state has its type.
TypeOK ==
    /\ known \subseteq Fs \ Swap /\ Cardinality(known) <= MaxDevices
    /\ label \in [Fs -> {NoLabel} \cup Label]
    /\ mount_method \in [Fs -> -1..2] /\ view_path \in [Fs -> BOOLEAN]
    /\ {device_view, device_view_root, services} \subseteq BOOLEAN
    /\ undone \subseteq Fs

\* The name ACE gives a host path (ace_dos_devices_name_from_path) leads back
\* to it: the alias means one filesystem, and what that filesystem's root
\* (ace_dos_devices_root) is followed by is the same path.  Labels may be equal
\* to one another and to kernel names, and mounts may be nested.
Paths == {m \o rest : m \in {mounts[i].at : i \in DOMAIN mounts}, rest \in {<<>>, <<"b">>, <<"b", "c">>}}
NamesLeadBack ==
    \A p \in Paths :
      LET n == ace_dos_devices_name_from_path(p)
      IN n.name # Nil =>
           /\ Cardinality(Matches(n.name)) = 1
           /\ \A f \in Matches(n.name) :
                mount_path[f] # Nil => mount_path[f] \o n.rel = p

\* A name is entered through the device view only while the services that
\* hold the view run, also when they stopped half-way through making it
\* (ace_dos_devices_root against start_root_services, stop_root_services).
ViewsOnlyWhileServed ==
    \A f \in known : device_view /\ RootInView(f) = <<"view", f>> => services

\* A mount the broker made is one it remembers, so the next shutdown undoes
\* it; the exception is one that was busy when it tried.
RemembersItsMounts ==
    \A i \in DOMAIN mounts : mounts[i].by = "broker" =>
      \/ mounts[i].id \in stuck
      \/ mount_method[mounts[i].id] \in {1, 2} /\ mount_path[mounts[i].id] = mounts[i].at

\* "Only the mounts this broker made itself, through the ordinary unprivileged
\* path below, are its own to undo" (ace_dos_devices_shutdown).
OnlyOwnMountsUndone == undone = {}
=============================================================================
