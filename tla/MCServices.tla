----------------------------- MODULE MCServices -----------------------------
(***************************************************************************)
(* RootServices and the components around it, one per behaviour, for TLC:  *)
(* the variables of a session (SessionVariables), the operations a command *)
(* asks of root (PrivilegedCalls), the worker that mounts volumes and the  *)
(* catalogue of devices (VolumeWorker, DeviceCatalog), and the clipboard   *)
(* (ClipboardUnit, IffClip).                                               *)
(***************************************************************************)
EXTENDS RootServices, Sequences

VARIABLES
    part,       \* the component this behaviour is of
    x1, x2, x3, x4, x5, x6, x7, x8, x9, x10, x11, x12, x13, x14, x15, x16,
    x17, x18

\* The variables a component of fewer than k leaves unused.
Unused(k) ==
    /\ (IF k < 1 THEN x1 = 0 ELSE TRUE)
    /\ (IF k < 2 THEN x2 = 0 ELSE TRUE)
    /\ (IF k < 3 THEN x3 = 0 ELSE TRUE)
    /\ (IF k < 4 THEN x4 = 0 ELSE TRUE)
    /\ (IF k < 5 THEN x5 = 0 ELSE TRUE)
    /\ (IF k < 6 THEN x6 = 0 ELSE TRUE)
    /\ (IF k < 7 THEN x7 = 0 ELSE TRUE)
    /\ (IF k < 8 THEN x8 = 0 ELSE TRUE)
    /\ (IF k < 9 THEN x9 = 0 ELSE TRUE)
    /\ (IF k < 10 THEN x10 = 0 ELSE TRUE)
    /\ (IF k < 11 THEN x11 = 0 ELSE TRUE)
    /\ (IF k < 12 THEN x12 = 0 ELSE TRUE)
    /\ (IF k < 13 THEN x13 = 0 ELSE TRUE)
    /\ (IF k < 14 THEN x14 = 0 ELSE TRUE)
    /\ (IF k < 15 THEN x15 = 0 ELSE TRUE)
    /\ (IF k < 16 THEN x16 = 0 ELSE TRUE)
    /\ (IF k < 17 THEN x17 = 0 ELSE TRUE)
    /\ (IF k < 18 THEN x18 = 0 ELSE TRUE)
Still(k) ==
    /\ (IF k < 1 THEN UNCHANGED x1 ELSE TRUE)
    /\ (IF k < 2 THEN UNCHANGED x2 ELSE TRUE)
    /\ (IF k < 3 THEN UNCHANGED x3 ELSE TRUE)
    /\ (IF k < 4 THEN UNCHANGED x4 ELSE TRUE)
    /\ (IF k < 5 THEN UNCHANGED x5 ELSE TRUE)
    /\ (IF k < 6 THEN UNCHANGED x6 ELSE TRUE)
    /\ (IF k < 7 THEN UNCHANGED x7 ELSE TRUE)
    /\ (IF k < 8 THEN UNCHANGED x8 ELSE TRUE)
    /\ (IF k < 9 THEN UNCHANGED x9 ELSE TRUE)
    /\ (IF k < 10 THEN UNCHANGED x10 ELSE TRUE)
    /\ (IF k < 11 THEN UNCHANGED x11 ELSE TRUE)
    /\ (IF k < 12 THEN UNCHANGED x12 ELSE TRUE)
    /\ (IF k < 13 THEN UNCHANGED x13 ELSE TRUE)
    /\ (IF k < 14 THEN UNCHANGED x14 ELSE TRUE)
    /\ (IF k < 15 THEN UNCHANGED x15 ELSE TRUE)
    /\ (IF k < 16 THEN UNCHANGED x16 ELSE TRUE)
    /\ (IF k < 17 THEN UNCHANGED x17 ELSE TRUE)
    /\ (IF k < 18 THEN UNCHANGED x18 ELSE TRUE)

pool == <<x1, x2, x3, x4, x5, x6, x7, x8, x9, x10, x11, x12, x13, x14, x15,
            x16, x17, x18>>
allvars == <<part, vars, pool>>

MCProcessOf == [c \in {"w1", "w2", "w3", "r1"} |->
                  IF c = "w3" THEN "p2" ELSE "p1"]

\* Two sessions and the global table, one name, room for two entries.
Variables == INSTANCE SessionVariables WITH
    Session <- {"s1", "s2"}, Global <- "g", VarName <- {"n1"},
    Value <- {"v1"}, Code <- {}, MaxVars <- 2, MaxCount <- 0,
    Caller <- {}, EnvName <- {}, Nested <- {}, live <- x1, table <- x2,
    result <- x3, tally <- x4, privileged <- x5, told <- x6, spent <- x7,
    env <- x8, envarc <- x9, pending <- x10, saved <- x11

\* The results and the tallies of two sessions.
Tallies == INSTANCE SessionVariables WITH
    Session <- {"s1", "s2"}, Global <- "g", VarName <- {}, Value <- {"v1"},
    Code <- {"r1", "r2"}, MaxVars <- 0, MaxCount <- 2, Caller <- {},
    EnvName <- {}, Nested <- {}, live <- x1, table <- x2, result <- x3,
    tally <- x4, privileged <- x5, told <- x6, spent <- x7, env <- x8,
    envarc <- x9, pending <- x10, saved <- x11

\* No session, but two processes that set two global variables, one of them in
\* a drawer.
Environment == INSTANCE SessionVariables WITH
    Session <- {}, Global <- "g", VarName <- {}, Value <- {"v1"}, Code <- {},
    MaxVars <- 0, MaxCount <- 0, Caller <- {"c1", "c2"},
    EnvName <- {"top", "sub"}, Nested <- {"sub"}, live <- x1, table <- x2,
    result <- x3, tally <- x4, privileged <- x5, told <- x6, spent <- x7,
    env <- x8, envarc <- x9, pending <- x10, saved <- x11

\* The instances are among those the proofs about variables are about.
ASSUME VariableConstants ==
    Variables!Constants /\ Tallies!Constants /\ Environment!Constants

\* Two operations, one channel failure.
Calls == INSTANCE PrivilegedCalls WITH
    MaxOps <- 2, MaxFaults <- 1, Root <- TRUE, obj <- x1, op <- x2, pc <- x3,
    local <- x4, attempt <- x5, reply <- x6, result <- x7, did <- x8,
    late <- x9, crm <- x10, faults <- x11, ops <- x12

\* Three volumes, one that is bound and one that cannot be mounted, room for
\* one.
Worker == INSTANCE VolumeWorker WITH
    Key <- {1, 2, 3}, Binds <- {2}, Unsupported <- {3}, MaxVolumes <- 1,
    MaxRequests <- 5, ns <- x1, host <- x2, volumes <- x3, mounted <- x4,
    dirs <- x5, viewRoot <- x6, supRoot <- x7, crm <- x8, worker <- x9,
    channel <- x10, sup <- x11, broker <- x12, req <- x13, prepared <- x14,
    mountFailed <- x15, requests <- x16

\* Two ext filesystems, another, swap and two RAM devices; labels that clash
\* with the fallback names.
Devices == INSTANCE DeviceCatalog WITH
    Ext <- {0, 1}, Other <- {2}, Swap <- {3}, Ram <- {4, 5}, MaxDevices <- 4,
    Label <- {<<"L", 0>>, <<"RAM", 0>>, <<"sd", 1>>},
    NoLabel <- <<"none", 0>>, Place <- {<<"a", 0>>, <<"a", 0, "b">>},
    Labelled <- {1}, MaxSteps <- 3, mounts <- x1, known <- x2, kernel <- x3,
    label <- x4, mount_path <- x5, mount_method <- x6, view_path <- x7,
    device_view <- x8, device_view_root <- x9, services <- x10,
    undone <- x11, stuck <- x12, steps <- x13

\* Two writers and a reader of one process, a writer of another, one host copy.
Clip == INSTANCE ClipboardUnit WITH
    Writer <- {"w1", "w2", "w3"}, Reader <- {"r1"},
    ProcessOf <- MCProcessOf, Opaque <- {}, MaxOps <- 3, MaxHost <- 1,
    store <- x1, host <- x2, committed <- x3, pending <- x4, write_id <- x5,
    read_id <- x6, post_id <- x7, write_active <- x8, locked <- x9,
    at <- x10, io_ClipID <- x11, carried <- x12, asleep <- x13, woken <- x14,
    taken <- x15, newest <- x16, ops <- x17, copies <- x18

\* Four calls, chunks nested three deep, a buffer no chunk exceeds.
Iff == INSTANCE IffClip WITH
    MaxCalls <- 4, MaxDepth <- 3, Buffer <- 20, stream <- x1, stack <- x2,
    closed <- x3, calls <- x4, events <- x5, text <- x6, full <- x7,
    flat <- x8

\* The components share no state here, so each behaviour is of one of them.
MCInit ==
    /\ Init
    /\ \/ part = "services" /\ Unused(0)
       \/ part = "variables" /\ Variables!Init /\ Unused(11)
       \/ part = "tallies" /\ Tallies!Init /\ Unused(11)
       \/ part = "environment" /\ Environment!Init /\ Unused(11)
       \/ part = "calls" /\ Calls!Init /\ Unused(12)
       \/ part = "worker" /\ Worker!Init /\ Unused(16)
       \/ part = "devices" /\ Devices!Init /\ Unused(13)
       \/ part = "clipboard" /\ Clip!Init /\ Unused(18)
       \/ part = "iff" /\ Iff!Init /\ Unused(8)

MCNext ==
    /\ UNCHANGED part
    /\ \/ part = "services" /\ Next /\ Still(0)
       \/ part = "variables" /\ Variables!Next /\ UNCHANGED vars /\ Still(11)
       \/ part = "tallies" /\ Tallies!Next /\ UNCHANGED vars /\ Still(11)
       \/ part = "environment" /\ Environment!Next /\ UNCHANGED vars /\ Still(11)
       \/ part = "calls" /\ Calls!Next /\ UNCHANGED vars /\ Still(12)
       \/ part = "worker" /\ Worker!Next /\ UNCHANGED vars /\ Still(16)
       \/ part = "devices" /\ Devices!Next /\ UNCHANGED vars /\ Still(13)
       \/ part = "clipboard" /\ Clip!Next /\ UNCHANGED vars /\ Still(18)
       \/ part = "iff" /\ Iff!Next /\ UNCHANGED vars /\ Still(8)

MCSpec == MCInit /\ [][MCNext]_allvars

\* What the i-th thread or process of a component does of itself.  A behaviour
\* is of one component, so one fairness condition serves all the i-th ones.
Turn(i) ==
    \/ /\ part = "calls" /\ Still(12)
       /\ \/ i = 1 /\ (Calls!Return \/ Calls!ensure_access_worker
                     \/ Calls!perform_privileged_operation \/ Calls!Finish)
    \/ /\ part = "worker" /\ Still(16)
       /\ \/ i = 1 /\ Worker!Leaving

\* Each component has the fairness its own specification gives it.
MCFairSpec ==
    /\ MCSpec
    /\ \A f \in Fmm :
         /\ WF_vars(part = "services" /\ fmm # f /\ FmmLeaves(f))
         /\ WF_vars(part = "services" /\ FmmExits(f))
         /\ WF_vars(part = "services" /\ sup[f] # "serving" /\ VolumeLeaves(f))
    /\ \A k \in Crm :
         WF_vars(part = "services" /\ crm # k /\ k \notin unread /\ CrmLeaves(k))
    /\ WF_vars(/\ part = "services" /\ \A c \in Conn : conn[c] = "closed"
               /\ BrokerExit)
    /\ \A i \in 1..1 : WF_pool(Turn(i))

\* Every component keeps to its types.
TypesOK ==
    /\ TypeOK
    /\ part = "variables" => Variables!TypeOK
    /\ part = "tallies" => Tallies!TypeOK
    /\ part = "environment" => Environment!TypeOK
    /\ part = "calls" => Calls!TypeOK
    /\ part = "worker" => Worker!TypeOK
    /\ part = "devices" => Devices!TypeOK
    /\ part = "clipboard" => Clip!TypeOK
    /\ part = "iff" => Iff!TypeOK

\* What is asked for is what is told.  A variable reads as it was last set in
\* the table its scope selects, and a tally counts from one reading to the next
\* (ReadsWhatWasTold, CountsOnePeriod of SessionVariables); a global variable
\* that was saved is found, across restarts and beside the calls of others, until
\* the saved one is deleted (SavedIsFound of SessionVariables); what a command is
\* told of a privileged operation is about its object, never about the channel
\* or the worker that failed under it (AnswersAboutTheObject of
\* PrivilegedCalls).
AnswersAreTrue ==
    /\ part = "variables" => Variables!ReadsWhatWasTold
    /\ part = "tallies" => Tallies!CountsOnePeriod
    /\ part = "environment" => Environment!SavedIsFound
    /\ part = "calls" => Calls!AnswersAboutTheObject


\* A clip is whole.  Neither the shared file nor a cache ever holds blocks of
\* two writers or half of one, and a reader sleeps only for a promise that is
\* still to be kept (CommitIsOneWriter, SleepsForThePromise of ClipboardUnit);
\* what was written as IFF parses to the same chunks, and the host is given the
\* very text (WrittenParses, HostTextIsTheText of IffClip).
ClipsAreWhole ==
    /\ part = "clipboard" => Clip!CommitIsOneWriter /\ Clip!SleepsForThePromise
    /\ part = "iff" => Iff!WrittenParses /\ Iff!HostTextIsTheText


\* A call through the seam comes back whatever fails on the way (CallComesBack
\* of PrivilegedCalls), a supervisor and its worker end when the broker has gone
\* (EndsWithTheBroker of VolumeWorker), and when nobody is connected for good no
\* privileged process is left, whichever order they stop in (NoServiceLeft of
\* RootServices).
CallsAndServicesEnd ==
    /\ NoServiceLeft
    /\ (\/ part = "calls" /\ Calls!Called
        \/ part = "worker" /\ Worker!BrokerGone)
         ~> (\/ part = "calls" /\ ~Calls!Called
             \/ part = "worker" /\ Worker!ServiceGone)
=============================================================================
