------------------------------ MODULE MCPorts -------------------------------
(***************************************************************************)
(* BrokerPorts and the code on either side of it, one component per        *)
(* behaviour, for TLC: its broadcasts on an instance of their own, the     *)
(* Rexx bridge of the processes that use its ports (RexxBridge), and the   *)
(* signals that tell a process of a message or a break (ExecSignals).      *)
(***************************************************************************)
EXTENDS BrokerPorts, TLC

VARIABLES
    part,       \* the component this behaviour is of
    x1, x2, x3, x4, x5, x6, x7, x8, x9, x10, x11, x12, x13, x14, x15, x16

\* The variables a component of fewer than k leaves unused.
Unused(k) ==
    /\ (IF k < 1 THEN x1 = 0 ELSE TRUE)
    /\ (IF k < 2 THEN x2 = 0 ELSE TRUE)
    /\ (IF k < 3 THEN x3 = 0 ELSE TRUE)
    /\ (IF k < 4 THEN x4 = 0 ELSE TRUE)
    /\ (IF k < 5 THEN x5 = 0 ELSE TRUE)
    /\ (IF k < 6 THEN x6 = 0 ELSE TRUE)
    /\ (IF k < 7 THEN x7 = 0 ELSE TRUE)
    /\ (IF k < 8 THEN x8 = 0 ELSE TRUE)
    /\ (IF k < 9 THEN x9 = 0 ELSE TRUE)
    /\ (IF k < 10 THEN x10 = 0 ELSE TRUE)
    /\ (IF k < 11 THEN x11 = 0 ELSE TRUE)
    /\ (IF k < 12 THEN x12 = 0 ELSE TRUE)
    /\ (IF k < 13 THEN x13 = 0 ELSE TRUE)
    /\ (IF k < 14 THEN x14 = 0 ELSE TRUE)
    /\ (IF k < 15 THEN x15 = 0 ELSE TRUE)
    /\ (IF k < 16 THEN x16 = 0 ELSE TRUE)
Still(k) ==
    /\ (IF k < 1 THEN UNCHANGED x1 ELSE TRUE)
    /\ (IF k < 2 THEN UNCHANGED x2 ELSE TRUE)
    /\ (IF k < 3 THEN UNCHANGED x3 ELSE TRUE)
    /\ (IF k < 4 THEN UNCHANGED x4 ELSE TRUE)
    /\ (IF k < 5 THEN UNCHANGED x5 ELSE TRUE)
    /\ (IF k < 6 THEN UNCHANGED x6 ELSE TRUE)
    /\ (IF k < 7 THEN UNCHANGED x7 ELSE TRUE)
    /\ (IF k < 8 THEN UNCHANGED x8 ELSE TRUE)
    /\ (IF k < 9 THEN UNCHANGED x9 ELSE TRUE)
    /\ (IF k < 10 THEN UNCHANGED x10 ELSE TRUE)
    /\ (IF k < 11 THEN UNCHANGED x11 ELSE TRUE)
    /\ (IF k < 12 THEN UNCHANGED x12 ELSE TRUE)
    /\ (IF k < 13 THEN UNCHANGED x13 ELSE TRUE)
    /\ (IF k < 14 THEN UNCHANGED x14 ELSE TRUE)
    /\ (IF k < 15 THEN UNCHANGED x15 ELSE TRUE)
    /\ (IF k < 16 THEN UNCHANGED x16 ELSE TRUE)

pool == <<x1, x2, x3, x4, x5, x6, x7, x8, x9, x10, x11, x12, x13, x14, x15,
            x16>>
allvars == <<part, vars, pool>>

\* Descriptors, processes and names are interchangeable.
Symmetry == Permutations(Fd) \cup Permutations(Pid) \cup Permutations(Name)

\* One message, but a port that is opened again under its name.
Reopened == INSTANCE BrokerPorts WITH
    LastPort <- 2, LastMessage <- 1,
    conn <- x1, alive <- x2, attached <- x3, dropping <- x4, ports <- x5,
    channels <- x6, messages <- x7, nextPort <- x8, nextMessage <- x9,
    stream <- x10, events <- x11, said <- x12, asked <- x13

\* No ports, but three broadcasts of which two are remembered.
Broadcasts == INSTANCE BrokerPorts WITH
    LastPort <- 0, LastMessage <- 0, LastEvent <- 3, MaxEvents <- 2,
    conn <- x1, alive <- x2, attached <- x3, dropping <- x4, ports <- x5,
    channels <- x6, messages <- x7, nextPort <- x8, nextMessage <- x9,
    stream <- x10, events <- x11, said <- x12, asked <- x13

\* Two messages between three processes.
Rexx == INSTANCE RexxBridge WITH
    Proc <- Fd, Msg <- Pid, NoProc <- NoFd, NoMsg <- NoPid, MaxChannels <- 2,
    MaxMessages <- 2, LastPort <- 2, LastId <- 3, up <- x1, owner <- x2,
    nextPort <- x3, channel <- x4, conv <- x5, about <- x6, mail <- x7,
    sent <- x8, received <- x9, localPorts <- x10, private <- x11,
    standIn <- x12, call <- x13, result <- x14

\* Two breaks and two messages for one process.
Signals == INSTANCE ExecSignals WITH
    MaxBreaks <- 2, MaxMessages <- 2, current_task <- x1, tasks <- x2,
    pending_signals <- x3, broker_pending_signals <- x4,
    host_pending_signals <- x5, host_signal_target <- x6, pipe <- x7,
    owner <- x8, queue <- x9, putting <- x10, at <- x11, woken <- x12,
    sent <- x13, seen <- x14, owed <- x15, messages <- x16

\* The components share no state here, so each behaviour is of one of them.
MCInit ==
    /\ Init
    /\ \/ part = "ports" /\ Unused(0)
       \/ part = "reopened" /\ Reopened!Init /\ Unused(13)
       \/ part = "broadcasts" /\ Broadcasts!Init /\ Unused(13)
       \/ part = "rexx" /\ Rexx!Init /\ Unused(14)
       \/ part = "signals" /\ Signals!Init /\ Unused(16)

MCNext ==
    /\ UNCHANGED part
    /\ \/ part = "ports" /\ Next /\ Still(0)
       \/ part = "reopened" /\ Reopened!Next /\ UNCHANGED vars /\ Still(13)
       \/ part = "broadcasts" /\ Broadcasts!Next /\ UNCHANGED vars /\ Still(13)
       \/ part = "rexx" /\ Rexx!Next /\ UNCHANGED vars /\ Still(14)
       \/ part = "signals" /\ Signals!Next /\ UNCHANGED vars /\ Still(16)

MCSpec == MCInit /\ [][MCNext]_allvars

\* Every component keeps to its types.
TypesOK ==
    /\ TypeOK
    /\ part = "reopened" => Reopened!TypeOK
    /\ part = "broadcasts" => Broadcasts!TypeOK
    /\ part = "rexx" => Rexx!TypeOK
    /\ part = "signals" => Signals!TypeOK

\* Every channel hears the broadcasts in their order, without a gap or a repeat
\* as far as the history reaches (HearsInOrder of BrokerPorts: the replay on
\* ATTACH against the live events).
BroadcastsInOrder == part = "broadcasts" => Broadcasts!HearsInOrder

=============================================================================
