------------------------------ MODULE MCWaits -------------------------------
(***************************************************************************)
(* The processes and threads that wait for one another, one component per  *)
(* behaviour, for TLC: messages between Rexx programs (RexxBridge,         *)
(* RexxMast) and the broker's part in them (BrokerPorts), device requests  *)
(* (ExecRequests, ConsoleDevice), a shell's calls to the broker            *)
(* (BrokerClient) and the voices of Say (SayVoices).                       *)
(***************************************************************************)
EXTENDS Naturals, TLC

VARIABLES
    part,       \* the component this behaviour is of
    watched,    \* which of its waits is looked at
    x1, x2, x3, x4, x5, x6, x7, x8, x9, x10, x11, x12, x13, x14

\* The variables a component of fewer than k leaves unused.
Unused(k) ==
    /\ (IF k < 1 THEN x1 = 0 ELSE TRUE)
    /\ (IF k < 2 THEN x2 = 0 ELSE TRUE)
    /\ (IF k < 3 THEN x3 = 0 ELSE TRUE)
    /\ (IF k < 4 THEN x4 = 0 ELSE TRUE)
    /\ (IF k < 5 THEN x5 = 0 ELSE TRUE)
    /\ (IF k < 6 THEN x6 = 0 ELSE TRUE)
    /\ (IF k < 7 THEN x7 = 0 ELSE TRUE)
    /\ (IF k < 8 THEN x8 = 0 ELSE TRUE)
    /\ (IF k < 9 THEN x9 = 0 ELSE TRUE)
    /\ (IF k < 10 THEN x10 = 0 ELSE TRUE)
    /\ (IF k < 11 THEN x11 = 0 ELSE TRUE)
    /\ (IF k < 12 THEN x12 = 0 ELSE TRUE)
    /\ (IF k < 13 THEN x13 = 0 ELSE TRUE)
    /\ (IF k < 14 THEN x14 = 0 ELSE TRUE)
Still(k) ==
    /\ (IF k < 1 THEN UNCHANGED x1 ELSE TRUE)
    /\ (IF k < 2 THEN UNCHANGED x2 ELSE TRUE)
    /\ (IF k < 3 THEN UNCHANGED x3 ELSE TRUE)
    /\ (IF k < 4 THEN UNCHANGED x4 ELSE TRUE)
    /\ (IF k < 5 THEN UNCHANGED x5 ELSE TRUE)
    /\ (IF k < 6 THEN UNCHANGED x6 ELSE TRUE)
    /\ (IF k < 7 THEN UNCHANGED x7 ELSE TRUE)
    /\ (IF k < 8 THEN UNCHANGED x8 ELSE TRUE)
    /\ (IF k < 9 THEN UNCHANGED x9 ELSE TRUE)
    /\ (IF k < 10 THEN UNCHANGED x10 ELSE TRUE)
    /\ (IF k < 11 THEN UNCHANGED x11 ELSE TRUE)
    /\ (IF k < 12 THEN UNCHANGED x12 ELSE TRUE)
    /\ (IF k < 13 THEN UNCHANGED x13 ELSE TRUE)
    /\ (IF k < 14 THEN UNCHANGED x14 ELSE TRUE)

pool == <<x1, x2, x3, x4, x5, x6, x7, x8, x9, x10, x11, x12, x13, x14>>
allvars == <<part, watched, pool>>

\* Each kind of message, and two scripts at a time.
KindsOf(a, b, c) == "a" :> a @@ "b" :> b @@ "c" :> c
MCKinds ==
    {KindsOf("script", "script", "close"), KindsOf("script", "resource", "private"),
     KindsOf("empty", "foreign", "script")}

\* Two messages between two processes.
Rexx == INSTANCE RexxBridge WITH
    Proc <- {"p1", "p2"}, Msg <- {"m1", "m2"}, NoProc <- "none",
    NoMsg <- "none", MaxChannels <- 2, MaxMessages <- 2, LastPort <- 1,
    LastId <- 2, up <- x1, owner <- x2, nextPort <- x3, channel <- x4,
    conv <- x5, about <- x6, mail <- x7, sent <- x8, received <- x9,
    localPorts <- x10, private <- x11, standIn <- x12, call <- x13,
    result <- x14

\* Three messages for RexxMast.
Mast == INSTANCE RexxMast WITH
    Msg <- {"a", "b", "c"}, NoJob <- "none", Kinds <- MCKinds,
    Code <- {0, 7}, kind <- x1, port <- x2, arrived <- x3, done <- x4,
    server <- x5, head <- x6, tail <- x7, next <- x8, thread <- x9,
    held <- x10, results <- x11, answers <- x12, ran <- x13

\* A console read and a timer, sent three times in all.
Requests == INSTANCE ExecRequests WITH
    Reads <- {1}, Timers <- {2}, MaxInput <- 1, MaxSends <- 3,
    worker <- x1, aborted <- x2, finished <- x3, io_Error <- x4, woken <- x5,
    input <- x6, port <- x7, client <- x8, deferred <- x9, replied <- x10,
    fed <- x11, sends <- x12

\* Three timers, whose replies share a port.
Replies == INSTANCE ExecRequests WITH
    Reads <- {}, Timers <- {1, 2, 3}, MaxInput <- 0, MaxSends <- 3,
    worker <- x1, aborted <- x2, finished <- x3, io_Error <- x4, woken <- x5,
    input <- x6, port <- x7, client <- x8, deferred <- x9, replied <- x10,
    fed <- x11, sends <- x12

\* Two reads and a write of one console unit, sent four times in all.
Console == INSTANCE ConsoleDevice WITH
    Reads <- {1, 2}, Writes <- {3}, MaxInput <- 1, MaxSends <- 4,
    queue <- x1, at <- x2, aborted <- x3, done <- x4, worker <- x5,
    asleep <- x6, woken <- x7, input <- x8, closing <- x9, detached <- x10,
    waiting <- x11, answers <- x12, sends <- x13, fed <- x14

\* A shell's thread and three brokers, each of which may go; the session is
\* root.
Caller == INSTANCE BrokerClient WITH
    Thread <- {"t1"}, Main <- "t1", Child <- "c", NoThread <- "none",
    MaxFd <- 2, MaxCalls <- 3, LastBroker <- 3, LastConn <- 5, Root <- TRUE,
    Forks <- FALSE, up <- x1, started <- x2, conn <- x3, open <- x4,
    broker_fd <- x5, broker_attached <- x6, lock <- x7, pc <- x8, call <- x9,
    calls <- x10, crossed <- x11, refusedAttach <- x12

\* Two threads of a shell and the command it forks, one broker.
Forked == INSTANCE BrokerClient WITH
    Thread <- {"t1", "t2"}, Main <- "t1", Child <- "c", NoThread <- "none",
    MaxFd <- 3, MaxCalls <- 2, LastBroker <- 1, LastConn <- 3, Root <- FALSE,
    Forks <- TRUE, up <- x1, started <- x2, conn <- x3, open <- x4,
    broker_fd <- x5, broker_attached <- x6, lock <- x7, pc <- x8, call <- x9,
    calls <- x10, crossed <- x11, refusedAttach <- x12

\* Two threads of a shell and two brokers.
Pair == INSTANCE BrokerClient WITH
    Thread <- {"t1", "t2"}, Main <- "t1", Child <- "c", NoThread <- "none",
    MaxFd <- 3, MaxCalls <- 2, LastBroker <- 2, LastConn <- 2, Root <- FALSE,
    Forks <- FALSE, up <- x1, started <- x2, conn <- x3, open <- x4,
    broker_fd <- x5, broker_attached <- x6, lock <- x7, pc <- x8, call <- x9,
    calls <- x10, crossed <- x11, refusedAttach <- x12

\* Two voices, one kept warm.
Voices == INSTANCE SayVoices WITH
    Voice <- {"v1", "v2"}, MaxVoices <- 1, Idle <- 2, BrokerIdle <- 3,
    Horizon <- 7, now <- x1, warm <- x2, children <- x3, wake <- x4,
    state <- x5, deadline <- x6

\* The instances are among those the proofs about voices and about the
\* client's connections are about.
ASSUME VoiceConstants == Voices!Constants
ASSUME ClientConstants ==
    Caller!Constants /\ Forked!Constants /\ Pair!Constants

\* One port and one message between three connections of two processes.
Ports == INSTANCE BrokerPorts WITH
    Fd <- {"f1", "f2", "f3"}, Pid <- {"p1", "p2"}, Name <- {"n1"},
    NoPid <- "none", NoFd <- "none", MaxPorts <- 1, MaxChannels <- 1,
    MaxMessages <- 1, MaxEvents <- 1, LastPort <- 1, LastMessage <- 1,
    LastEvent <- 0, conn <- x1, alive <- x2, attached <- x3, dropping <- x4,
    ports <- x5, channels <- x6, messages <- x7, nextPort <- x8,
    nextMessage <- x9, stream <- x10, events <- x11, said <- x12,
    asked <- x13

\* The components share no state here, so each behaviour is of one of them.
MCInit ==
    \/ part = "rexx" /\ watched \in 1..4 /\ Rexx!Init /\ Unused(14)
    \/ part = "rexxmast" /\ watched \in 1..3 /\ Mast!Init /\ Unused(13)
    \/ part = "requests" /\ watched \in 1..2 /\ Requests!Init /\ Unused(12)
    \/ part = "replies" /\ watched = 1 /\ Replies!Init /\ Unused(12)
    \/ part = "console" /\ watched = 1 /\ Console!Init /\ Unused(14)
    \/ part = "caller" /\ watched = 1 /\ Caller!Init /\ Unused(12)
    \/ part = "forks" /\ watched = 1 /\ Forked!Init /\ Unused(12)
    \/ part = "threads" /\ watched = 1 /\ Pair!Init /\ Unused(12)
    \/ part = "voices" /\ watched = 1 /\ Voices!Init /\ Unused(6)
    \/ part = "ports" /\ watched = 1 /\ Ports!Init /\ Unused(13)

MCNext ==
    /\ UNCHANGED <<part, watched>>
    /\ \/ part = "rexx" /\ Rexx!Next /\ Still(14)
       \/ part = "rexxmast" /\ Mast!Next /\ Still(13)
       \/ part = "requests" /\ Requests!Next /\ Still(12)
       \/ part = "replies" /\ Replies!Next /\ Still(12)
       \/ part = "console" /\ Console!Next /\ Still(14)
       \/ part = "caller" /\ Caller!Next /\ Still(12)
       \/ part = "forks" /\ Forked!Next /\ Still(12)
       \/ part = "threads" /\ Pair!Next /\ Still(12)
       \/ part = "voices" /\ Voices!Next /\ Still(6)
       \/ part = "ports" /\ Ports!Next /\ Still(13)

MCSpec == MCInit /\ [][MCNext]_allvars

\* What the i-th thread or process of a component does of itself.  A behaviour
\* is of one component, so one fairness condition serves all the i-th ones.
Turn(i) ==
    \/ /\ part = "rexx" /\ Still(14)
       /\ \/ i = 1 /\ Rexx!Thread("p1")
          \/ i = 2 /\ Rexx!Reader("p1")
          \/ i = 3 /\ Rexx!Answer("p1")
          \/ i = 4 /\ Rexx!Thread("p2")
          \/ i = 5 /\ Rexx!Reader("p2")
          \/ i = 6 /\ Rexx!Answer("p2")
    \/ /\ part = "rexxmast" /\ Still(13)
       /\ \/ i = 1 /\ Mast!ServerRuns
          \/ i = 2 /\ Mast!WorkerRuns("a")
          \/ i = 3 /\ Mast!WorkerRuns("b")
          \/ i = 4 /\ Mast!WorkerRuns("c")
    \/ /\ part = "requests" /\ Still(12)
       /\ \/ i = 1 /\ Requests!AbortIOWakes
          \/ i = 2 /\ Requests!WaitIOTakes
          \/ i = 3 /\ Requests!WorkerStep(1)
          \/ i = 4 /\ Requests!WorkerStep(2)
    \/ /\ part = "console" /\ Still(14)
       /\ \/ i = 1 /\ Console!WorkerStep
          \/ i = 2 /\ Console!CloseStep
    \/ /\ part = "caller" /\ Still(12)
       /\ \/ i = 1 /\ Caller!Step("t1")
          \/ i = 2 /\ Caller!Step("c")
          \/ i = 3 /\ Caller!ResetAfterFork
          \/ i = 4 /\ Caller!Serve(1)
          \/ i = 5 /\ Caller!Serve(2)
          \/ i = 6 /\ Caller!Serve(3)
          \/ i = 7 /\ Caller!Serve(4)
          \/ i = 8 /\ Caller!Serve(5)
    \/ /\ part = "voices" /\ Still(6)
       /\ \/ i = 1 /\ Voices!Sleep
          \/ i = 2 /\ Voices!Wakes
          \/ i = 3 /\ Voices!Stop

\* Each component has the fairness its own specification gives it.
MCFairSpec ==
    /\ MCSpec
    /\ \A f \in {"f1", "f2", "f3"} :
         SF_pool(part = "ports" /\ Ports!DropHungUp(f) /\ Still(13))
    /\ \A i \in 1..8 : WF_pool(Turn(i))

\* Every component keeps to its types.
TypesOK ==
    /\ part = "rexxmast" => Mast!TypeOK
    /\ part = "requests" => Requests!TypeOK
    /\ part = "replies" => Replies!TypeOK
    /\ part = "console" => Console!TypeOK
    /\ part = "caller" => Caller!TypeOK
    /\ part = "forks" => Forked!TypeOK
    /\ part = "threads" => Pair!TypeOK
    /\ part = "voices" => Voices!TypeOK

\* A message, a request and a result are dealt with once and are their sender's.
\* A worker of RexxMast finds the job it was started for, each script is
\* answered once, with its own result (WorkerFindsJob, AnsweredOnce, OwnResult of
\* RexxMast); WaitIO() takes its own reply off the port and leaves the others,
\* in order (RepliesKept of ExecRequests); and a console request is answered
\* once, by its completion, its abort or the close (AnsweredOnce of
\* ConsoleDevice).
AnsweredOnce ==
    /\ part = "rexxmast" =>
         Mast!WorkerFindsJob /\ Mast!AnsweredOnce /\ Mast!OwnResult
    /\ part = "requests" => Requests!RepliesKept
    /\ part = "replies" => Replies!RepliesKept
    /\ part = "console" => Console!AnsweredOnce

\* A caller's connection to the broker is its own.  What it reads answers what
\* it asked, whichever thread found the connection dead and made a new one; a
\* forked child does not speak on its parent's; and the session is claimed again
\* before anything is asked of a new broker (OwnAnswer, NotShared, ClaimsAgain of
\* BrokerClient).
ConnectionIsItsOwn ==
    /\ part = "caller" => Caller!ClaimsAgain
    /\ part = "forks" => Forked!OwnAnswer /\ Forked!NotShared
    /\ part = "threads" => Pair!OwnAnswer

\* No voice of Say is kept longer than its idle time, though the broker sleeps
\* in poll() between the things it does (NoVoiceOutstays of SayVoices).
NoVoiceOutstays == part = "voices" => Voices!NoVoiceOutstays

\* The wait that is looked at, and its end.  Processes are
\* interchangeable: what holds of one holds of the other.
Conversation == <<<<"p1", "p2", 1>>, <<"p1", "p2", 2>>, <<"p1", "p1", 1>>, <<"p1", "p1", 2>>>>[watched]
Waiting ==
    CASE part = "rexx" -> Rexx!AnswerDue(Conversation[1], Conversation[2], Conversation[3])
      [] part = "rexxmast" -> Mast!Arrived(<<"a", "b", "c">>[watched])
      [] part = "requests" -> Requests!Aborted(watched)
      [] part = "console" -> Console!Closing
      [] part = "caller" -> Caller!InACall("t1")
      [] part = "voices" -> Voices!Gone
      [] part = "ports" -> Ports!HungUp(1)
      [] OTHER -> FALSE
Over ==
    CASE part = "rexx" -> Rexx!Settled(Conversation[1], Conversation[3])
      [] part = "rexxmast" -> Mast!Settled(<<"a", "b", "c">>[watched])
      [] part = "requests" -> Requests!Over(watched)
      [] part = "console" -> Console!NobodyWaits
      [] part = "caller" -> Caller!Returned("t1")
      [] part = "voices" -> Voices!Gone /\ Voices!Quiet
      [] part = "ports" -> Ports!Ended(1)
      [] OTHER -> TRUE

\* Every wait ends.  The sender of a message is released once the receiver was
\* given it, whether that one replies, rejects it, deletes the port or dies
\* (GivenIsAnswered of RexxBridge); RexxMast answers what its port took
\* (MessageIsAnswered); an aborted request is answered (AbortEnds); closing a
\* console lets everyone waiting at it go (CloseEndsEveryWait); a call to the
\* broker returns though the broker goes away in the middle (CallReturns); the
\* voices of Say end with the broker (VoicesEndWithBroker); and a conversation
\* whose other side hung up is ended by the broker, however busy it is
\* (HangUpEndsConversations of BrokerPorts).
EveryWaitEnds == Waiting ~> Over
=============================================================================
