----------------------------- MODULE SayVoices ------------------------------
(***************************************************************************)
(* The warm voices of `say' (src/src/broker.c): one child process per      *)
(* voice, kept until it has not been asked for during the idle period.     *)
(* The broker looks at them at each turn of its loop and sleeps in poll()  *)
(* until the first of them is due.                                         *)
(***************************************************************************)
EXTENDS Naturals, FiniteSets

CONSTANTS
    Voice,        \* names valid_say_voice() accepts
    MaxVoices,    \* MAX_SAY_VOICES
    Idle,         \* say_idle_seconds()
    BrokerIdle,   \* seconds a broker no shell claims lives on
    Horizon       \* bound: the time behaviours are followed to

\* The periods are seconds and the table has a size.
Constants ==
    /\ MaxVoices \in Nat /\ Idle \in Nat /\ BrokerIdle \in Nat /\ Horizon \in Nat

VARIABLES
    now,          \* time(NULL)
    warm,         \* name -> last_used, for the voices in the table
    children,     \* voices whose process runs
    wake,         \* when poll() returns of itself
    state,        \* "poll", "loop" or "gone"
    deadline      \* idle_deadline

vars == <<now, warm, children, wake, state, deadline>>

Known == DOMAIN warm

Without(gone) == [v \in Known \ gone |-> warm[v]]

(* reap_say_voices(): voices whose child has ended, and those idle for the *)
(* whole period, which are told to go and waited for.                      *)
Ended == Known \ children
Expired == {v \in Known \cap children :
              now >= warm[v] /\ now - warm[v] >= Idle}

(* say_poll_timeout() and broker_poll_timeout(): until the first voice is  *)
(* due, or the broker itself.                                              *)
OwnDeadlines == {now + Idle, deadline}
Deadlines == {now + Idle, deadline} \cup {warm[v] + Idle : v \in Known}

Sleep ==
    /\ state = "loop"
    /\ \E due \in Deadlines :
         /\ \A d \in Deadlines : due <= d
         /\ wake' = IF due <= now THEN now ELSE due
    /\ state' = "poll"
    /\ UNCHANGED <<now, warm, children, deadline>>

(* poll() returns at its timeout, or earlier for a request or a signal;    *)
(* the voices are looked at before anything else, and at last the broker's *)
(* own deadline.                                                           *)
Wakes ==
    /\ state = "poll"
    /\ warm' = Without(Ended \cup Expired)
    /\ children' = children \ Expired
    /\ state' = IF now >= deadline THEN "gone" ELSE "loop"
    /\ UNCHANGED <<now, wake, deadline>>

\* A mutated Warm: the table is never full.
WarmRegardless(v) ==
    /\ state = "loop"
    /\ LET kept == Known \ (Ended \cup Expired)
       IN  /\ warm' = [x \in kept \cup {v} |-> IF x = v THEN now ELSE warm[x]]
           /\ children' = (children \ Expired) \cup {v}
    /\ UNCHANGED <<now, wake, state, deadline>>

(* warm_say_voice(): after reaping, a voice that is there is touched, one  *)
(* that is not takes a free slot and a new child; a full table refuses.    *)
Warm(v) ==
    /\ state = "loop"
    /\ LET kept == Known \ (Ended \cup Expired)
       IN  IF v \in kept \/ Cardinality(kept) < MaxVoices
           THEN /\ warm' = [x \in kept \cup {v} |-> IF x = v THEN now ELSE warm[x]]
                /\ children' = (children \ Expired) \cup {v}
           ELSE /\ warm' = [x \in kept |-> warm[x]]
                /\ children' = children \ Expired
    /\ UNCHANGED <<now, wake, state, deadline>>

(* A claim on the broker moves its own deadline.                           *)
Claimed ==
    /\ state = "loop"
    /\ deadline' = now + BrokerIdle
    /\ UNCHANGED <<now, warm, children, wake, state>>

(* stop_say_voices(), on the way out: every voice's process group is       *)
(* told to go.                                                             *)
LeaveVoices == children
stop_say_voices == children \ Known

Stop ==
    /\ state = "gone"
    /\ children # {}
    /\ children' = stop_say_voices
    /\ UNCHANGED <<now, warm, wake, state, deadline>>

(* A voice may end by itself, execl() may fail.                            *)
ChildEnds(v) ==
    /\ v \in children
    /\ children' = children \ {v}
    /\ UNCHANGED <<now, warm, wake, state, deadline>>

(* Time passes while the broker sleeps, not beyond its timeout.            *)
Tick ==
    /\ state = "poll"
    /\ now < wake /\ now < Horizon
    /\ now' = now + 1
    /\ UNCHANGED <<warm, children, wake, state, deadline>>

Init ==
    /\ now = 0 /\ warm = [v \in {} |-> 0] /\ children = {}
    /\ wake = 0 /\ state = "loop" /\ deadline = BrokerIdle

Next ==
    \/ Sleep \/ Wakes \/ Claimed \/ Stop \/ Tick
    \/ \E v \in Voice : Warm(v) \/ ChildEnds(v)

(* The loop runs on, time passes and stop_server() finishes.               *)
FairSpec == Init /\ [][Next]_vars
              /\ WF_vars(Sleep) /\ WF_vars(Wakes) /\ WF_vars(Stop)

-----------------------------------------------------------------------------
TypeOK ==
    /\ now \in 0 .. Horizon /\ Known \subseteq Voice
    /\ \A v \in Known : warm[v] <= now
    /\ Cardinality(Known) <= MaxVoices
    /\ state \in {"poll", "loop", "gone"}

(* The broker never sleeps through a voice's deadline, nor its own: no     *)
(* voice outstays its idle period while the broker runs, no matter which   *)
(* voices were warmed, touched or ended since it went to sleep.            *)
NoVoiceOutstays ==
    /\ \A v \in Known : now - warm[v] <= Idle
    /\ state = "poll" => now <= deadline

Gone == state = "gone"
Quiet == children = {}

(* No voice process survives the broker's orderly end.                     *)
VoicesEndWithBroker == Gone ~> (Gone /\ Quiet)
=============================================================================
