-------------------------- MODULE PortConversation --------------------------
(***************************************************************************)
(* What the broker promises the sender of a message: from the moment the   *)
(* message is accepted it is pending until it is replied to or abandoned,  *)
(* one or the other, once, and only the sender's own departure ends the    *)
(* conversation in any other way.                                          *)
(***************************************************************************)

CONSTANT Id     \* message ids, in the order the broker gives them out

VARIABLE state

Phase == {"unsent", "pending", "replied", "abandoned", "forgotten"}

TypeOK == state \in [Id -> Phase]

Init == state = [i \in Id |-> "unsent"]

\* PORT_PUT is accepted.
Ask(i) ==
    /\ state[i] = "unsent"
    /\ state' = [state EXCEPT ![i] = "pending"]

\* PORT_PUT fails after it has taken an id, or its sender is already gone.
Refuse(i) ==
    /\ state[i] = "unsent"
    /\ state' = [state EXCEPT ![i] = "forgotten"]

\* PORT_REPLY.
Reply(i) ==
    /\ state[i] = "pending"
    /\ state' = [state EXCEPT ![i] = "replied"]

\* A port, a channel or a connection goes away: some pending messages are
\* abandoned, and the ones whose sender went are forgotten.
Depart(A, F) ==
    /\ \A i \in A : state[i] = "pending"
    /\ \A i \in F : state[i] # "unsent"
    /\ state' = [i \in Id |-> IF i \in F THEN "forgotten"
                              ELSE IF i \in A THEN "abandoned"
                              ELSE state[i]]

Next ==
    \/ \E i \in Id : Ask(i) \/ Refuse(i) \/ Reply(i)
    \/ \E A, F \in SUBSET Id : Depart(A, F)

Spec == Init /\ [][Next]_state
=============================================================================
