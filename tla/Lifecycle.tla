------------------------------ MODULE Lifecycle ------------------------------
(***************************************************************************)
(* The life of the durable events as an application may rely on it: an     *)
(* event is stored once, is taken for processing by at most one attempt at *)
(* a time, goes back to the queue when the attempt fails and ends          *)
(* completed or errored.  The statuses are those of types/durableEvents.   *)
(***************************************************************************)
EXTENDS Naturals

CONSTANTS Events, InitialStage

VARIABLE stage              \* the status of each event, "absent" before it is stored

Transitions ==
    {<<"absent", "new">>, <<"new", "processing">>, <<"processing", "new">>,
     <<"processing", "completed">>, <<"processing", "errored">>}

Init == stage = InitialStage

\* An event changes its status along a transition.
Advance(e) ==
    \E t \in Transitions :
        /\ stage[e] = t[1]
        /\ stage' = [stage EXCEPT ![e] = t[2]]

\* The cleanup removes any number of finished events at once.
Forget(S) ==
    /\ \A e \in S : stage[e] \in {"completed", "errored", "absent"}
    /\ stage' = [e \in Events |-> IF e \in S THEN "absent" ELSE stage[e]]

Next == \/ \E e \in Events : Advance(e)
        \/ \E S \in SUBSET Events : Forget(S)

Spec == Init /\ [][Next]_stage
=============================================================================
