---------------------------- MODULE SmokeRounds ----------------------------
(***************************************************************************)
(* What lab8/smoke.c promises: the agent's offers and the smokes alternate. *)
(* An offer is made only when every earlier one has been smoked, and only   *)
(* the smoker it was meant for smokes it, once.  How resources travel from  *)
(* the agent through the listeners to the smoker is not visible here.       *)
(***************************************************************************)
EXTENDS Naturals

CONSTANT NUM_ITERATIONS

Smokers == {1, 2, 4}

VARIABLES signal_count, smoke_count
vars == <<signal_count, smoke_count>>

Total(count) == count[1] + count[2] + count[4]

Init ==
    /\ signal_count = [m \in Smokers |-> 0]
    /\ smoke_count = [m \in Smokers |-> 0]

\* The agent puts the two resources smoker m lacks on the table.
Offer(m) ==
    /\ signal_count = smoke_count
    /\ Total(signal_count) < NUM_ITERATIONS
    /\ signal_count' = [signal_count EXCEPT ![m] = @ + 1]
    /\ UNCHANGED smoke_count

\* Smoker m consumes the offer made to it.
Smoke(m) ==
    /\ smoke_count[m] < signal_count[m]
    /\ smoke_count' = [smoke_count EXCEPT ![m] = @ + 1]
    /\ UNCHANGED signal_count

Next == \E m \in Smokers : Offer(m) \/ Smoke(m)

Spec == Init /\ [][Next]_vars
=============================================================================
