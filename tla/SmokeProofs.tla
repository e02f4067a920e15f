---------------------------- MODULE SmokeProofs ----------------------------
(***************************************************************************)
(* Theorems about lab8/smoke.c as modelled in Smoke, for every number of    *)
(* iterations and any number of wakeups without a signal.  Two inductive    *)
(* invariants: CountInv, which holds however often a wait returns by        *)
(* itself, and RoundIInv, whose rounds hold until one does.                 *)
(***************************************************************************)
EXTENDS Smoke, TLAPS

USE DEF Resource, MATCH, PAPER, TOBACCO

Counted(m) == IF smoker[m] \in {"created", "loaded"} THEN 0 ELSE 1
AllCounted == Counted(MATCH) + Counted(PAPER) + Counted(TOBACCO)

\* The strengthening of AgentWaitsForCount: lost updates only lower the count.
CountInv ==
    /\ TypeOK
    /\ num_active_threads <= AllCounted
    /\ \A m \in Resource : smoker[m] = "loaded" => loaded[m] <= AllCounted
    /\ AgentWaitsForCount
    /\ agent \in {"waiting", "woken"} => i < NUM_ITERATIONS

LEMMA CountInit == Init => CountInv
  BY IterationsAssumption, SpuriousAssumption
  DEF Init, CountInv, TypeOK, AgentWaitsForCount, AllCounted, Counted,
      AgentState, ListenerState, SmokerState

LEMMA CountStep == CountInv /\ [Next]_vars => CountInv'
<1> SUFFICES ASSUME CountInv, [Next]_vars
             PROVE  CountInv'
  OBVIOUS
<1> USE IterationsAssumption, SpuriousAssumption
    DEF CountInv, TypeOK, AgentWaitsForCount, AllCounted, Counted,
        AgentState, ListenerState, SmokerState, counters
<1>1. ASSUME NEW m \in Resource, LoadCount(m)
      PROVE  CountInv'
  BY <1>1 DEF LoadCount
<1>2. ASSUME NEW m \in Resource, StoreCount(m)
      PROVE  CountInv'
  BY <1>2 DEF StoreCount
<1>3. ASSUME NEW m \in Resource, SmokerWait(m)
      PROVE  CountInv'
  BY <1>3 DEF SmokerWait
<1>4. ASSUME NEW m \in Resource, Smoke(m)
      PROVE  CountInv'
  BY <1>4 DEF Smoke, SignalSmoke
<1>5. ASSUME NEW r \in Resource, ListenerWait(r)
      PROVE  CountInv'
  BY <1>5 DEF ListenerWait
<1>6. ASSUME NEW r \in Resource, Listen(r)
      PROVE  CountInv'
  BY <1>6 DEF Listen, Pairs, PairSmoker, Signal
<1>7. CASE AgentStartup
  BY <1>7 DEF AgentStartup
<1>8. CASE FirstOffer
  BY <1>8 DEF FirstOffer, Offer, Signal, choices, matching_smoker
<1>9. CASE NextOffer
  BY <1>9 DEF NextOffer, Offer, Signal, choices, matching_smoker
<1>10. CASE AgentReturns
  BY <1>10 DEF AgentReturns
<1>11. CASE MainJoins
  BY <1>11 DEF MainJoins
<1>12. CASE SpuriousWake
  BY <1>12 DEF SpuriousWake, SignalSmoke
<1>13. CASE UNCHANGED vars
  BY <1>13 DEF vars
<1> QED
  BY <1>1, <1>2, <1>3, <1>4, <1>5, <1>6, <1>7, <1>8, <1>9, <1>10, <1>11,
     <1>12, <1>13
  DEF Next, SmokerStep, ListenerStep, AgentStep

\* Every variable keeps its type; the count of active threads stays in 0..3.
THEOREM TypeCorrect == Spec => []TypeOK
<1>1. CountInv => TypeOK
  BY DEF CountInv
<1> QED
  BY <1>1, CountInit, CountStep, PTL DEF Spec

\* No interleaving of the unlocked increments and no number of spurious
\* wakeups lets the agent past its startup loop before every smoker has
\* counted itself.
THEOREM AgentWaits == Spec => []AgentWaitsForCount
<1>1. CountInv => AgentWaitsForCount
  BY DEF CountInv
<1> QED
  BY <1>1, CountInit, CountStep, PTL DEF Spec
-----------------------------------------------------------------------------
(* The rounds. *)

RoundIInv == TypeOK /\ RoundInv /\ MainAsserts

LEMMA RoundInit == Init => RoundIInv
  BY CountInit
  DEF Init, CountInv, RoundIInv, RoundInv, RoundProgress, BeforeFirstOffer,
      MainAsserts

\* An offer made between rounds opens the round of the smoker it is for.
LEMMA OfferOpensRound ==
  ASSUME TypeOK, BetweenRounds, NEW r \in 1..3, Offer(r),
         UNCHANGED <<sum, smoke_count, smoker>>
  PROVE  /\ RoundOf(matching_smoker[r])'
         /\ Total(signal_count)' = Total(signal_count) + 1
<1> USE DEF TypeOK, BetweenRounds, Offer, Signal, choices, matching_smoker,
        RoundOf, Total, ListenerState, SmokerState
<1>1. CASE r = 1
  BY <1>1
<1>2. CASE r = 2
  BY <1>2
<1>3. CASE r = 3
  BY <1>3
<1> QED
  BY <1>1, <1>2, <1>3

\* Every step but a spurious wakeup keeps the protocol of the round.
LEMMA RoundStep ==
  ASSUME TypeOK, TypeOK', RoundProgress, main # "aborted", [Next]_vars,
         SignalledOnly'
  PROVE  RoundProgress' /\ main' # "aborted"
<1> USE IterationsAssumption DEF TypeOK, AgentState, ListenerState,
        SmokerState, counters, Total
<1>1. ASSUME NEW m \in Resource, LoadCount(m)
      PROVE  RoundProgress' /\ main' # "aborted"
  BY <1>1 DEF LoadCount, RoundProgress, BeforeFirstOffer, RoundOf, BetweenRounds
<1>2. ASSUME NEW m \in Resource, StoreCount(m)
      PROVE  RoundProgress' /\ main' # "aborted"
  BY <1>2 DEF StoreCount, RoundProgress, BeforeFirstOffer, RoundOf, BetweenRounds
<1>3. ASSUME NEW m \in Resource, SmokerWait(m)
      PROVE  RoundProgress' /\ main' # "aborted"
  BY <1>3 DEF SmokerWait, RoundProgress, BeforeFirstOffer, RoundOf, BetweenRounds
<1>4. ASSUME NEW m \in Resource, Smoke(m)
      PROVE  RoundProgress' /\ main' # "aborted"
  BY <1>4 DEF Smoke, SignalSmoke, RoundProgress, BeforeFirstOffer, RoundOf,
              BetweenRounds
<1>5. ASSUME NEW r \in Resource, ListenerWait(r)
      PROVE  RoundProgress' /\ main' # "aborted"
  BY <1>5 DEF ListenerWait, RoundProgress, BeforeFirstOffer, RoundOf, BetweenRounds
<1>6. ASSUME NEW r \in Resource, Listen(r)
      PROVE  RoundProgress' /\ main' # "aborted"
  BY <1>6 DEF Listen, Pairs, PairSmoker, Signal, RoundProgress, BeforeFirstOffer,
              RoundOf, BetweenRounds
<1>7. CASE AgentStartup
  BY <1>7 DEF AgentStartup, RoundProgress, BeforeFirstOffer
<1>8. CASE FirstOffer
  <2>1. /\ i' = 0 /\ main' = main /\ agent' = "waiting"
        /\ BeforeFirstOffer /\ BetweenRounds
        /\ UNCHANGED <<sum, smoke_count, smoker>>
    BY <1>8 DEF FirstOffer, Offer, RoundProgress, BeforeFirstOffer, BetweenRounds
  <2>2. PICK r \in 1..3 : Offer(r)
    BY <1>8 DEF FirstOffer
  <2>3. RoundOf(matching_smoker[r])' /\ Total(signal_count)' = 1
    BY <2>1, <2>2, OfferOpensRound DEF BeforeFirstOffer
  <2> QED
    BY <2>1, <2>3 DEF RoundProgress, matching_smoker
<1>9. CASE NextOffer
  <2>1. /\ i' = i + 1 /\ i' < NUM_ITERATIONS /\ main' = main
        /\ agent' = "waiting" /\ BetweenRounds
        /\ Total(signal_count) = i + 1
        /\ UNCHANGED <<sum, smoke_count, smoker>>
    BY <1>9 DEF NextOffer, Offer, RoundProgress
  <2>2. PICK r \in 1..3 : Offer(r)
    BY <1>9 DEF NextOffer
  <2>3. RoundOf(matching_smoker[r])' /\ Total(signal_count)' = i + 2
    BY <2>1, <2>2, OfferOpensRound
  <2> QED
    BY <2>1, <2>3 DEF RoundProgress, matching_smoker
<1>10. CASE AgentReturns
  BY <1>10 DEF AgentReturns, RoundProgress, BetweenRounds
<1>11. CASE MainJoins
  BY <1>11 DEF MainJoins, AssertsHold, RoundProgress, BetweenRounds
<1>12. CASE SpuriousWake
  BY <1>12 DEF SpuriousWake, SignalledOnly
<1>13. CASE UNCHANGED vars
  BY <1>13 DEF vars, RoundProgress, BeforeFirstOffer, RoundOf, BetweenRounds
<1> QED
  BY <1>1, <1>2, <1>3, <1>4, <1>5, <1>6, <1>7, <1>8, <1>9, <1>10, <1>11,
     <1>12, <1>13
  DEF Next, SmokerStep, ListenerStep, AgentStep

\* A wait that has returned by itself stays so counted.
LEMMA SpuriousGrows ==
  ASSUME TypeOK, [Next]_vars, SignalledOnly'
  PROVE  SignalledOnly
<1> USE DEF SignalledOnly, TypeOK
<1>1. CASE SpuriousWake
  BY <1>1, SpuriousAssumption DEF SpuriousWake
<1>2. CASE ~SpuriousWake
  BY <1>2 DEF Next, vars, SmokerStep, ListenerStep, AgentStep, LoadCount,
              StoreCount, SmokerWait, Smoke, ListenerWait, Listen,
              AgentStartup, FirstOffer, NextOffer, AgentReturns, MainJoins
<1> QED
  BY <1>1, <1>2

LEMMA RoundsAlways == Spec => []RoundIInv
<1>1. Init => RoundIInv
  BY RoundInit
<1>2. RoundIInv /\ TypeOK' /\ [Next]_vars => RoundIInv'
  BY RoundStep, SpuriousGrows DEF RoundIInv, RoundInv, MainAsserts
<1> QED
  BY <1>1, <1>2, TypeCorrect, PTL DEF Spec

\* Until a wait returns by itself, in every round the offer reaches the one
\* smoker it is for, and nothing is left over for the next round.
THEOREM RoundProtocol == Spec => []RoundInv
<1>1. RoundIInv => RoundInv
  BY DEF RoundIInv
<1> QED
  BY <1>1, RoundsAlways, PTL

\* Until a wait returns by itself, no assert of main fails.
THEOREM AssertsNeverFail == Spec => []MainAsserts
<1>1. RoundIInv => MainAsserts
  BY DEF RoundIInv
<1> QED
  BY <1>1, RoundsAlways, PTL

\* Until a wait returns by itself, smoke.c implements the alternation of
\* offers and smokes of SmokeRounds.
THEOREM RoundsImplemented == Spec => ImplementsRounds
<1> USE DEF Rounds!Smokers, Rounds!vars, Rounds!Total, Total
<1>1. Init => Rounds!Init
  BY DEF Init, Rounds!Init
<1>2. ASSUME RoundIInv, [Next]_vars
      PROVE  [SignalledOnly' => Rounds!Next]_counters
  <2>0. SUFFICES ASSUME SignalledOnly' PROVE Rounds!Next \/ UNCHANGED counters
    OBVIOUS
  <2>10. RoundProgress
    BY <1>2, <2>0, SpuriousGrows DEF RoundIInv, RoundInv
  <2> USE DEF RoundIInv, TypeOK, AgentState, ListenerState, SmokerState
  <2>1. ASSUME BetweenRounds, NEW r \in 1..3, Offer(r), UNCHANGED smoke_count,
               Total(signal_count) < NUM_ITERATIONS
        PROVE  Rounds!Offer(matching_smoker[r]) /\ matching_smoker[r] \in Resource
    BY <1>2, <2>1 DEF Offer, Rounds!Offer, matching_smoker, BetweenRounds
  <2>2. ASSUME FirstOffer
        PROVE  Rounds!Next
    <3>1. BetweenRounds /\ Total(signal_count) < NUM_ITERATIONS
      BY <1>2, <2>10, <2>2, IterationsAssumption
      DEF FirstOffer, RoundProgress, BeforeFirstOffer, BetweenRounds
    <3> QED
      <4>1. PICK r \in 1..3 : Offer(r)
        BY <2>2 DEF FirstOffer
      <4>2. UNCHANGED smoke_count
        BY <2>2 DEF FirstOffer
      <4>3. Rounds!Offer(matching_smoker[r]) /\ matching_smoker[r] \in Resource
        BY <3>1, <4>1, <4>2, <2>1
      <4> QED
        BY <4>3 DEF Rounds!Next
  <2>3. ASSUME NextOffer
        PROVE  Rounds!Next
    <3>1. BetweenRounds /\ Total(signal_count) < NUM_ITERATIONS
      BY <1>2, <2>10, <2>3 DEF NextOffer, RoundProgress
    <3> QED
      <4>1. PICK r \in 1..3 : Offer(r)
        BY <2>3 DEF NextOffer
      <4>2. UNCHANGED smoke_count
        BY <2>3 DEF NextOffer
      <4>3. Rounds!Offer(matching_smoker[r]) /\ matching_smoker[r] \in Resource
        BY <3>1, <4>1, <4>2, <2>1
      <4> QED
        BY <4>3 DEF Rounds!Next
  <2>4. ASSUME NEW m \in Resource, Smoke(m)
        PROVE  Rounds!Next
    <3>1. smoke_count[m] < signal_count[m]
      BY <1>2, <2>10, <2>4 DEF Smoke, RoundProgress, RoundOf, BetweenRounds, BeforeFirstOffer
    <3>2. Rounds!Smoke(m)
      BY <1>2, <3>1, <2>4 DEF Smoke, Rounds!Smoke
    <3> QED
      BY <3>2 DEF Rounds!Next
  <2>5. \/ FirstOffer \/ NextOffer \/ \E m \in Resource : Smoke(m)
        \/ UNCHANGED counters
    BY <1>2 DEF Next, SmokerStep, ListenerStep, AgentStep, LoadCount, StoreCount,
           SmokerWait, ListenerWait, Listen, AgentStartup, AgentReturns,
           MainJoins, SpuriousWake, vars, counters
  <2> QED
    BY <2>2, <2>3, <2>4, <2>5 DEF counters
<1> QED
  BY <1>1, <1>2, RoundsAlways, PTL DEF Spec, ImplementsRounds
=============================================================================
