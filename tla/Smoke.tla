------------------------------- MODULE Smoke -------------------------------
(***************************************************************************)
(* lab8/smoke.c: the cigarette smokers' problem with one mutex, seven       *)
(* condition variables, an agent, a listener per resource, a smoker per     *)
(* resource and the main thread.                                            *)
(*                                                                          *)
(* Every thread but main holds the mutex from one pthread_cond_wait to the  *)
(* next, so each such stretch is one action and the mutex is free between   *)
(* actions.  The exception is num_active_threads++ in the smokers, which    *)
(* precedes pthread_mutex_lock: it is a load and a store.  Each condition   *)
(* variable has one thread that ever waits on it, so a signal wakes that    *)
(* thread if it waits and is lost otherwise.  Thread creation has no state: *)
(* a "created" thread is one that has not taken its first step.             *)
(***************************************************************************)
EXTENDS Naturals

CONSTANTS
    NUM_ITERATIONS, \* offers the agent makes (1000 in the code)
    MaxSpurious     \* bound: wakeups without a signal, which POSIX allows

ASSUME IterationsAssumption == NUM_ITERATIONS \in Nat \ {0}
ASSUME SpuriousAssumption == MaxSpurious \in Nat

MATCH == 1
PAPER == 2
TOBACCO == 4
Resource == {MATCH, PAPER, TOBACCO}

\* choices[r] are the resources the agent offers for the random number r and
\* matching_smoker[r] the smoker that lacks just those.
choices ==
    <<{MATCH, PAPER}, {MATCH, TOBACCO}, {PAPER, TOBACCO}>>
\* Mutant: two smokers exchanged.
swapped_smoker == <<PAPER, TOBACCO, MATCH>>
matching_smoker == <<TOBACCO, PAPER, MATCH>>

VARIABLES
    num_active_threads, \* int, incremented without the mutex
    loaded,             \* the register of each smoker's num_active_threads++
    sum,                \* resources the listeners have seen in this round
    signal_count, smoke_count,
    i,                  \* the agent's loop counter
    agent, listener, smoker, main, \* where each thread is
    spurious            \* spurious wakeups so far

vars == <<num_active_threads, loaded, sum, signal_count, smoke_count, i,
          agent, listener, smoker, main, spurious>>
counters == <<signal_count, smoke_count>>

AgentState == {"created", "startup", "restarted", "waiting", "woken", "done"}
ListenerState == {"created", "waiting", "woken"}
SmokerState == {"created", "loaded", "counted", "waiting", "woken"}

Total(count) == count[MATCH] + count[PAPER] + count[TOBACCO]

Init ==
    /\ num_active_threads = 0
    /\ loaded = [m \in Resource |-> 0]
    /\ sum = 0
    /\ signal_count = [m \in Resource |-> 0]
    /\ smoke_count = [m \in Resource |-> 0]
    /\ i = 0
    /\ agent = "created"
    /\ listener = [m \in Resource |-> "created"]
    /\ smoker = [m \in Resource |-> "created"]
    /\ main = "joining"
    /\ spurious = 0

-----------------------------------------------------------------------------
(* Condition variables. *)

\* pthread_cond_signal on the condition variable of the thread in this state.
Signal(state) == IF state = "waiting" THEN "woken" ELSE state

\* The agent waits for "smoke" at two places: before the first offer and
\* after each offer.
SignalSmoke(state) ==
    CASE state = "startup" -> "restarted"
      [] state = "waiting" -> "woken"
      [] OTHER -> state

-----------------------------------------------------------------------------
(* The smokers: wait_tobacco, wait_match, wait_paper. *)

\* The two halves of num_active_threads++, outside the mutex.
LoadCount(m) ==
    /\ smoker[m] = "created"
    /\ loaded' = [loaded EXCEPT ![m] = num_active_threads]
    /\ smoker' = [smoker EXCEPT ![m] = "loaded"]
    /\ UNCHANGED <<num_active_threads, sum, counters, i, agent, listener,
                   main, spurious>>

StoreCount(m) ==
    /\ smoker[m] = "loaded"
    /\ num_active_threads' = loaded[m] + 1
    /\ smoker' = [smoker EXCEPT ![m] = "counted"]
    /\ UNCHANGED <<loaded, sum, counters, i, agent, listener, main, spurious>>

SmokerWait(m) ==
    /\ smoker[m] = "counted"
    /\ smoker' = [smoker EXCEPT ![m] = "waiting"]
    /\ UNCHANGED <<num_active_threads, loaded, sum, counters, i, agent,
                   listener, main, spurious>>

\* Return from the wait, tell the agent, count the cigarette, wait again.
Smoke(m) ==
    /\ smoker[m] = "woken"
    /\ agent' = SignalSmoke(agent)
    /\ smoke_count' = [smoke_count EXCEPT ![m] = @ + 1]
    /\ smoker' = [smoker EXCEPT ![m] = "waiting"]
    /\ UNCHANGED <<num_active_threads, loaded, sum, signal_count, i, listener,
                   main, spurious>>

-----------------------------------------------------------------------------
(* The listeners: match_listener, paper_listener, tobacco_listener. *)

ListenerWait(r) ==
    /\ listener[r] = "created"
    /\ listener' = [listener EXCEPT ![r] = "waiting"]
    /\ UNCHANGED <<num_active_threads, loaded, sum, counters, i, agent, smoker,
                   main, spurious>>

\* The condition variables match_and_paper (3), match_and_tobacco (5) and
\* paper_and_tobacco (6), each by the smoker that waits on it.
PairSmoker(s) ==
    CASE s = MATCH + PAPER -> TOBACCO
      [] s = MATCH + TOBACCO -> PAPER
      [] s = PAPER + TOBACCO -> MATCH
Pairs == {MATCH + PAPER, MATCH + TOBACCO, PAPER + TOBACCO}

\* Mutant: sum is not reset once a pair is complete.
ListenNoReset(r) ==
    /\ listener[r] = "woken"
    /\ listener' = [listener EXCEPT ![r] = "waiting"]
    /\ sum' = sum + r
    /\ smoker' = IF sum + r \in Pairs
                 THEN [smoker EXCEPT ![PairSmoker(sum + r)] = Signal(@)]
                 ELSE smoker
    /\ UNCHANGED <<num_active_threads, loaded, counters, i, agent, main,
                   spurious>>

Listen(r) ==
    /\ listener[r] = "woken"
    /\ listener' = [listener EXCEPT ![r] = "waiting"]
    /\ \/ /\ sum + r \in Pairs
          /\ smoker' = [smoker EXCEPT ![PairSmoker(sum + r)] = Signal(@)]
          /\ sum' = 0
       \/ /\ sum + r \notin Pairs
          /\ sum' = sum + r
          /\ UNCHANGED smoker
    /\ UNCHANGED <<num_active_threads, loaded, counters, i, agent, main,
                   spurious>>

-----------------------------------------------------------------------------
(* The agent. *)

\* The body of its loop, for r = random() % 3 (counted from 1 here), up to
\* the wait for smoke.
Offer(r) ==
    /\ signal_count' = [signal_count EXCEPT ![matching_smoker[r]] = @ + 1]
    /\ listener' = [q \in Resource |->
                     IF q \in choices[r] THEN Signal(listener[q])
                                         ELSE listener[q]]
    /\ agent' = "waiting"

\* while (num_active_threads < 3) pthread_cond_wait(smoke).
AgentStartup ==
    /\ agent \in {"created", "restarted"}
    /\ num_active_threads < 3
    /\ agent' = "startup"
    /\ UNCHANGED <<num_active_threads, loaded, sum, counters, i, listener,
                   smoker, main, spurious>>

\* Mutant: the count compared one too low.
FirstOfferEarly ==
    /\ agent \in {"created", "restarted"}
    /\ num_active_threads >= 2
    /\ i' = 0
    /\ \E r \in 1..3 : Offer(r)
    /\ UNCHANGED <<num_active_threads, loaded, sum, smoke_count, smoker, main,
                   spurious>>

FirstOffer ==
    /\ agent \in {"created", "restarted"}
    /\ num_active_threads >= 3
    /\ i' = 0
    /\ \E r \in 1..3 : Offer(r)
    /\ UNCHANGED <<num_active_threads, loaded, sum, smoke_count, smoker, main,
                   spurious>>

\* Mutant: one iteration too many.
NextOfferOffByOne ==
    /\ agent = "woken"
    /\ i + 1 <= NUM_ITERATIONS
    /\ i' = i + 1
    /\ \E r \in 1..3 : Offer(r)
    /\ UNCHANGED <<num_active_threads, loaded, sum, smoke_count, smoker, main,
                   spurious>>

NextOffer ==
    /\ agent = "woken"
    /\ i + 1 < NUM_ITERATIONS
    /\ i' = i + 1
    /\ \E r \in 1..3 : Offer(r)
    /\ UNCHANGED <<num_active_threads, loaded, sum, smoke_count, smoker, main,
                   spurious>>

AgentReturns ==
    /\ agent = "woken"
    /\ i + 1 >= NUM_ITERATIONS
    /\ i' = i + 1
    /\ agent' = "done"
    /\ UNCHANGED <<num_active_threads, loaded, sum, counters, listener, smoker,
                   main, spurious>>

-----------------------------------------------------------------------------
(* main: pthread_join, the four asserts, and the exit that ends every       *)
(* thread still waiting.                                                    *)

AssertsHold ==
    /\ \A m \in Resource : signal_count[m] = smoke_count[m]
    /\ Total(smoke_count) = NUM_ITERATIONS

MainJoins ==
    /\ agent = "done"
    /\ main' = IF AssertsHold THEN "exited" ELSE "aborted"
    /\ UNCHANGED <<num_active_threads, loaded, sum, counters, i, agent,
                   listener, smoker, spurious>>

-----------------------------------------------------------------------------
\* pthread_cond_wait may return although nobody signalled.
SpuriousWake ==
    /\ spurious < MaxSpurious
    /\ spurious' = spurious + 1
    /\ \/ /\ agent \in {"startup", "waiting"}
          /\ agent' = SignalSmoke(agent)
          /\ UNCHANGED <<listener, smoker>>
       \/ \E r \in Resource :
             /\ listener[r] = "waiting"
             /\ listener' = [listener EXCEPT ![r] = "woken"]
             /\ UNCHANGED <<agent, smoker>>
       \/ \E m \in Resource :
             /\ smoker[m] = "waiting"
             /\ smoker' = [smoker EXCEPT ![m] = "woken"]
             /\ UNCHANGED <<agent, listener>>
    /\ UNCHANGED <<num_active_threads, loaded, sum, counters, i, main>>

SmokerStep(m) == LoadCount(m) \/ StoreCount(m) \/ SmokerWait(m) \/ Smoke(m)
ListenerStep(r) == ListenerWait(r) \/ Listen(r)
AgentStep == AgentStartup \/ FirstOffer \/ NextOffer \/ AgentReturns

\* The process lives until main returns.
Running == main = "joining"

Next ==
    \/ /\ Running
       /\ \/ \E m \in Resource : SmokerStep(m)
          \/ \E r \in Resource : ListenerStep(r)
          \/ AgentStep
          \/ MainJoins
          \/ SpuriousWake
    \/ ~Running /\ UNCHANGED vars

Spec == Init /\ [][Next]_vars

\* A thread that can run eventually does: a thread holds the mutex for one
\* action only, and no two threads can keep it from a third for ever, since
\* each waits after its action until it is signalled.
Fairness ==
    /\ \A m \in Resource : WF_vars(Running /\ SmokerStep(m))
    /\ \A r \in Resource : WF_vars(Running /\ ListenerStep(r))
    /\ WF_vars(Running /\ AgentStep)
    /\ WF_vars(Running /\ MainJoins)

FairSpec == Spec /\ Fairness

-----------------------------------------------------------------------------
(* Properties. *)

TypeOK ==
    /\ num_active_threads \in 0..3
    /\ loaded \in [Resource -> 0..2]
    /\ sum \in Nat
    /\ signal_count \in [Resource -> Nat]
    /\ smoke_count \in [Resource -> Nat]
    /\ i \in 0..NUM_ITERATIONS
    /\ agent \in AgentState
    /\ listener \in [Resource -> ListenerState]
    /\ smoker \in [Resource -> SmokerState]
    /\ main \in {"joining", "exited", "aborted"}
    /\ spurious \in 0..MaxSpurious

\* No wait has returned by itself so far.
SignalledOnly == spurious = 0

\* The asserts of main (smoke.c:231-234) do not fail as long as waits return
\* only on a signal.
MainAsserts == SignalledOnly => main # "aborted"

\* The agent leaves its startup loop only after every smoker has counted
\* itself, whatever the interleaving of the unlocked increments (updates may
\* be lost, none is invented) and however often a wait returns by itself.
AgentWaitsForCount ==
    agent \in {"waiting", "woken", "done"}
        => \A m \in Resource : smoker[m] \notin {"created", "loaded"}

\* Before the first offer nothing moves: the table is empty, no listener and
\* no smoker is awake and nobody has smoked.
BeforeFirstOffer ==
    /\ i = 0 /\ sum = 0
    /\ \A r \in Resource : listener[r] # "woken" /\ smoker[r] # "woken"
    /\ \A m \in Resource : signal_count[m] = 0 /\ smoke_count[m] = 0

\* While the agent waits, one smoker m is owed a cigarette and either it is
\* awake, with the table cleared, or the resources offered to it are on their
\* way: no listener of m's own resource is awake, and a resource already on
\* the table has no second listener behind it.
RoundOf(m) ==
    /\ signal_count = [smoke_count EXCEPT ![m] = @ + 1]
    /\ \A n \in Resource \ {m} : smoker[n] # "woken"
    /\ \/ /\ smoker[m] = "woken" /\ sum = 0
          /\ \A r \in Resource : listener[r] # "woken"
       \/ /\ smoker[m] # "woken"
          /\ listener[m] # "woken"
          /\ sum \in {0} \union (Resource \ {m})
          /\ sum # 0 => listener[sum] # "woken"

\* Between rounds everything offered has been smoked and nothing is left on
\* the table for the next round to trip over.
BetweenRounds ==
    /\ signal_count = smoke_count /\ sum = 0
    /\ \A r \in Resource : listener[r] # "woken" /\ smoker[r] # "woken"

\* Where the round stands, by what the agent is doing.
RoundProgress ==
    /\ agent \in {"created", "startup", "restarted"} => BeforeFirstOffer
    /\ agent = "waiting" =>
          /\ \E m \in Resource : RoundOf(m)
          /\ i < NUM_ITERATIONS /\ Total(signal_count) = i + 1
    /\ agent = "woken" =>
          BetweenRounds /\ i < NUM_ITERATIONS /\ Total(signal_count) = i + 1
    /\ agent = "done" => BetweenRounds /\ Total(signal_count) = NUM_ITERATIONS

\* The protocol of a round holds as long as waits return only on a signal: in
\* particular every resource offered is accounted for until it is smoked.
RoundInv == SignalledOnly => RoundProgress

Rounds == INSTANCE SmokeRounds

\* Until a wait returns by itself, offers and smokes alternate, each offer
\* smoked once by the smoker it was made for: smoke.c steps like SmokeRounds.
ImplementsRounds ==
    Rounds!Init /\ [][SignalledOnly' => Rounds!Next]_counters

AllWaiting == \A r \in Resource : listener[r] = "waiting" /\ smoker[r] = "waiting"

\* If the agent first locks the mutex when all six others wait and all three
\* increments survived, every offer is answered and the program ends, unless
\* a wait returns by itself.
ReadyStartTerminates ==
    (agent = "created" /\ AllWaiting /\ num_active_threads = 3)
        ~> (main = "exited" \/ ~SignalledOnly)

\* smoke.c:75: the agent is to "Wait until all other threads are waiting for
\* a signal"; a wait until a condition ends once the condition holds.
StartupWaitEnds ==
    (agent = "startup" /\ AllWaiting) ~> (agent # "startup")
=============================================================================
