\* Three offers; one wait may return by itself.
CONSTANTS
    NUM_ITERATIONS = 3
    MaxSpurious = 1
SPECIFICATION FairSpec
INVARIANTS TypeOK AgentWaitsForCount RoundInv MainAsserts
PROPERTIES ImplementsRounds ReadyStartTerminates
\* A signal missed at startup leaves every thread waiting.
CHECK_DEADLOCK FALSE
