\* Nobody signals the agent out of its startup wait.
CONSTANTS
    NUM_ITERATIONS = 1
    MaxSpurious = 0
SPECIFICATION FairSpec
PROPERTIES StartupWaitEnds
\* A signal missed at startup leaves every thread waiting.
CHECK_DEADLOCK FALSE
