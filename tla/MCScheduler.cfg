SPECIFICATION FairSpec
CONSTANTS
    MaxTasks = 2
    MaxThreads = 3
    None = none
INVARIANTS
    TypeOK
    StatesTellWhoRuns
    QueueHoldsTheReady
    DeadNeverResumed
PROPERTIES
    RunReturnsWhenDone
    ThreadsTakeTurns
    RunnableRuns
    RunTerminates
