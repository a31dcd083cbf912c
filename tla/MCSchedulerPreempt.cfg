SPECIFICATION PreSpec
CONSTANTS
    MaxTasks = 1
    MaxThreads = 3
    None = none
    MaxCalls = 2
INVARIANT PreemptedThreadsFinish
