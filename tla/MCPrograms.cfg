SPECIFICATION MCSpec
CONSTANTS
    Descs = {good, bad}
    Completions <- MCCompletions
    Sizes = {1, 2}
    MaxEntries = 2
    CounterMod = 4
    RingToken = ring
    Endpoints = {console, other}
    NoToken = null
    Nothing = nothing
    Console = console
    Good = {good}
    Batches <- MCBatches
    NoStatus = nostatus
    MaxTasks = 3
    Blocks = {b1, b2, b3, b4}
    MaxPages = 6
    Images = {2}
    StubRunners = {notask, 0}
    NoTask = notask
    NoBlock = noblock
    Static = static
    Boot = boot
SYMMETRY BlockSymmetry
INVARIANTS
    ServiceFindsItsBatch
    CarefulTaskLosesNothing
    
    StateFollowsRuns
    ResourcesHeldByRuns
PROPERTY
    NestedRunsDoNotInterfere
CHECK_DEADLOCK FALSE
