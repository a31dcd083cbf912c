SPECIFICATION UmSpec
CONSTANTS
    MaxTasks = 3
    Blocks = {b1, b2, b3, b4}
    MaxPages = 6
    Images = {2}
    StubRunners = {notask, 0}
    NoTask = notask
    NoBlock = noblock
    Static = static
    Boot = boot
INVARIANT FaultFrameOnOwnStack
CHECK_DEADLOCK FALSE
