SPECIFICATION Spec
CONSTANTS
    QueueSize = 2
    MaxTyped = 2
    MaxKeys = 2
    MaxWaiting = 4
    Chars = {space, a}
    Space = space
    Newline = nl
    Return = cr
    Backspace = bs
    Tab = tab
    Pattern = pattern
    NoFb = nofb
    Framebuffers <- MCFramebuffers
    HistoryRows = 3
    MaxColumns = 2
    TabStop = 2
    ScrollSteps <- MCScrollSteps
    WordMod = 64
    MaxLine = 4
INVARIANTS
    KeysMeanWhatWasTyped
    ScreenShowsText
PROPERTIES
    PressedKeysArrive
    
CHECK_DEADLOCK FALSE
