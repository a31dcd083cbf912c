SPECIFICATION Spec
CONSTANTS
    AddrMod = 16
    PageSize = 2
    MaxPages = 4
    MaxRegions = 2
    MemMaps <- MCMemMaps
    Header = 2
    MinSplit = 1
    PageUnits = 4
    InitialPages = 2
    HeapUnits = 24
    Requests = {1, 4, 9}
    MaxPool = 7
    Depth = 2
    Fan = 2
    Pages = {1, 2, 3, 4, 5, 6, 7}
    Frames = {99}
    BootTables <- MCBootTables
    Boot = 1
    UserBase = 2
    PageBytes = 2
    MaxSpaces = 2
    None = none
    ImageSizes = {0, 4, 12, 18}
    BlockSize = 4
    Names <- MCNames
    PrefixFields <- MCPrefixes
    SizeFields <- MCSizeFields
    MaxFiles = 3
    MaxPath = 7
    MaxName = 6
    Queries <- MCQueries
    Capacity = 2
INVARIANTS
    
    HeapConsistent
    TablesConsistent
    TlbCoherent
    RangeCheckIsExact
    
    
PROPERTY
    StarvedHeapNeverGrows
CHECK_DEADLOCK FALSE
