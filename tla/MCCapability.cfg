SPECIFICATION Spec
CONSTANTS
    ObjTypes = {task, endpoint}
    NoType = none
    Rights = {read, send}
    Payloads = {p}
    NoPayload = nullptr
    MaxObjects = 2
    MaxCaps = 2
    GenMod = 4
INVARIANTS
    TypeOK
    RevokedTokenRefused
    LiveEntriesResolve
PROPERTIES
    ImplementsAbstract
