SPECIFICATION Spec
CONSTANTS
    Descs = {d1, d2}
    Completions = {c1, c2}
    Sizes = {1, 2}
    MaxEntries = 4
    CounterMod = 8
    RingToken = ring
    Endpoints = {ep}
    NoToken = null
    Nothing = nothing
CHECK_DEADLOCK FALSE
INVARIANT TypeOK
PROPERTY ImplementsQueues
