SPECIFICATION Spec
CONSTANTS
    Descs = {d1, d2}
    Completions = {c1, c2}
    Sizes = {3}
    MaxEntries = 3
    CounterMod = 4
    RingToken = ring
    Endpoints = {ep}
    NoToken = null
    Nothing = nothing
CHECK_DEADLOCK FALSE
PROPERTY FifoForEverySize
