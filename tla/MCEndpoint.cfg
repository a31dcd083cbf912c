SPECIFICATION EpSpec
CONSTANTS
    ObjTypes = {endpoint, other}
    NoType = none
    Rights = {send, bind}
    Payloads = {0, 1, 99}
    NoPayload = nullptr
    MaxObjects = 3
    MaxCaps = 2
    GenMod = 2
    EndpointType = endpoint
    Send = send
    Bind = bind
    Handlers = {h1, h2}
    NoHandler = null
    Services = {s1, s2}
    NoService = nosvc
    MaxEndpoints = 2
    MaxServices = 2
INVARIANTS
    EpTypeOK
    CallReachesItsHandler
    SlotsHeldByEndpoints
PROPERTIES
    ServiceBindingPermanent
