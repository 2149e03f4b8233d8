SPECIFICATION MCSpec
CONSTANTS
    Fd = {f1, f2, f3}
    Pid = {p1, p2}
    Name = {n1}
    NoPid = NoPid
    NoFd = NoFd
    MaxPorts = 1
    MaxChannels = 2
    MaxMessages = 2
    MaxEvents = 1
    LastPort = 1
    LastMessage = 2
    LastEvent = 0
SYMMETRY Symmetry
INVARIANTS
    TypesOK
    Answerable
    OneOutcomeEach
    InFlightIsDelivered
    BroadcastsInOrder
    
PROPERTIES
    KeepsThePromise
CHECK_DEADLOCK FALSE
