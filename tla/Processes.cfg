SPECIFICATION FairSpec
CONSTANTS
    Client = {"c1", "c2"}
    Broker = {"b1", "b2"}
    None = None
    MaxConnections = 2
INVARIANTS
    TypeOK
    NoStrandedBroker
    IdleMeansNobody
PROPERTIES
    EnsureReturns
    NobodyLeftBehind
CHECK_DEADLOCK FALSE
