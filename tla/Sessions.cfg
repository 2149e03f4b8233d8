SPECIFICATION MCSpec
CONSTANTS
    Fd = {c1, c2, c3}
    SessionId = {i1, i2, i3}
    MaxSessions = 2
    Value = {fresh, used}
    Fresh = fresh
    NoSession = NoSession
    NoSlot = NoSlot
INVARIANTS
    TypesOK
    ClaimsSound
    
    NamesResolve
PROPERTIES
    LivesAsLongAsItsClaims
    BoundAssignsStandStill
CHECK_DEADLOCK FALSE
