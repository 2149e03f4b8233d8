SPECIFICATION Spec
CONSTANTS
    Fd = {c1, c2, c3}
    SessionId = {i1, i2, i3, i4}
    MaxSessions = 3
    Value = {fresh, used}
    Fresh = fresh
    NoSession = NoSession
    NoSlot = NoSlot
PROPERTY
    CloneCopiesItsParent
