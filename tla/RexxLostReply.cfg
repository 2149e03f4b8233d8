CONSTANTS
    Proc = {p1, p2}
    Msg = {m1}
    NoProc = NoProc
    NoMsg = NoMsg
    MaxChannels = 2
    MaxMessages = 2
    LastPort = 1
    LastId = 1
SPECIFICATION Spec
INVARIANT OutcomeNotLost
CHECK_DEADLOCK FALSE
