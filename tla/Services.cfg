SPECIFICATION MCFairSpec
CONSTANTS
    Conn = {s1, s2}
    Fmm = {f1, f2}
    Crm = {k1, k2}
    None = None
INVARIANTS
    TypesOK
    RootShellsAreServed
    AnswersAreTrue
    
    ClipsAreWhole
PROPERTIES
    AuthenticatesOnce
    
    CallsAndServicesEnd
CHECK_DEADLOCK FALSE
