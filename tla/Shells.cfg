SPECIFICATION MCFairSpec
CONSTANTS
    Shell = {s1}
    Command = {c1, c2}
    None = None
    MaxTasks = 1
    LastTask = 2
    MaxPipe = 1
INVARIANTS
    TypesOK
    ForegroundKnowsItsTask
    
    DosKeepsItsPlace
    HostProgramsAreRelayed
    
PROPERTIES
    
    BreaksAndEndsArrive
CHECK_DEADLOCK FALSE
