SPECIFICATION TineSpec
CONSTANTS
    Shell = {s1}
    Command = {c1, c2}
    None = None
    MaxTasks = 1
    LastTask = 2
    MaxPipe = 2
INVARIANTS
    EditsLostOnlyIfConfirmed
CHECK_DEADLOCK FALSE
