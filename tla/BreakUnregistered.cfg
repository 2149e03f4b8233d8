CONSTANTS
    Shell = {s1}
    Command = {c1}
    None = None
    MaxTasks = 2
    LastTask = 1
    MaxPipe = 1
SPECIFICATION Spec
INVARIANT ForegroundIsHeard
CHECK_DEADLOCK FALSE
