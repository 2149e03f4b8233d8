SPECIFICATION LinesSpec
CONSTANTS
    Shell = {s1}
    Command = {c1, c2}
    None = None
    MaxTasks = 1
    LastTask = 2
    MaxPipe = 2
INVARIANTS
    OriginalKept
CHECK_DEADLOCK FALSE
