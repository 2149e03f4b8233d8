SPECIFICATION Spec
CONSTANTS
    MaxCalls = 5
    MaxDepth = 3
    Buffer = 2
INVARIANT ReadsWholeText
CHECK_DEADLOCK FALSE
