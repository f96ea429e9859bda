CONSTANTS
    NumLines = 1
    MaxLen = 1
    BufSize = 3
    MaxBuffers = 3
    Null = Null
SPECIFICATION Spec
INVARIANTS StartedRunning
CHECK_DEADLOCK FALSE
