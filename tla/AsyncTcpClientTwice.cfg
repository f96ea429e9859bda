CONSTANTS
    Sessions = {s1}
    Cancels = {c1, c2}
    NumThreads = 1
    Repeat = TRUE
    Nobody = Nobody
SPECIFICATION FairSpec
PROPERTIES CloseReturns
CHECK_DEADLOCK FALSE
