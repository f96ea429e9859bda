CONSTANTS
    Sessions = {s1, s2}
    Cancels = {c1, c2}
    NumThreads = 2
    Repeat = FALSE
    Nobody = Nobody
SPECIFICATION FairSpec
INVARIANTS CancelledReported
PROPERTIES NoOperationAfterCancel CalledBack CloseReturns
