CONSTANTS
    Workers = {w1, w2}
    Clients = {c1, c2}
    NumCalls = 2
    MaxSize = 1
    NoTask = NoTask
SPECIFICATION FairSpec
INVARIANTS QueueBounded Accounted
PROPERTIES StopReturns ClientsReturn ServesAll
CHECK_DEADLOCK FALSE
