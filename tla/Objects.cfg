CONSTANTS
    Sizes = {0, 1, 3}
    TagWords = 13
    HeaderWords = 10
    Junk = {0, 3, 9}
    Readers = {r1, r2, r3}
    MaxPosts = 6
    Users = {u1, u2, u3}
    Keys = {msft, apple}
    MaxStocks = 4
    Callers = {c1, c2, c3, c4}
    Nullptr = Nullptr
SPECIFICATION ObjectsSpec
INVARIANTS HeapWalkable PayloadIntact SnapshotsStable ObjectsOwned
PROPERTIES IsAllocator
CHECK_DEADLOCK FALSE
