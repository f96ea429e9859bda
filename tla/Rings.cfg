CONSTANTS
    Capacity = 4
    NumPush = 10
    NumPop = 8
    Raw = Raw
    Producers = {p1, p2}
    Consumers = {c1, c2}
    RteCapacity = 2
    ItemsST = 10
    ItemsMT = 2
    Width = 3
SPECIFICATION FairRings
INVARIANTS SlotOwnership NothingLeaks RteSlotOwnership
PROPERTIES IsFifo RteIsFifo TestsEnd
