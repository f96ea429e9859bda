CONSTANTS
    Producers = {p1, p2}
    Consumers = {c1, c2}
    Capacity = 2
    ItemsST = 10
    ItemsMT = 2
    Width = 3
    Raw = Raw
SPECIFICATION Spec
INVARIANTS HeadTailAligned
