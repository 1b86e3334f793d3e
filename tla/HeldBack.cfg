SPECIFICATION Spec
CONSTANTS
    c1 = c1
    latest = latest
    item1 = item1
    item2 = item2
    Connections = {c1}
    Subs = {latest, item1, item2}
    ConnectionOf <- MCConnectionOf
    KindOf <- MCKindOf
    Cap <- TwoPerItem
    MaxQueued = 0
    Capacity = 3
    MaxCounted = 3
    MaxCounters = 1
    MaxForeign = 1
INVARIANTS
    HeldBackOnlyByPrevious
SYMMETRY PerItemSymmetry
CHECK_DEADLOCK FALSE
