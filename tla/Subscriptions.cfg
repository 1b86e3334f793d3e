SPECIFICATION FairSpec
CONSTANTS
    c1 = c1
    latest = latest
    item1 = item1
    item2 = item2
    Connections = {c1}
    Subs = {latest, item1, item2}
    ConnectionOf <- MCConnectionOf
    KindOf <- MCKindOf
    Cap <- OneEach
    MaxQueued = 0
    Capacity = 2
    MaxCounted = 3
    MaxCounters = 2
    MaxForeign = 1
INVARIANTS
    TypeOK
    SlotsCounted
    OneCounterPerConnection
    PerItemBounded
    SkipsOnlyBehindCounted
PROPERTIES
    GoneGivesBack
CHECK_DEADLOCK FALSE
