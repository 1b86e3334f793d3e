SPECIFICATION FairSpec
CONSTANTS
    Capacity = 1
    MaxBackoff = 2
    MaxWarnedKeys = 1
    Keys <- MCKeys
    Shapes <- MCShapes
    MaxSent = 4
    MaxFlight = 2
    MaxDue = 2
INVARIANTS
    TypeOK
    DeadFeedDetected
    PatientUnlessStalled
PROPERTIES
    DeadFeedReplaced
    ReadIsDelivered
    ImplementsFeed
CHECK_DEADLOCK FALSE
