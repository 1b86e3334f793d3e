SPECIFICATION Spec
CONSTANTS
    Flashblocks <- MCReorgFlashblocks
    Bodies <- MCBodies
    MaxDepth = 1
    StartHeight = 0
    MaxCacheAhead = 1
    Faults = {}
    MaxCommit = 1
    MaxMinted = 3
    MaxSent = 4
INVARIANTS
    BehindOnlyWhileReceiving
CHECK_DEADLOCK FALSE
