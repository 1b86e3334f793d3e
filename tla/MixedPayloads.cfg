SPECIFICATION Spec
CONSTANTS
    Flashblocks <- MCFlashblocks
    Bodies <- MCBodies
    MaxDepth = 1
    StartHeight = 0
    MaxCacheAhead = 1
    Faults = {}
    MaxCommit = 1
    MaxMinted = 2
    MaxSent = 4
INVARIANTS
    OnePayloadPerBlock
CHECK_DEADLOCK FALSE
