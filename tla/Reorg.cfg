SPECIFICATION FairSpec
CONSTANTS
    Flashblocks <- MCReorgFlashblocks
    Bodies <- MCBodies
    MaxDepth = 0
    StartHeight = 0
    MaxCacheAhead = 1
    Faults = {"reorg", "execution"}
    MaxCommit = 1
    MaxMinted = 3
    MaxSent = 3
INVARIANTS
    StaleOnlyUntilNotified
PROPERTIES
    StaleEventuallyDropped
CHECK_DEADLOCK FALSE
