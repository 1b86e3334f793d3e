SPECIFICATION Spec
CONSTANTS
    Flashblocks <- MCRestartedFlashblocks
    Bodies <- MCBodies
    MaxDepth = 0
    StartHeight = 0
    MaxCacheAhead = 1
    Faults = {"reorg", "lag", "lose", "disorder", "provider", "execution"}
    MaxCommit = 1
    MaxMinted = 2
    MaxSent = 3
INVARIANTS
    PendingGapFree
    AnnouncedIsServed
    AnchorIsBase
    AnchorIsCanonicalParent
    CacheReplayable
    CacheBounded
    NoFlashblockStranded
PROPERTIES
    ImplementsPublisher
CHECK_DEADLOCK FALSE
