SPECIFICATION ApiSpec
CONSTANTS
    Flashblocks <- MCFlashblocks
    Bodies <- MCBodies
    StartHeight = 0
    MaxCommit = 1
    MaxMinted = 1
    Kinds = {"receipt"}
    Requested = {2}
    BroadcastCapacity = 2
INVARIANT
    SeenThroughoutIsFound
CHECK_DEADLOCK FALSE
