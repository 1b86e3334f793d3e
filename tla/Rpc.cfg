SPECIFICATION ApiSpec
CONSTANTS
    Flashblocks <- MCFlashblocks
    Bodies <- MCBodies
    StartHeight = 0
    MaxCommit = 1
    MaxMinted = 2
    Kinds = {"receipt", "block", "sync", "logs", "pendingLogs", "balance", "state", "call", "estimate", "fee", "gasPrice"}
    Requested = {2}
    BroadcastCapacity = 2
INVARIANTS
    DeltasAddUpToBlock
    SubmittedIsHeard
    EarlyTimeoutOnlyByReorg
    LogsOnce
    OnePending
    FailsOnlyIfDisturbed
CHECK_DEADLOCK FALSE
