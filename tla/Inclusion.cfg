SPECIFICATION FairSpec
CONSTANTS
    Txs = {"large", "small"}
    Blobs = {}
    EncodedLength <- MCEncodedLength
    MaxListBytes = 2
    Scores = {0, 1}
    Subscribers = {s1}
    EventCapacity = 1
    NoteCapacity = 1
    MaxPool = 3
    MaxCommits = 2
INVARIANTS
    TracksPool
PROPERTIES
    ListIsMaximal
    NewestListReachesClient
CHECK_DEADLOCK FALSE
