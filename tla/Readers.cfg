SPECIFICATION FairSpec
CONSTANTS
    Reader = {k1, k2}
    MaxRev = 3
    MaxAttempts = 3
    SnapshotInterval = 3
    CacheCapacity = 1
    Modes = {"async", "sync"}
    Settings <- OneOfTwo
    None = None
INVARIANTS
    ReadCorrect
    CacheCoherent
PROPERTIES
    ReadTerminates
