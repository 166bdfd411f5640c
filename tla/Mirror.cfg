SPECIFICATION FairSpec
CONSTANTS
    a = a
    b = b
    e1 = e1
    e2 = e2
    m1 = m1
    m2 = m2
    Path <- Paths
    Below <- NoneBelow
    LikeBelow <- NoneBelow
    Entry = {e1, e2}
    NoEntry = NoEntry
    NoChange = NoChange
    Delete = Delete
    Mirror = {m1, m2}
    MaxHead = 9
    MaxFaults = 2
    CheckpointInterval = 2
    SnapshotInterval = 2
    Settings <- Scheduled
    Nobody = Nobody
    None = None
    NoTree = NoTree
    NoDelta = NoDelta
INVARIANTS
    ClaimedIsCopied
    InOrder
    NumbersKept
PROPERTIES
    MirrorFaithful
    RunEnds
