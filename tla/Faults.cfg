SPECIFICATION Spec
CONSTANTS
    Path <- OnePath
    Below <- NoneBelow
    LikeBelow <- NoneBelow
    Entry = {e1}
    Client = {c1, c2}
    MaxRev = 2
    SnapshotInterval = 2
    Modes = {"async", "sync"}
    Batches = TRUE
    Faults = {"reject", "io_error", "crash"}
    NoEntry = NoEntry
    NoChange = NoChange
    Delete = Delete
    NoClient = NoClient
    NoTree = NoTree
    NoDelta = NoDelta
    DeltaId = DeltaId
    Torn = Torn
    NoArg = NoArg
SYMMETRY Symmetry
INVARIANTS
    RevisionsComplete
    NoDanglingEntry
    ReconstructionFaithful
    WorkingTreeAgrees
PROPERTIES
    HistoryImmutable
