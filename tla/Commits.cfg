SPECIFICATION Spec
CONSTANTS
    Path <- NestedPath
    Below <- NestedBelow
    LikeBelow <- NestedBelow
    Entry = {e1}
    Client = {c1, c2}
    MaxRev = 2
    SnapshotInterval = 2
    Modes = {"async", "sync"}
    Batches = FALSE
    Faults = {"reject"}
    NoEntry = NoEntry
    NoChange = NoChange
    Delete = Delete
    NoClient = NoClient
    NoTree = NoTree
    NoDelta = NoDelta
    DeltaId = DeltaId
    Torn = Torn
    NoArg = NoArg
SYMMETRY Symmetry
INVARIANTS
    RevisionIsReplay
    ReconstructionFaithful
    WorkingTreeAgrees
PROPERTIES
    ImplementsHistory
