CONSTANTS
    f1 = f1
    f2 = f2
    dir = dir
    Path <- MCPath
    Below <- MCBelow
    LikeBelow <- MCBelow
    Entry = {f1, f2, dir}
    NoEntry = NoEntry
    NoChange = NoChange
    Delete = Delete
    Absent = Absent
    None = None
    MaxRev = 2
    MaxClock = 1
    Dir <- MCDir
    Edits <- MCEdits
    Dates = {1}
    PathOrder <- MCOrder
    Request <- MCRequest
SPECIFICATION Spec
INVARIANTS LogFaithful OnlyPublished DeletedRevFound DatedRevWasCurrent CheckoutSends
CHECK_DEADLOCK FALSE
