SPECIFICATION LoopSpec
CONSTANTS
    Path <- MCPath
    Below <- MCBelow
    LikeBelow <- MCBelow
    PathOrder <- MCPathOrder
    Entry = {e1, e2}
    NoEntry = NoEntry
    NoChange = NoChange
    Delete = Delete
INVARIANTS
    ReplayIsApplyDelta
CHECK_DEADLOCK FALSE
