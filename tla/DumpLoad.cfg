SPECIFICATION Spec
CONSTANTS
    d = d
    f = f
    g = g
    t = t
    alice = alice
    multi = multi
    single = single
    Path <- Paths
    Order <- PathOrder
    Below <- InD
    LikeBelow <- InD
    Entry <- Entries
    NoEntry = NoEntry
    NoChange = NoChange
    Delete = Delete
    Text = {t, BadText, EmptyText}
    EmptyText = EmptyText
    BadText = BadText
    Author = {alice, Unknown, Empty}
    Message = {multi, single, Empty}
    Empty = Empty
    Unknown = Unknown
    FirstLine <- Firsts
    NoProp = NoProp
    NoTree = NoTree
    Settings <- AllSettings
    MergePath = g
    MergeEntry <- DirEntry
    MaxMerges = 1
INVARIANTS
    RoundTrip
    ParsersAgree
    ChangesConserved
CHECK_DEADLOCK FALSE
