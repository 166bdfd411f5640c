SPECIFICATION FairSpec
CONSTANTS
    Client = {c1, c2}
    Path = {p1}
    Named <- OwnNames
    MaxTxns = 2
    MaxLoads = 1
    Settings <- CalmOrRough
    Nobody = Nobody
    NoTxn = NoTxn
INVARIANTS
    OneFate
    IsolatedWhenCalm
PROPERTIES
    NeverReplaced
    MergeEnds
