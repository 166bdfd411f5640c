SPECIFICATION Spec
CONSTANTS
    repo1 = repo1
    repo2 = repo2
    main = main
    other = other
    Name = {repo1, repo2}
    Unknown = Unknown
    Dir = {main, other}
    NoDir = NoDir
    RepoRoot = main
    Single = Single
    NoSlot = NoSlot
    NoRepo = NoRepo
    NoCommit = NoCommit
    MaxRev = 3
    MaxCommits = 4
    MaxWaiting = 2
SYMMETRY SymmetricNames
INVARIANTS
    RoutedAsNamed
PROPERTIES
    HistoryKept
