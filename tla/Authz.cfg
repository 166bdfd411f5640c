SPECIFICATION Spec
CONSTANTS
    alice = alice
    bob = bob
    devs = devs
    root = root
    star = star
    dir = dir
    file = file
    empty = empty
    User = {alice, bob}
    Anonymous = Anonymous
    Group = {devs}
    Path = {root, star, dir, file, empty}
    Root = root
    NoPath = empty
    Wild = {star}
    Ancestors <- AncestorsOf
    DefaultAccess = "none"
    MaxLines = 5
SYMMETRY SymmetricUsers

    
PROPERTIES
    LocalEffect
CHECK_DEADLOCK FALSE
