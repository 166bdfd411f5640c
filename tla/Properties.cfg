SPECIFICATION Spec
CONSTANTS
    x = x
    y = y
    slashX = slashX
    Path = {p1, p2}
    Name <- Names
    Value = {"v", ""}
    NoValue = NoValue
    EmptyValue = ""
    Garbled <- GarbledNames
    Client = {c1, c2}
    Nobody = Nobody
    Bodies <- MCBodies
    NotCached = NotCached
    NoFile = NoFile
    Torn = Torn
    MaxRequests = 4
    MaxFaults = 2
INVARIANTS
    WrittenIsKept
PROPERTIES
    ImplementsStore
CHECK_DEADLOCK FALSE
