SPECIFICATION Spec
CONSTANTS
    Admin = {a1, a2}
    Extra = {x}
    Value = {BadDate, v1}
    BadDate = BadDate
    NoValue = NoValue
    Given = Given
    NoFile = NoFile
    Torn = Torn
    MaxRev = 2
    Plans <- Few
SYMMETRY Symmetry
CHECK_DEADLOCK FALSE
INVARIANTS
    CopyReadable
    VerifyTruthful
    RevpropsKept
    RowsKept
