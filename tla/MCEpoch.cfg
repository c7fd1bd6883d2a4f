SPECIFICATION Spec
CONSTANTS
    x = x
    y = y
    a = a
    empty = empty
    Key = {x, y}
    Value = {empty, a}
    NoValue = empty
    MaxTxns = 2
    MaxWrites = 1
    IdRank <- RotatedRank
SYMMETRY Symm
CHECK_DEADLOCK FALSE
INVARIANTS
    TypeOK
    VersionsAgree
    StoreHoldsLastCommit
    AbortJustified
PROPERTIES
    Serializable
