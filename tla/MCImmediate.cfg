SPECIFICATION Spec
CONSTANTS
    Key = {x, y}
    x = x
    y = y
    a = a
    empty = empty
    Value = {empty, a}
    NoValue = empty
    MaxTxns = 2
    MaxWrites = 2
SYMMETRY Symm
INVARIANTS
    TypeOK
    VersionsAgree
    NoApplyError
    NoInterveningWrite
    StoreHoldsLastCommit
    AbortJustified
PROPERTIES
    CommitOrder
    Serializable
