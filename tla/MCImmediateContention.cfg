SPECIFICATION Spec
CONSTANTS
    Key = {x}
    x = x
    a = a
    empty = empty
    Value = {empty, a}
    NoValue = empty
    MaxTxns = 3
    MaxWrites = 1
INVARIANTS
    IInv
PROPERTIES
    Serializable
