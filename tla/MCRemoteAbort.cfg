SPECIFICATION RemoteSpec
CONSTANTS
    Key = {x}
    x = x
    a = a
    empty = empty
    Value = {empty, a}
    NoValue = empty
    MaxTxns = 2
    MaxWrites = 1
    Faulty = {"apply"}
    MaxFaults = 1
SYMMETRY Symm
INVARIANT
    AbortRejectsInterleaving
