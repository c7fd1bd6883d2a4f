SPECIFICATION RemoteSpec
CONSTANTS
    x = x
    a = a
    empty = empty
    Key = {x}
    Value = {empty, a}
    NoValue = empty
    MaxTxns = 2
    MaxWrites = 1
    IdRank <- ReversedRank
    Faulty = {"apply"}
    MaxFaults = 1
CHECK_DEADLOCK FALSE
INVARIANT
    ReportedCommitInStore
