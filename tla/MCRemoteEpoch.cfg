SPECIFICATION FairRemoteSpec
CONSTANTS
    x = x
    empty = empty
    Key = {x}
    Value = {empty}
    NoValue = empty
    MaxTxns = 2
    MaxWrites = 1
    IdRank <- ReversedRank
    Faulty = {"apply", "panic", "crash", "stop", "stray"}
    MaxFaults = 2
CHECK_DEADLOCK FALSE
INVARIANTS
    TypeOK
    CommitKeptUnlessCallFails
    InstalledHistorySerial
    IInv
PROPERTIES
    BatchedCommitReturns
