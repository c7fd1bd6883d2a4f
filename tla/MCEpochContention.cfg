SPECIFICATION Spec
CONSTANTS
    x = x
    empty = empty
    Key = {x}
    Value = {empty}
    NoValue = empty
    MaxTxns = 3
    MaxWrites = 1
    IdRank <- TwoEngines
CHECK_DEADLOCK FALSE
INVARIANTS
    IInv
    EpochDecision
    OneWinnerPerKey
    PendingExactlyOnce
