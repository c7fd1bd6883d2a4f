SPECIFICATION FairSpec
CONSTANTS
    x = x
    empty = empty
    Key = {x}
    Value = {empty}
    NoValue = empty
    MaxTxns = 2
    MaxWrites = 1
    IdRank <- RotatedRank
CHECK_DEADLOCK FALSE
PROPERTIES
    EveryCommitReturns
