SPECIFICATION RemoteSpec
CONSTANTS
    Key = {x, y}
    x = x
    y = y
    a = a
    empty = empty
    Value = {empty, a}
    NoValue = empty
    MaxTxns = 2
    MaxWrites = 1
    Faulty = {"load", "apply", "submit", "crash", "stop", "stray", "reload"}
    MaxFaults = 1
SYMMETRY Symm
INVARIANTS
    TypeOK
    ReportedCommitInStore
    InstalledHistorySerial
    ObservedUnlessGetFails
    AbortUnlessCallFails
