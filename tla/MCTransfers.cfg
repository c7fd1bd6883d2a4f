SPECIFICATION FairDemoSpec
CONSTANTS
    x = x
    y = y
    c1 = c1
    c2 = c2
    Key = {x, y}
    Client = {c1, c2}
    NoValue <- Empty
    Value <- Amounts
    TxnsPerClient = 1
    MaxTxns = 2
    MaxWrites = 2
    InitialBalance = 1
    MaxTransfer = 1
    Faulty = {"load", "get", "apply", "dump", "boot", "sync", "submit", "crash", "stop", "stray"}
    MaxFaults = 2
INVARIANTS
    InstalledHistorySerial
    IInv
    Conservation
    PrintedSum
PROPERTIES
    DemoFinishes
    ShutdownCompletes
