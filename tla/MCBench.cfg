SPECIFICATION FairBenchSpec
CONSTANTS
    x = x
    c1 = c1
    c2 = c2
    c3 = c3
    Key = {x}
    Client = {c1, c2, c3}
    NoValue <- Empty
    Value <- Counts
    ReadsPerTxn = 1
    WritesPerTxn = 1
    TotalTxnsPerClient = 1
    MaxTxns = 9
    MaxWrites = 1
    Latency = {1, 2}
INVARIANTS
    IncrementsCounted
    RetriesBounded
    ReportConsistent
    PercentileRight
PROPERTIES
    BenchFinishes
