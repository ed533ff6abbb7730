SPECIFICATION StreamSpec
CONSTANTS
    Writers = {w1}
    Conns = {c1}
    NoOne = NoOne
    Retention = 1
    PruneEvery = 1
    Capacity = 1
    MaxSeq = 1
    ReplayPage = 1
    RefusalLimit = 2
    LookupsFail = TRUE
    MaxFaults = 1
    MaxPings = 0
INVARIANTS
    SignedOutOnlyIfEnded
