SPECIFICATION FairStreamSpec
CONSTANTS
    Writers = {w1}
    Conns = {c1}
    NoOne = NoOne
    Retention = 1
    PruneEvery = 1
    Capacity = 1
    MaxSeq = 2
    ReplayPage = 1
    RefusalLimit = 2
    LookupsFail = TRUE
    MaxFaults = 1
    MaxPings = 1
PROPERTIES
    CatchesUp
    RevokedStops
