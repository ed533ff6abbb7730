SPECIFICATION PagesSpec
CONSTANTS
    Writers = {w1}
    Conns = {c1}
    NoOne = NoOne
    Retention = 1
    PruneEvery = 1
    Capacity = 1
    MaxSeq = 3
    ReplayPage = 1
    RefusalLimit = 2
    LookupsFail = FALSE
    MaxFaults = 2
    MaxPings = 0
    MaxSessions = 2
    MaxEndpoints = 2
    NoteMaxRequests = 4
    MaxLaunches = 1
    NoteMaxFaults = 1
    Bots = {1, 2}
    MaxTexts = 2
    CmdMaxRequests = 2
    MaxPins = 1
    CmdMaxOpens = 2
    CmdMaxFaults = 1
    MaxLogins = 2
    AdmMaxRequests = 4
    AdmMaxOpens = 1
    MaxOthers = 1
    AdmMaxFaults = 1
INVARIANTS
    SignedOutOnlyIfEnded
    ControlsAreReal
    CommandsKept
    CopyIsCurrent
PROPERTIES
    FollowsFeed
CHECK_DEADLOCK FALSE
