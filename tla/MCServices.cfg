SPECIFICATION ServicesSpec
CONSTANTS
    Writers = {w1, w2}
    Conns = {c1}
    NoOne = NoOne
    Retention = 2
    PruneEvery = 2
    Capacity = 2
    MaxSeq = 6
    MaxUsers = 3
    MaxSessions = 3
    MaxInvitations = 1
    AccMaxRequests = 2
    MaxChanges = 2
    Threads = {"chat", "routine"}
    TurnWindow = 1
    TokenWindow = 2
    DailyTurns = 1
    WeeklyTokens = 1
    MeterMaxTime = 2
    MaxTotal = 1
    MeterMaxFaults = 1
    Users = {"anna", "ben"}
    MaxReplies = 2
    MaxText = 2
    MaxTurns = 2
    RepMaxFaults = 1
INVARIANTS
    LogSound
    RetentionKept
    LiveFeed
    AttemptsLimited
    UsageCounted
    OccurrencesMeant
    RepliesAreSaid
PROPERTIES
    RowsOnlyPruned
    AccountsKept
CHECK_DEADLOCK FALSE
