SPECIFICATION CodexSpec
CONSTANTS
    Users = {"anna"}
    FirstAuths = {"link", "file"}
    MaxOps = 3
    MaxServers = 3
    MaxEvents = 2
    Threads = {"chat", "routine"}
    AppMaxServers = 2
    MaxRequests = 3
    AppMaxCalls = 1
    Turns = {"t1", "t2"}
    PerTurn = 1
    PerDay = 1
    MaxNotes = 1
    DayMs = 1
    MaxTime = 1
    ToolMaxCalls = 2
    ToolMaxFaults = 1
VIEW Relevant
INVARIANTS
    StopsAreReal
PROPERTIES
    RefreshesOnce
    LoginEndsOnce
    RestartsOnlyFailed
    ServersKept
    CallsKept
CHECK_DEADLOCK FALSE
