SPECIFICATION Spec
CONSTANTS
    Sessions = {"phone"}
    Endpoints = {"here", "there"}
    Connections = {"socket"}
    Subscribed <- OneDevice
    Kinds = {"result"}
    HourlyLimit = 1
    PerTurn = 2
    PerHour = 2
    Hour = 1
    Day = 2
    Viewing = 1
    Retries = 1
    Page = 1
    MaxTime = 3
    MaxTurns = 1
    MaxRuns = 1
    MaxEvents = 2
INVARIANTS
    PushedOnce
    HourlyLimitKept
    NoneStranded
CHECK_DEADLOCK FALSE
VIEW Relevant
