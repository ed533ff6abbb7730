SPECIFICATION Spec
CONSTANTS
    Routines = {1, 2}
    Created <- OneOrTwo
    Schedules <- TwoSchedules
    OtherZone <- SwapZone
    FirstSchedule <- OneEach
    MisfireWindow = 1
    BusyWait = 1
    RunDeadline = 1
    InterruptGrace = 1
    FailuresToPause = 2
    MaxTime = 3
    MaxRuns = 2
    MaxManual = 1
    MaxEvents = 1
INVARIANTS
    RunsDoNotOverlap
    NoTimeLost
    NoLostWake
PROPERTIES
    PausedStartsNothing
    EndsOnce
CHECK_DEADLOCK FALSE
VIEW Relevant
