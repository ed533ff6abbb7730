SPECIFICATION LiveSpec
CONSTANTS
    Messages = {m1, m2}
    Runs = {}
    GrantSets = {plain}
    NoOne = NoOne
    TurnLimit = 2
    MaxTurns = 2
    MaxChanges = 0
    MaxOthers = 1
    MaxFaults = 1
INVARIANTS
    StatusCurrent
PROPERTIES
    WorkEnds
    AnswerComes
    RunsEnd
CHECK_DEADLOCK FALSE
