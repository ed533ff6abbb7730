SPECIFICATION AbruptSpec
CONSTANTS
    m1 = m1
    m2 = m2
    m3 = m3
    r1 = r1
    plain = plain
    tools = tools
    Messages = {m1}
    Runs = {}
    GrantSets = {plain, tools}
    NoOne = NoOne
    TurnLimit = 1
    MaxTurns = 1
    MaxChanges = 0
    MaxFaults = 1
    MaxOthers = 0
SYMMETRY Symmetry
INVARIANTS
    WorkingIsReal
CHECK_DEADLOCK FALSE
