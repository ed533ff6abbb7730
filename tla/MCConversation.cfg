SPECIFICATION RestartSpec
CONSTANTS
    m1 = m1
    m2 = m2
    m3 = m3
    r1 = r1
    plain = plain
    tools = tools
    Messages = {m1, m2}
    Runs = {r1}
    GrantSets = {plain, tools}
    NoOne = NoOne
    TurnLimit = 2
    MaxTurns = 2
    MaxChanges = 1
    MaxFaults = 1
    MaxOthers = 1
SYMMETRY Symmetry
INVARIANTS
    ShownIsReal
    
    CountedExactly
    CarriesOver
PROPERTIES
    TurnsHaveGrants
    RunsInOrder
CHECK_DEADLOCK FALSE
