SPECIFICATION Spec
CONSTANTS
    Bots = {1, 2}
    MaxTexts = 2
    MaxRequests = 2
    MaxPins = 1
    MaxOpens = 2
    MaxFaults = 0
INVARIANT RefusedIsKept
CHECK_DEADLOCK FALSE
