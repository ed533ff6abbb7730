SPECIFICATION Spec
CONSTANTS
    PageSize = 1
    MaxHeld = 1
    MaxSeq = 3
    MaxMessages = 2
    MaxText = 1
    MaxReloads = 0
    MaxOpens = 1
    MaxFaults = 0
INVARIANTS
    PreviewIsNewest
CHECK_DEADLOCK FALSE
