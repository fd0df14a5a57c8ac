SPECIFICATION FairSpec

CONSTANTS
    d1 = d1
    d2 = d2
    Downloads <- One
    MaxClaims = 1
    MaxPending = 1
    Faults <- AllFaults
    Users <- AllUsers
    Alarms = TRUE
    MaxTrouble = 5

INVARIANT PausedIsOwned
INVARIANT NotedOneCopy
PROPERTY PauseEnds

CHECK_DEADLOCK FALSE
