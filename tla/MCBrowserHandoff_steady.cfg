SPECIFICATION Spec

CONSTANTS
    d1 = d1
    d2 = d2
    Downloads <- Two
    MaxClaims = 1
    MaxPending = 1
    Faults <- SteadyFaults
    Users <- AllUsers
    Alarms = FALSE
    MaxTrouble = 3

SYMMETRY Same

INVARIANT OneCopy
INVARIANT NeverLost

CHECK_DEADLOCK FALSE
