SPECIFICATION Spec

CONSTANTS
    i1 = i1
    i2 = i2
    Items <- TwoItems
    NQueues = 1
    Cap <- CapTwo
    MaxActive = 1
    Scheduled <- Queue1
    Protected <- JustI1
    Faults <- AllFaults
    UserOps <- AllOps
    Serial = FALSE
    Lives = 2
    Rounds = 2
    Slots = 2
    MaxAsked = 3
    MaxTurns = 1

INVARIANT ItemsPlaced
INVARIANT WithinLimits

CHECK_DEADLOCK FALSE
