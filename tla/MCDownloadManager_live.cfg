SPECIFICATION FairSpec

CONSTANTS
    i1 = i1
    i2 = i2
    Items <- TwoItems
    NQueues = 1
    Cap <- CapTwo
    MaxActive = 1
    Scheduled <- Queue1
    Protected <- NoItems
    Faults <- OpenFault
    UserOps <- Waits
    Serial = FALSE
    Lives = 2
    Rounds = 1
    Slots = 2
    MaxAsked = 3
    MaxTurns = 1

PROPERTY ReadyStarts
PROPERTY CallsReturn

CHECK_DEADLOCK FALSE
