SPECIFICATION Spec

CONSTANTS
    i1 = i1
    i2 = i2
    Items <- TwoItems
    NQueues = 2
    Cap <- CapTwoOne
    MaxActive = 1
    Scheduled <- Queue2
    Protected <- TwoItems
    Faults <- SecretFaults
    UserOps <- SerialOps
    Serial = TRUE
    Lives = 2
    Rounds = 1
    Slots = 2
    MaxAsked = 4
    MaxTurns = 1

INVARIANT TransfersWithinLimit
INVARIANT SlotsHeldByTransfers
INVARIANT StopHolds
INVARIANT StoppedQueueIsIdle
INVARIANT ShutdownStopsAll
PROPERTY CancelIsTerminal
SYMMETRY SameItems

CHECK_DEADLOCK FALSE
