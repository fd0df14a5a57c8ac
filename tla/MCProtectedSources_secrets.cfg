SPECIFICATION FairSpec

CONSTANTS
    i1 = i1
    i2 = i2
    Items <- OneItem
    Faults <- AllButRead
    MaxSaves = 3
    MaxCrashes = 2
    Slots = 3

INVARIANT AcknowledgedIsKept
INVARIANT ResumableHasSecret
INVARIANT SecretsAreKnown
INVARIANT OverIsOver
PROPERTY ImplementsDurableState
PROPERTY SavesReturn

CHECK_DEADLOCK FALSE
