SPECIFICATION FairSpec

CONSTANTS
    NPieces = 2
    NHosts = 2
    Liars <- Host2
    MaxAttempts = 2
    Faults <- TimelyFaults
    UserOps <- AllOps
    MaxStarts = 2
    MaxCrashes = 1

INVARIANT RecordsAreTrue
INVARIANT ProgressIsKept
INVARIANT InstalledIsDone
PROPERTY RunEnds

CHECK_DEADLOCK FALSE
