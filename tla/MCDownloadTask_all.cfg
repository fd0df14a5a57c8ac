SPECIFICATION FairSpec

CONSTANTS
    Size = 2
    MaxConns = 1
    MinPart = 2
    ResumeSupport = FALSE
    MaxRetries = 1
    MaxRedirects = 1
    Limited = TRUE
    ChunkMax = 2
    MaxStarts = 1
    Faults <- AllFaults
    UserOps <- AllOps

PROPERTY QuietAtRest
PROPERTY TransferSettles

CHECK_DEADLOCK FALSE
