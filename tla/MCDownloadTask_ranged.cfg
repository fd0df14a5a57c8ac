SPECIFICATION Spec

CONSTANTS
    Size = 3
    MaxConns = 2
    MinPart = 1
    ResumeSupport = TRUE
    MaxRetries = 1
    MaxRedirects = 0
    Limited = FALSE
    ChunkMax = 2
    MaxStarts = 2
    Faults <- BrokenFaults
    UserOps <- RestartOps

INVARIANT CompletedFileIsExact
INVARIANT SavedProgressIsWritten
INVARIANT BytesAtOwnOffset

CHECK_DEADLOCK FALSE
