SPECIFICATION Spec

CONSTANTS
    Newest = 3
    MaxOps = 4
    Faults <- NoFaults

INVARIANT ReadyIsStaged
PROPERTY BusyEnds

CHECK_DEADLOCK FALSE
