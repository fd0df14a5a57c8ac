SPECIFICATION Spec

CONSTANTS
    s1 = s1
    s2 = s2
    Specs <- TwoSpecs
    Faults <- RecoverableFaults
    MaxCalls = 5
    MaxTrouble = 4

SYMMETRY SameSpecs

INVARIANT SuccessIsReal
INVARIANT SomeWorkerSurvives
INVARIANT KeyIsKept
INVARIANT PreviousIsJournaled

CHECK_DEADLOCK FALSE
