SPECIFICATION FairSpec

CONSTANTS
    Snapshots = {s1}
    NoSnapshot = none
    Labels = {l1}
    NoLabel = noLabel
    Keeps = {1}
    Hash <- Backwards
    MaxIds = 4
    Calls = {c1, c2}
    MaxCalls = 4
    Faults <- CleanFaults
    Serial = TRUE
    MaxCrashes = 1

INVARIANT WorkingIsCommitted
PROPERTY CallsSettle
PROPERTY ImplementsJournal

CHECK_DEADLOCK FALSE
