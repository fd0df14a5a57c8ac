------------------------- MODULE MCDownloadManager -------------------------
(***************************************************************************)
(* Instances of DownloadManager for TLC: two items, one or two queues.     *)
(***************************************************************************)
EXTENDS DownloadManager, TLC

CONSTANTS i1, i2

TwoItems == {i1, i2}
SameItems == Permutations(TwoItems)
NoItems == {}
JustI1 == {i1}

CapTwo == [q \in Queues |-> 2]
CapTwoOne == [q \in Queues |-> IF q = 1 THEN 2 ELSE 1]

Queue1 == {1}
Queue2 == {2}

OpenFault == {"open"}
SecretFaults == {"vault", "create"}
AllFaults == FaultKinds

AllOps == Ops
SerialOps == {"add", "pause", "resume", "cancel", "stopQueue", "shutdown"}
Waits == {"add", "cancel", "shutdown"}

=============================================================================
