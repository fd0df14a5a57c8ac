----------------------- MODULE MCDistributedDownload -----------------------
(***************************************************************************)
(* Instances of DistributedDownload for TLC.                               *)
(***************************************************************************)
EXTENDS DistributedDownload

\* The second host may lie.
Host2 == {2}

\* Everything but a death between the rename and the manager's save.
TimelyFaults == FaultKinds \ {"lateCrash"}

AllOps == {"pause", "cancel", "cancelIdle"}

=============================================================================
