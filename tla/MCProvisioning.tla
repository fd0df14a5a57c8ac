--------------------------- MODULE MCProvisioning ---------------------------
(***************************************************************************)
(* Instances of Provisioning for TLC.                                      *)
(***************************************************************************)
EXTENDS Provisioning, TLC

CONSTANTS s1, s2

TwoSpecs == {s1, s2}
SameSpecs == Permutations(TwoSpecs)

\* Everything but the deaths that the script does not survive whole.
RecoverableFaults == FaultKinds \ {"down", "window", "tornPrevious", "halfRemoved"}

=============================================================================
