------------------------- MODULE MCProtectedSources -------------------------
(***************************************************************************)
(* Instances of ProtectedSources for TLC.                                  *)
(***************************************************************************)
EXTENDS ProtectedSources, TLC

CONSTANTS i1, i2

OneItem == {i1}
TwoItems == {i1, i2}
SameItems == Permutations(TwoItems)

NoFaults == {}
AllButRead == {"mkdir", "write", "rename", "vault"}
ReadFault == {"read"}

=============================================================================
