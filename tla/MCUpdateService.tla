---------------------------- MODULE MCUpdateService ----------------------------
(***************************************************************************)
(* Instances of UpdateService for TLC.                                     *)
(***************************************************************************)
EXTENDS UpdateService

NoFaults == {}

=============================================================================
