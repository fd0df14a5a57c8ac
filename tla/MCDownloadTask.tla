--------------------------- MODULE MCDownloadTask ---------------------------
(***************************************************************************)
(* Instances of DownloadTask for TLC: a source of two to four bytes in two *)
(* ranged parts or in one streamed part, chunks of up to two bytes, one    *)
(* retry, one or two starts.                                               *)
(***************************************************************************)
EXTENDS DownloadTask

BrokenFaults == {"abort", "lateEnd"}
AllFaults == FaultKinds

RestartOps == {"pause", "retry", "crash"}
AllOps == OpKinds \ {"crash"}

=============================================================================
