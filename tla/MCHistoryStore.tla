--------------------------- MODULE MCHistoryStore ---------------------------
(***************************************************************************)
(* Instances of HistoryStore for TLC.                                      *)
(***************************************************************************)
EXTENDS HistoryStore

\* Later commits sort first.
Backwards == [i \in Ids |-> MaxCalls - i]

\* Failures after which the files still are what HEAD has, or gone.
CleanFaults == {"init", "write", "git", "crash", "read"}

=============================================================================
