------------------------- MODULE MCBrowserHandoff -------------------------
(***************************************************************************)
(* Instances of BrowserHandoff for TLC: one or two downloads.              *)
(***************************************************************************)
EXTENDS BrowserHandoff, TLC

CONSTANTS d1, d2

One == {d1}
Two == {d1, d2}
Same == Permutations(Two)

\* A desktop and a worker that answer in time, and a worker that lives.
SteadyFaults == {"pause", "cancel", "unreachable", "restart",
                 "present", "source", "start", "removeEarly"}
\* All but a transfer that is left behind, which nothing can keep from being a copy.
AllFaults == FaultKinds \ {"stranded"}

AllUsers == {"resume", "cancel"}

=============================================================================
