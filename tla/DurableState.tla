---------------------------- MODULE DurableState ----------------------------
(***************************************************************************)
(* What the rest of the program may rely on when it saves its state: a     *)
(* register that survives crashes.  A save is one step that either takes   *)
(* place whole or not at all, saves take place in the order they were      *)
(* asked for, and a save is reported as successful only when it has taken  *)
(* place.  StateStore is shown to implement this.                          *)
(***************************************************************************)
EXTENDS Integers

CONSTANTS
    MaxSaves   \* saves that are ever asked for (bound)

Requests == 1..MaxSaves

VARIABLES
    request,   \* where each save is
    value,     \* the save whose content is on disk, 0 for none
    up         \* the program runs

vars == <<request, value, up>>

\* Nobody waits any longer for a save that was answered, or whose program died.
Waiting(k) == request[k] \in {"pending", "taken", "refused"}

TypeOK ==
    /\ request \in [Requests -> {"unused", "pending", "taken", "refused", "ok", "failed", "lost"}]
    /\ value \in 0..MaxSaves
    /\ up \in BOOLEAN

Init == request = [k \in Requests |-> "unused"] /\ value = 0 /\ up = FALSE

Start == ~up /\ up' = TRUE /\ UNCHANGED <<request, value>>

Ask(k) ==
    /\ up /\ request[k] = "unused" /\ \A j \in 1..(k - 1) : request[j] # "unused"
    /\ request' = [request EXCEPT ![k] = "pending"]
    /\ UNCHANGED <<value, up>>

First(k) == request[k] = "pending" /\ \A j \in 1..(k - 1) : request[j] # "pending"

Take(k) ==
    /\ First(k)
    /\ request' = [request EXCEPT ![k] = "taken"]
    /\ value' = k
    /\ UNCHANGED up

Refuse(k) ==
    /\ First(k)
    /\ request' = [request EXCEPT ![k] = "refused"]
    /\ UNCHANGED <<value, up>>

Answer(k) ==
    /\ \/ request[k] = "taken" /\ request' = [request EXCEPT ![k] = "ok"]
       \/ request[k] = "refused" /\ request' = [request EXCEPT ![k] = "failed"]
    /\ UNCHANGED <<value, up>>

Crash ==
    /\ up /\ up' = FALSE
    /\ request' = [k \in Requests |-> IF Waiting(k) THEN "lost" ELSE request[k]]
    /\ UNCHANGED value

Next ==
    \/ Start
    \/ Crash
    \/ \E k \in Requests : Ask(k) \/ Take(k) \/ Refuse(k) \/ Answer(k)

Spec == Init /\ [][Next]_vars

=============================================================================
