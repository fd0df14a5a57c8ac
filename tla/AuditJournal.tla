---------------------------- MODULE AuditJournal ----------------------------
(***************************************************************************)
(* What the History tab may rely on: a journal that only grows, in which   *)
(* every change of a label or of the retention is one step and leaves a    *)
(* revision of its own.  A label changes nothing but itself; what was      *)
(* hidden stays hidden, and only states older than the newest ones that    *)
(* the user wants to keep are hidden.  HistoryStore is shown to implement  *)
(* this for users who wait for one change of these before the next.        *)
(***************************************************************************)
EXTENDS Integers, Sequences, FiniteSets

CONSTANTS
    Snapshots,  \* serialised states
    NoSnapshot, \* what a revision has before the first of them
    Labels,     \* labels of the user
    NoLabel,
    Keeps,      \* numbers of states to keep
    Ids         \* revisions, numbered as they are made

VARIABLES
    revisions,  \* the revisions: kind, and the state as of each
    labels,     \* the label of each revision
    pruned      \* revisions that retention hides

vars == <<revisions, labels, pruned>>

Kinds == {"state", "named", "labeled", "pruned"}

\* The state as of the last of some revisions.
Current(some) == IF some = <<>> THEN NoSnapshot ELSE some[Len(some)].snapshot

\* Revisions of some that are states, hidden by none of hidden, and have at
\* least keep such states after them.
Older(some, hidden, keep) ==
    LET shown == {i \in 1..Len(some) : some[i].kind = "state" /\ i \notin hidden} IN
    {i \in shown : Cardinality({j \in shown : j > i}) >= keep}

Init ==
    /\ revisions = <<>>
    /\ labels = [i \in Ids |-> NoLabel]
    /\ pruned = {}

Adds(kind, snapshot) == revisions' = Append(revisions, [kind |-> kind, snapshot |-> snapshot])

State(s) == Adds("state", s) /\ UNCHANGED <<labels, pruned>>

Named == Adds("named", Current(revisions)) /\ UNCHANGED <<labels, pruned>>

Label(i, l) ==
    /\ i \in 1..Len(revisions)
    /\ Adds("labeled", Current(revisions))
    /\ labels' = [labels EXCEPT ![i] = l]
    /\ UNCHANGED pruned

Prune(keep) ==
    /\ Adds("pruned", Current(revisions))
    /\ \E some \in SUBSET Older(revisions, pruned, keep) : pruned' = pruned \cup some
    /\ UNCHANGED labels

Next ==
    \/ \E s \in Snapshots : State(s)
    \/ Named
    \/ \E i \in Ids, l \in Labels \cup {NoLabel} : Label(i, l)
    \/ \E keep \in Keeps : Prune(keep)

Spec == Init /\ [][Next]_vars

=============================================================================
