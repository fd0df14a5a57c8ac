-------------------------- MODULE ProtectedSources --------------------------
(***************************************************************************)
(* Downloads whose source (URL and headers) is a secret: the manager keeps *)
(* the item in state.json and the secret in the operating system's vault,  *)
(* two places that no transaction covers, and the program may die between  *)
(* any two steps (DownloadManager.ts: addDownload, cancel, remove, the     *)
(* completed handler and the start of init).                               *)
(*                                                                         *)
(* Composes StateStore with the vault.  All items here are protected; what *)
(* tells a running transfer from a queued one is in DownloadManager.       *)
(***************************************************************************)
EXTENDS StateStore

CONSTANTS
    Slots   \* operations in flight (bound)

VaultFaults == {"vault"}
ASSUME SourcesAssumption == Slots \in Nat \ {0} /\ Faults \subseteq StoreFaults \cup VaultFaults

Ids == 1..Slots
Resumable == {"idle", "active", "error"}
Terminal == {"completed", "cancelled"}

\* Steps of an operation: those that await a save, and those that await the vault
\* or, for a transfer that ends, its files.
SaveSteps == {"adding", "saving", "completing", "cancelling", "burying", "deleting"}
OtherSteps == {"storing", "ending", "undoing", "collecting", "clearing", "emptying"}
NoCall == [item |-> "none", step |-> "none", save |-> 0]

VARIABLES
    vault,    \* items whose secret is in the vault
    fresh,    \* ids not used yet
    calls,    \* operations in flight: item, the await they are at, and its save
    undone,   \* additions that were reported as failed (history)
    orphans,  \* additions cut short by a death or by the vault (history)
    settled,  \* items whose cancellation or removal was saved (history)
    reopened  \* items that were over and were given another status (history)

vars == <<store, vault, fresh, calls, undone, orphans, settled, reopened>>
sources == <<vault, fresh, undone, orphans, settled, reopened>>

\* Besides the types: an operation waits for a save of its own that is not over.
SourcesTypeOK ==
    /\ TypeOK
    /\ vault \subseteq Items /\ fresh \subseteq Items
    /\ calls \in [Ids -> [item : Items, step : SaveSteps \cup OtherSteps, save : 0..MaxSaves] \cup {NoCall}]
    /\ undone \subseteq Items /\ orphans \subseteq Items
    /\ settled \subseteq Items /\ reopened \subseteq Items
    /\ \A o \in Ids :
         /\ calls[o].step \in SaveSteps => calls[o].save \in Saves /\ ~Ended(calls[o].save)
         /\ calls[o] # NoCall => up

Init ==
    /\ StoreInit
    /\ vault = {} /\ fresh = Items
    /\ calls = [o \in Ids |-> NoCall]
    /\ undone = {} /\ orphans = {} /\ settled = {} /\ reopened = {}

-----------------------------------------------------------------------------
Goto(o, i, step) == calls' = [calls EXCEPT ![o] = [item |-> i, step |-> step, save |-> 0]]
End(o) == calls' = [calls EXCEPT ![o] = NoCall]
In(o, i, step) == calls[o].item = i /\ calls[o].step = step

\* Change the item, save the state as it then is, and wait for the save.
Put(o, i, status, step) ==
    /\ memory' = [memory EXCEPT ![i] = status]
    /\ \E k \in Saves :
         /\ Save(k, memory')
         /\ calls' = [calls EXCEPT ![o] = [item |-> i, step |-> step, save |-> k]]
    /\ UNCHANGED <<file, up, crashes>>

\* The await of a save ends, well or with an exception.
Saved(o) == Return(calls[o].save) /\ Phase(calls[o].save) = "resolved"
Unsaved(o) == Return(calls[o].save) /\ Phase(calls[o].save) = "rejected"

\* removeDownloadSource: the secret goes, or the vault refuses.
Removes(i) == vault' = vault \ {i}
Refuses == "vault" \in Faults /\ UNCHANGED vault

\* An operation that begins takes the first free slot.
Idle(o) == calls[o] = NoCall /\ \A p \in 1..(o - 1) : calls[p] # NoCall

-----------------------------------------------------------------------------
(***************************************************************************)
(* addDownload: the secret first, then the item; a failed save takes both  *)
(* back.                                                                   *)
(***************************************************************************)
Add(o, i) ==
    /\ up /\ Idle(o) /\ i \in fresh
    /\ fresh' = fresh \ {i}
    /\ Goto(o, i, "storing")
    /\ UNCHANGED <<store, vault, undone, orphans, settled, reopened>>

\* The bug of listing and saving the item before its secret is safe.
StoredLast(o, i) ==
    /\ In(o, i, "storing")
    /\ \E status \in {"idle", "active"} : Put(o, i, status, "adding")
    /\ UNCHANGED <<vault, fresh, undone, orphans, settled, reopened>>

Stored(o, i) ==
    /\ In(o, i, "storing")
    /\ \/ /\ vault' = vault \cup {i}
          /\ \E status \in {"idle", "active"} : Put(o, i, status, "adding")
       \/ Refuses /\ End(o) /\ UNCHANGED store
    /\ UNCHANGED <<fresh, undone, orphans, settled, reopened>>

\* The bug of an operation that outlives the failure of its save.
AddedAndForgotten(o, i) ==
    /\ In(o, i, "adding")
    /\ \/ Saved(o) /\ End(o)
       \/ Unsaved(o) /\ UNCHANGED calls
    /\ UNCHANGED sources

Added(o, i) ==
    /\ In(o, i, "adding")
    /\ \/ Saved(o) /\ End(o) /\ UNCHANGED undone
       \/ /\ up /\ Phase(calls[o].save) = "rejected"
          /\ To(calls[o].save, "failed")
          /\ tail' = IF tail = calls[o].save THEN 0 ELSE tail
          /\ memory' = [memory EXCEPT ![i] = "absent"]
          /\ undone' = undone \cup {i}
          /\ Goto(o, i, "undoing")
          /\ UNCHANGED <<file, up, crashes>>
    /\ UNCHANGED <<vault, fresh, orphans, settled, reopened>>

Undone(o, i) ==
    /\ In(o, i, "undoing") /\ End(o)
    /\ \/ Removes(i) /\ UNCHANGED orphans
       \/ Refuses /\ orphans' = orphans \cup {i}
    /\ UNCHANGED <<store, fresh, undone, settled, reopened>>

-----------------------------------------------------------------------------
\* The bug of a resume that does not look whether the cancellation was final.
TouchAny(o, i) ==
    /\ up /\ Idle(o) /\ memory[i] # "absent"
    /\ \E status \in Statuses \ {"absent", "completed", "cancelled"} : Put(o, i, status, "saving")
    /\ UNCHANGED sources

(***************************************************************************)
(* Pause, resume, a failing transfer, any other change: one save.          *)
(***************************************************************************)
Touch(o, i) ==
    /\ up /\ Idle(o) /\ memory[i] # "absent"
    /\ \E status \in Statuses :
         /\ CASE memory[i] = "idle"   -> status \in {"idle", "active", "error"}
              [] memory[i] = "active" -> status \in {"active", "idle", "error"}
              [] memory[i] = "error"  -> status \in {"error", "active"}
              [] OTHER                -> status = memory[i]
         /\ Put(o, i, status, "saving")
    /\ UNCHANGED sources

Touched(o, i) ==
    /\ In(o, i, "saving")
    /\ Return(calls[o].save)
    /\ End(o)
    /\ UNCHANGED sources

(***************************************************************************)
(* A pause may come while finish() awaits the end of a completed transfer, *)
(* and start() may reject after the item was cancelled (or, the start of an*)
(* earlier task, completed): neither looks at the status it overwrites.    *)
(***************************************************************************)
Reopen(o, i) ==
    /\ up /\ Idle(o)
    /\ \/ memory[i] = "completed" /\ (\E p \in Ids : In(p, i, "ending")) /\ Put(o, i, "idle", "saving")
       \/ memory[i] \in Terminal /\ Put(o, i, "error", "saving")
    /\ reopened' = reopened \cup {i}
    /\ UNCHANGED <<vault, fresh, undone, orphans, settled>>

(***************************************************************************)
(* A transfer ends: finish() marks the item, closes and removes files, and *)
(* only then the completed handler saves the item as it finds it, and drops*)
(* the secret.  A finish() that fails is a failing transfer (Touch).       *)
(***************************************************************************)
Finish(o, i) ==
    /\ up /\ Idle(o) /\ memory[i] = "active"
    /\ memory' = [memory EXCEPT ![i] = "completed"]
    /\ Goto(o, i, "ending")
    /\ UNCHANGED <<file, saves, tail, up, crashes, sources>>

Complete(o, i) ==
    /\ In(o, i, "ending")
    /\ Put(o, i, memory[i], "completing")
    /\ UNCHANGED sources

\* The bug of cleaning up although the completion could not be saved.
CompletedAnyway(o, i) ==
    /\ In(o, i, "completing")
    /\ Return(calls[o].save) /\ Goto(o, i, "collecting")
    /\ UNCHANGED sources

Completed(o, i) ==
    /\ In(o, i, "completing")
    /\ \/ Saved(o) /\ Goto(o, i, "collecting")
       \/ Unsaved(o) /\ End(o)
    /\ UNCHANGED sources

Collected(o, i) ==
    /\ In(o, i, "collecting") /\ End(o)
    /\ Removes(i) \/ Refuses
    /\ UNCHANGED <<store, fresh, undone, orphans, settled, reopened>>

(***************************************************************************)
(* cancel: the cancelled record first, then the secret.                    *)
(***************************************************************************)
Cancel(o, i) ==
    /\ up /\ Idle(o) /\ memory[i] # "absent"
    /\ Put(o, i, "cancelled", "cancelling")
    /\ UNCHANGED sources

Cancelled(o, i) ==
    /\ In(o, i, "cancelling")
    /\ \/ Saved(o) /\ Goto(o, i, "clearing") /\ settled' = settled \cup {i}
       \/ Unsaved(o) /\ End(o) /\ UNCHANGED settled
    /\ UNCHANGED <<vault, fresh, undone, orphans, reopened>>

Cleared(o, i) ==
    /\ In(o, i, "clearing")
    /\ \/ Removes(i) /\ End(o) /\ UNCHANGED store
       \/ Refuses /\ Put(o, i, memory[i], "saving")
    /\ UNCHANGED <<fresh, undone, orphans, settled, reopened>>

\* The bug of deleting the record without leaving a tombstone.
RemoveAtOnce(o, i) ==
    /\ up /\ Idle(o) /\ memory[i] # "absent"
    /\ Put(o, i, "absent", "burying")
    /\ UNCHANGED sources

(***************************************************************************)
(* remove: a cancelled record as a tombstone, then the secret, then the    *)
(* record itself.                                                          *)
(***************************************************************************)
Remove(o, i) ==
    /\ up /\ Idle(o) /\ memory[i] # "absent"
    /\ Put(o, i, "cancelled", "burying")
    /\ UNCHANGED sources

Buried(o, i) ==
    /\ In(o, i, "burying")
    /\ \/ Saved(o) /\ Goto(o, i, "emptying") /\ settled' = settled \cup {i}
       \/ Unsaved(o) /\ End(o) /\ UNCHANGED settled
    /\ UNCHANGED <<vault, fresh, undone, orphans, reopened>>

\* Two removals may overlap: the second finds the record gone already.
Emptied(o, i) ==
    /\ In(o, i, "emptying")
    /\ \/ Removes(i) /\ Put(o, i, "absent", "deleting")
       \/ Refuses /\ Put(o, i, memory[i], "saving")
    /\ UNCHANGED <<fresh, undone, orphans, settled, reopened>>

Deleted(o, i) ==
    /\ In(o, i, "deleting")
    /\ Return(calls[o].save)
    /\ End(o)
    /\ UNCHANGED sources

-----------------------------------------------------------------------------
(***************************************************************************)
(* Death and the next start.                                               *)
(***************************************************************************)
Dies ==
    /\ Crash
    /\ calls' = [o \in Ids |-> NoCall]
    /\ orphans' = orphans \cup {calls[o].item : o \in {p \in Ids : calls[p].step \in {"storing", "adding", "undoing"}}}
    /\ UNCHANGED <<vault, fresh, undone, settled, reopened>>

\* init: collect the secrets of finished items, and refuse to resume an item
\* whose secret is gone or cannot be read.
Restores(c, revived) ==
    \A i \in Items :
      IF revived[i] \in Resumable /\ (i \notin vault \/ "vault" \in Faults)
        THEN c[i] = "error" \/ (i \in vault /\ c[i] = revived[i])
        ELSE c[i] = revived[i]

Restart ==
    \E revived \in {Revived(OnDisk)} \cup (IF "read" \in Faults THEN {Nothing} ELSE {}) :
    \E c \in Contents :
      /\ ~up /\ Restores(c, revived)
      /\ memory' = c /\ up' = TRUE
      /\ \E kept \in SUBSET (IF "vault" \in Faults THEN vault ELSE {}) :
           vault' = vault \ ({i \in Items : revived[i] \in Terminal} \ kept)
      /\ UNCHANGED <<file, saves, tail, crashes, fresh, calls, undone, orphans, settled, reopened>>

-----------------------------------------------------------------------------
Asks(o, i) == Add(o, i) \/ Touch(o, i) \/ Reopen(o, i) \/ Finish(o, i) \/ Cancel(o, i) \/ Remove(o, i)

GoesOn(o, i) ==
    \/ Stored(o, i) \/ Added(o, i) \/ Undone(o, i)
    \/ Touched(o, i)
    \/ Complete(o, i) \/ Completed(o, i) \/ Collected(o, i)
    \/ Cancelled(o, i) \/ Cleared(o, i)
    \/ Buried(o, i) \/ Emptied(o, i) \/ Deleted(o, i)

GoOn ==
    \/ \E o \in Ids, i \in Items : GoesOn(o, i)
    \/ (\E k \in Saves : SaveStep(k)) /\ UNCHANGED <<calls, sources>>

Next ==
    \/ \E o \in Ids, i \in Items : Asks(o, i)
    \/ GoOn
    \/ Dies
    \/ Restart

Spec == Init /\ [][Next]_vars

\* Promises settle and their callers go on.  Nobody need ask for anything, and
\* the user need not start the program again.
FairSpec == Spec /\ WF_vars(GoOn)

-----------------------------------------------------------------------------
\* What state.json would resume has its secret in the vault, wherever the
\* program dies: the state says that a download is over before its secret goes.
\* Not so after an addition whose save failed (a later save may have kept it),
\* nor for an item that was paused or marked as failed after it was over.
ResumableHasSecret ==
    \A i \in Items : OnDisk[i] \in Resumable => i \in vault \cup undone \cup reopened

\* A secret in the vault is known by a record that will lead to its removal, in
\* memory or on disk, or its addition is in flight or was cut short.
SecretsAreKnown ==
    \A i \in vault :
      \/ i \in orphans
      \/ OnDisk[i] # "absent" \/ (up /\ memory[i] # "absent")
      \/ \E o \in Ids : calls[o].item = i

\* Once the cancellation or removal of a protected item has been saved, neither
\* a save in flight nor a restart makes it resumable again: only a start() that
\* rejects late does, or a pause that came while the item was finishing.
OverIsOver ==
    \A i \in settled \ reopened : OnDisk[i] \notin Resumable /\ memory[i] \notin Resumable

=============================================================================
