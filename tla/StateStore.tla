----------------------------- MODULE StateStore -----------------------------
(***************************************************************************)
(* The file state.json (download/persistence.ts): saves that wait for one  *)
(* another in a chain, each through a temporary file and a rename, and     *)
(* what the next run of the program makes of the file.                     *)
(*                                                                         *)
(* The content of a save is the status of every item when save() was       *)
(* called, which is when the state is serialised.  Everything awaited      *)
(* (directory, write, rename, removal of the temporary file, the caller's  *)
(* own continuation) is a step of its own; the program may die before any  *)
(* of them.                                                                *)
(***************************************************************************)
EXTENDS Integers, FiniteSets

CONSTANTS
    Items,      \* downloads
    Faults,     \* what may fail
    MaxSaves,   \* saves ever asked for (bound)
    MaxCrashes  \* deaths of the program (bound)

StoreFaults == {"mkdir", "write", "rename", "read"}

ASSUME StoreAssumption == MaxSaves \in Nat /\ MaxCrashes \in Nat

\* "idle" stands for added and paused, "active" for queued and downloading.
Statuses == {"absent", "idle", "active", "error", "completed", "cancelled"}
Contents == [Items -> Statuses]
Nothing == [i \in Items |-> "absent"]

Saves == 1..MaxSaves
Phases == {"unused", "waiting", "writing", "renaming", "kept", "dropped",
           "resolved", "rejected", "ok", "failed", "lost"}

-----------------------------------------------------------------------------
VARIABLES
    memory,   \* the items as the running program has them
    file,     \* state.json: the save it was renamed from, 0 for no file
    saves,    \* the saves: where each is, what it writes, which one it chains on
    tail,     \* saveChains.get(filePath), 0 for no entry
    up,       \* the program runs and has loaded its state
    crashes   \* counter of the bound

store == <<memory, file, saves, tail, up, crashes>>

TypeOK ==
    /\ memory \in Contents
    /\ file \in 0..MaxSaves
    /\ saves \in [Saves -> [phase : Phases, content : Contents, previous : 0..MaxSaves]]
    /\ tail \in 0..MaxSaves
    /\ up \in BOOLEAN
    /\ crashes \in 0..MaxCrashes

Phase(k) == saves[k].phase
Settled(k) == Phase(k) \in {"resolved", "rejected", "ok", "failed"}
Ended(k) == Phase(k) \in {"ok", "failed", "lost"}

\* What state.json says of the items.
OnDisk == IF file = 0 THEN Nothing ELSE saves[file].content

\* load() never brings an item back as running.
Revived(c) == [i \in Items |-> IF c[i] = "active" THEN "idle" ELSE c[i]]

\* Any failure to read or parse the file is taken for an empty profile.
Loads(c) == c = Revived(OnDisk) \/ ("read" \in Faults /\ c = Nothing)

StoreInit ==
    /\ memory = Nothing
    /\ file = 0
    /\ saves = [k \in Saves |-> [phase |-> "unused", content |-> Nothing, previous |-> 0]]
    /\ tail = 0
    /\ up = FALSE
    /\ crashes = 0

Start(c) ==
    /\ ~up /\ Loads(c)
    /\ memory' = c
    /\ up' = TRUE
    /\ UNCHANGED <<file, saves, tail, crashes>>

-----------------------------------------------------------------------------
(***************************************************************************)
(* One save.                                                               *)
(***************************************************************************)
To(k, phase) == saves' = [saves EXCEPT ![k].phase = phase]

\* The next save() takes the first number that is free.
Free(k) == Phase(k) = "unused" /\ \A j \in 1..(k - 1) : Phase(j) # "unused"

\* save(c): serialise, chain on the last save of the path, become the last.
Save(k, c) ==
    /\ up /\ Free(k)
    /\ saves' = [saves EXCEPT ![k] = [phase |-> "waiting", content |-> c, previous |-> tail]]
    /\ tail' = k

\* The bug of a map entry that is dropped by whichever save returns first.
MayBeginAtOnce(k) == TRUE

\* The bug of a chain that does not survive the failure of one of its links.
MayBeginAfterSuccess(k) == saves[k].previous # 0 => Phase(saves[k].previous) \in {"resolved", "ok"}

\* previousSave.catch(() => undefined): its failure is not this save's.
MayBegin(k) == saves[k].previous # 0 => Settled(saves[k].previous)

Begin(k) ==
    /\ up /\ Phase(k) = "waiting" /\ MayBegin(k)
    /\ \/ To(k, "writing")
       \/ "mkdir" \in Faults /\ To(k, "rejected")
    /\ UNCHANGED <<memory, file, tail, up, crashes>>

Write(k) ==
    /\ up /\ Phase(k) = "writing"
    /\ \/ To(k, "renaming")
       \/ "write" \in Faults /\ To(k, "dropped")
    /\ UNCHANGED <<memory, file, tail, up, crashes>>

Rename(k) ==
    /\ up /\ Phase(k) = "renaming"
    /\ \/ To(k, "kept") /\ file' = k
       \/ "rename" \in Faults /\ To(k, "dropped") /\ UNCHANGED file
    /\ UNCHANGED <<memory, tail, up, crashes>>

\* The bug of a failed write that is not reported.
TidyQuietly(k) ==
    /\ up
    /\ Phase(k) \in {"kept", "dropped"} /\ To(k, "resolved")
    /\ UNCHANGED <<memory, file, tail, up, crashes>>

\* The finally block removes the temporary file, whatever became of it.
Tidy(k) ==
    /\ up
    /\ \/ Phase(k) = "kept" /\ To(k, "resolved")
       \/ Phase(k) = "dropped" /\ To(k, "rejected")
    /\ UNCHANGED <<memory, file, tail, up, crashes>>

\* The bug of dropping the entry whoever owns it.
ReturnAndForget(k) ==
    /\ up
    /\ \/ Phase(k) = "resolved" /\ To(k, "ok")
       \/ Phase(k) = "rejected" /\ To(k, "failed")
    /\ tail' = 0
    /\ UNCHANGED <<memory, file, up, crashes>>

\* The caller goes on: the entry of the path is dropped if it is still this save's.
Return(k) ==
    /\ up
    /\ \/ Phase(k) = "resolved" /\ To(k, "ok")
       \/ Phase(k) = "rejected" /\ To(k, "failed")
    /\ tail' = IF tail = k THEN 0 ELSE tail
    /\ UNCHANGED <<memory, file, up, crashes>>

SaveStep(k) == Begin(k) \/ Write(k) \/ Rename(k) \/ Tidy(k)

\* The program dies: what is not on disk is gone.
Crash ==
    /\ up /\ crashes < MaxCrashes
    /\ crashes' = crashes + 1
    /\ up' = FALSE
    /\ memory' = Nothing
    /\ tail' = 0
    /\ saves' = [k \in Saves |->
                   IF Phase(k) = "unused" \/ Ended(k) THEN saves[k]
                   ELSE [saves[k] EXCEPT !.phase = "lost"]]
    /\ UNCHANGED file

-----------------------------------------------------------------------------
(***************************************************************************)
(* The store by itself, under a program that changes and saves as it likes.*)
(***************************************************************************)
StoreNext ==
    \/ \E c \in Contents : Start(c)
    \/ Crash
    \/ \E c \in Contents : up /\ memory' = c /\ UNCHANGED <<file, saves, tail, up, crashes>>
    \/ \E k \in Saves : Save(k, memory) /\ UNCHANGED <<memory, file, up, crashes>>
    \/ \E k \in Saves : SaveStep(k) \/ Return(k)

StoreSpec == StoreInit /\ [][StoreNext]_store

-----------------------------------------------------------------------------
\* The abstract register: what a save looks like from outside.
Outside(phase) ==
    CASE phase \in {"waiting", "writing", "renaming"} -> "pending"
      [] phase \in {"kept", "resolved"} -> "taken"
      [] phase \in {"dropped", "rejected"} -> "refused"
      [] OTHER -> phase

Durable == INSTANCE DurableState WITH
             request <- [k \in Saves |-> Outside(Phase(k))],
             value <- file

\* The chain and the temporary files implement an atomic, ordered register:
\* whatever fails and wherever the program dies, state.json is one save taken
\* whole, never an older one than before, and success is never reported early.
ImplementsDurableState == Durable!Spec

\* state.json is at least as new as every save whose caller was told that it
\* succeeded (save() returns after the rename, and renames come in order), and
\* never one whose caller was told that it failed.
AcknowledgedIsKept ==
    \A k \in Saves : /\ Phase(k) = "ok" => k <= file
                     /\ Phase(k) = "failed" => k # file

\* Every save is answered, also when the ones before it failed: a rejected link
\* does not break the chain.
SavesReturn == \A k \in Saves : Phase(k) = "waiting" ~> Ended(k)

=============================================================================
