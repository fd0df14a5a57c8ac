----------------------- MODULE ProtectedSourcesProofs -----------------------
(***************************************************************************)
(* First the chain of saves of StateStore alone, for any number of saves,  *)
(* items and deaths: it implements DurableState, and an acknowledged save  *)
(* stays.  Nothing there depends on what the program does with its memory: *)
(* the lemmas are about the steps (Moves) that StateStore alone and the    *)
(* manager's operations have in common.                                    *)
(*                                                                         *)
(* Then ProtectedSources, for any number of items, operations, saves and   *)
(* deaths: its saves are those of the durable register, what state.json    *)
(* would resume has its secret, what is over stays over, and as long as    *)
(* the file can be read no secret is forgotten.                            *)
(***************************************************************************)
EXTENDS ProtectedSources, TLAPS

frame == <<file, saves, tail, up>>

-----------------------------------------------------------------------------
(* The steps *)

StartMove == ~up /\ up' = TRUE /\ UNCHANGED <<file, saves, tail>>

CrashMove ==
    /\ up /\ up' = FALSE /\ tail' = 0
    /\ saves' = [k \in Saves |->
                   IF Phase(k) = "unused" \/ Ended(k) THEN saves[k]
                   ELSE [saves[k] EXCEPT !.phase = "lost"]]
    /\ UNCHANGED file

SaveMove(k) == \E c \in Contents : Save(k, c) /\ UNCHANGED <<file, up>>

ReturnMove(k) ==
    /\ up
    /\ \/ Phase(k) = "resolved" /\ To(k, "ok")
       \/ Phase(k) = "rejected" /\ To(k, "failed")
    /\ tail' = IF tail = k THEN 0 ELSE tail
    /\ UNCHANGED <<file, up>>

Moves ==
    \/ StartMove
    \/ CrashMove
    \/ \E k \in Saves : SaveMove(k) \/ SaveStep(k) \/ ReturnMove(k)

-----------------------------------------------------------------------------
(* The invariant *)

Unsettled(j) == Phase(j) \in {"waiting", "writing", "renaming", "kept", "dropped"}
Begun(k) == Phase(k) \in {"writing", "renaming", "kept", "dropped",
                          "resolved", "rejected", "ok", "failed"}
Landed(k) == Phase(k) \in {"kept", "resolved", "ok"}

Types ==
    /\ file \in 0..MaxSaves
    /\ saves \in [Saves -> [phase : Phases, content : Contents, previous : 0..MaxSaves]]
    /\ tail \in 0..MaxSaves
    /\ up \in BOOLEAN

\* Saves are numbered in the order they were asked for.
Numbered == \A j, k \in Saves : j < k /\ Phase(j) = "unused" => Phase(k) = "unused"

\* A program that is not running has no save in flight.
Still == ~up => tail = 0 /\ \A k \in Saves : Phase(k) = "unused" \/ Ended(k)

\* The entry of the path is the last save that may be unsettled.
TailIsLast ==
    /\ tail # 0 => Phase(tail) # "unused"
    /\ \A j \in Saves : Unsettled(j) => tail # 0 /\ j <= tail

\* A save that waits chains on the last unsettled one before it.
WaitsForLast ==
    \A k \in Saves : Phase(k) = "waiting" =>
        /\ saves[k].previous < k
        /\ \A j \in Saves : j < k /\ Unsettled(j) => saves[k].previous # 0 /\ j <= saves[k].previous

\* A save begins only when all before it are over.
OneAtATime == \A j, k \in Saves : j < k /\ Begun(k) => ~Unsettled(j)

\* The file is one that was renamed, and none that was is newer.
FileIsNewest ==
    /\ file # 0 => Landed(file) \/ Phase(file) = "lost"
    /\ \A k \in Saves : Landed(k) => k <= file

ChainInv == Types /\ Numbered /\ Still /\ TailIsLast /\ WaitsForLast /\ OneAtATime /\ FileIsNewest

-----------------------------------------------------------------------------
(* What a step does to the phases *)

LEMMA AfterTo ==
  ASSUME Types, NEW k \in Saves, NEW p \in Phases, To(k, p)
  PROVE  /\ saves' \in [Saves -> [phase : Phases, content : Contents, previous : 0..MaxSaves]]
         /\ Phase(k)' = p
         /\ \A j \in Saves : j # k => Phase(j)' = Phase(j)
         /\ \A j \in Saves : saves'[j].previous = saves[j].previous
  BY DEF Types, To, Phase

LEMMA AfterSave ==
  ASSUME Types, NEW k \in Saves, NEW c \in Contents, Save(k, c)
  PROVE  /\ saves' \in [Saves -> [phase : Phases, content : Contents, previous : 0..MaxSaves]]
         /\ Phase(k)' = "waiting" /\ saves'[k].previous = tail
         /\ \A j \in Saves : j # k => saves'[j] = saves[j]
  BY DEF Types, Save, Phase, Phases

\* A save whose turn it is goes on: none before it is unsettled, it does not
\* become unsettled again, and its content is on disk exactly if it has landed.
LEMMA ChainTurn ==
  ASSUME ChainInv, up, up', NEW k \in Saves, NEW p \in Phases, To(k, p),
         ~(Phase(k) = "unused" \/ Ended(k)), p \notin {"unused", "waiting", "lost"},
         \A j \in Saves : j < k => ~Unsettled(j),
         p \in {"writing", "renaming", "kept", "dropped"} => Unsettled(k),
         tail' = tail \/ (tail = k /\ tail' = 0 /\ p \in {"ok", "failed"}),
         \/ /\ file' = file
            /\ p \in {"kept", "resolved", "ok"} => Landed(k)
            /\ file = k => p \in {"kept", "resolved", "ok"}
         \/ file' = k /\ p = "kept"
  PROVE  ChainInv'
<1>1. /\ saves' \in [Saves -> [phase : Phases, content : Contents, previous : 0..MaxSaves]]
      /\ Phase(k)' = p
      /\ \A j \in Saves : j # k => Phase(j)' = Phase(j)
      /\ \A j \in Saves : saves'[j].previous = saves[j].previous
  BY AfterTo DEF ChainInv
<1>2. Types'
  BY <1>1, StoreAssumption DEF ChainInv, Types, Saves
<1>3. Numbered'
  BY <1>1 DEF ChainInv, Numbered, Saves
<1>4. Still'
  BY DEF Still
<1>5. TailIsLast'
  <2>1. ASSUME NEW j \in Saves, Unsettled(j)' PROVE tail' # 0 /\ j <= tail'
    <3>1. Unsettled(j)
      BY <1>1, <2>1 DEF Unsettled
    <3>2. tail # 0 /\ j <= tail
      BY <3>1 DEF ChainInv, TailIsLast
    <3>3. CASE tail' # tail
      <4>1. j # k
        BY <1>1, <2>1, <3>3 DEF Unsettled
      <4>2. j < k
        BY <3>2, <3>3, <4>1, StoreAssumption DEF Saves
      <4>3. QED
        BY <3>1, <4>2
    <3>4. QED
      BY <3>2, <3>3
  <2>2. tail' # 0 => Phase(tail)' # "unused"
    <3>1. tail # 0 => tail \in Saves
      BY StoreAssumption DEF ChainInv, Types, Saves
    <3>2. QED
      BY <1>1, <3>1, StoreAssumption DEF ChainInv, TailIsLast, Saves, Phase
  <2>3. QED
    BY <2>1, <2>2 DEF TailIsLast
<1>6. WaitsForLast'
  BY <1>1 DEF ChainInv, WaitsForLast, Unsettled
<1>7. OneAtATime'
  <2>1. SUFFICES ASSUME NEW i \in Saves, NEW j \in Saves, i < j, Begun(j)', Unsettled(i)'
                 PROVE  FALSE
    BY DEF OneAtATime
  <2>2. Unsettled(i)
    BY <1>1, <2>1 DEF Unsettled
  <2>3. QED
    BY <1>1, <2>1, <2>2 DEF ChainInv, OneAtATime, Begun
<1>8. FileIsNewest'
  <2>1. CASE file' = file
    <3>1. file # 0 => file \in Saves
      BY StoreAssumption DEF ChainInv, Types, Saves
    <3>2. file # 0 => Landed(file)' \/ Phase(file)' = "lost"
      BY <1>1, <2>1, <3>1, StoreAssumption DEF ChainInv, FileIsNewest, Landed, Saves
    <3>3. \A j \in Saves : Landed(j)' => j <= file
      BY <1>1, <2>1, StoreAssumption DEF ChainInv, FileIsNewest, Landed, Saves
    <3>4. QED
      BY <2>1, <3>2, <3>3 DEF FileIsNewest, Landed, Phase
  <2>2. CASE file' = k /\ p = "kept"
    <3>1. ASSUME NEW j \in Saves, Landed(j)', j > k PROVE FALSE
      <4>1. Begun(j)
        BY <1>1, <3>1 DEF Landed, Begun, Saves
      <4>2. Unsettled(k)
        BY <2>2
      <4>3. QED
        BY <3>1, <4>1, <4>2 DEF ChainInv, OneAtATime, Saves
    <3>2. Landed(k)'
      BY <1>1, <2>2 DEF Landed
    <3>3. QED
      BY <2>2, <3>1, <3>2 DEF FileIsNewest, Saves, Landed, Phase
  <2>3. QED
    BY <2>1, <2>2
<1>9. QED
  BY <1>2, <1>3, <1>4, <1>5, <1>6, <1>7, <1>8 DEF ChainInv

LEMMA ChainSave ==
  ASSUME ChainInv, NEW k \in Saves, SaveMove(k)
  PROVE  ChainInv'
<1>0. PICK c \in Contents : Save(k, c) /\ UNCHANGED <<file, up>>
  BY DEF SaveMove
<1>1. /\ saves' \in [Saves -> [phase : Phases, content : Contents, previous : 0..MaxSaves]]
      /\ Phase(k)' = "waiting" /\ saves'[k].previous = tail
      /\ \A j \in Saves : j # k => saves'[j] = saves[j]
  BY <1>0, AfterSave DEF ChainInv
<1>2. up /\ tail' = k /\ Phase(k) = "unused" /\ \A j \in Saves : j < k => Phase(j) # "unused"
  BY <1>0, StoreAssumption DEF Save, Free, Saves
<1>3. \A j \in Saves : k <= j => Phase(j) = "unused"
  BY <1>2, StoreAssumption DEF ChainInv, Numbered, Saves
<1>4. \A j \in Saves : j # k => Phase(j)' = Phase(j)
  BY <1>1 DEF Phase
<1>5. \A j \in Saves : Unsettled(j)' => j <= k
  BY <1>1, <1>3, <1>4 DEF Unsettled, Saves
<1>6. Types'
  BY <1>0, <1>1, <1>2, StoreAssumption DEF ChainInv, Types, Saves
<1>7. Numbered'
  BY <1>1, <1>2, <1>3, <1>4 DEF ChainInv, Numbered, Saves
<1>8. Still'
  BY <1>0, <1>2 DEF Still
<1>9. TailIsLast'
  <2>1. k # 0
    BY DEF Saves
  <2>2. QED
    BY <1>1, <1>2, <1>5, <2>1 DEF TailIsLast, Phase, Unsettled
<1>10. WaitsForLast'
  <2>1. tail < k
    BY <1>2, <1>3, StoreAssumption DEF ChainInv, TailIsLast, Types, Saves
  <2>2. ASSUME NEW j \in Saves, j < k, Unsettled(j)' PROVE tail # 0 /\ j <= tail
    BY <1>4, <2>2 DEF ChainInv, TailIsLast, Unsettled, Saves
  <2>3. ASSUME NEW i \in Saves, i # k, Phase(i)' = "waiting"
        PROVE  /\ saves'[i].previous < i
               /\ \A j \in Saves : j < i /\ Unsettled(j)' => saves'[i].previous # 0 /\ j <= saves'[i].previous
    <3>1. saves'[i] = saves[i] /\ Phase(i) = "waiting"
      BY <1>1, <1>4, <2>3
    <3>2. i < k
      BY <1>3, <2>3, <3>1 DEF Saves
    <3>3. QED
      BY <1>4, <3>1, <3>2 DEF ChainInv, WaitsForLast, Unsettled, Saves
  <2>4. QED
    BY <1>1, <2>1, <2>2, <2>3 DEF WaitsForLast, Unsettled, Phase
<1>11. OneAtATime'
  BY <1>1, <1>3, <1>4 DEF ChainInv, OneAtATime, Begun, Unsettled, Saves
<1>12. FileIsNewest'
  <2>1. file # 0 => file \in Saves /\ file # k
    BY <1>2, StoreAssumption DEF ChainInv, FileIsNewest, Landed, Types, Saves
  <2>2. file # 0 => Landed(file)' \/ Phase(file)' = "lost"
    BY <1>0, <1>4, <2>1 DEF ChainInv, FileIsNewest, Landed, Phase
  <2>3. \A j \in Saves : Landed(j)' => j <= file
    BY <1>1, <1>4 DEF ChainInv, FileIsNewest, Landed
  <2>4. QED
    BY <1>0, <2>2, <2>3 DEF FileIsNewest, Landed, Phase
<1>13. QED
  BY <1>6, <1>7, <1>8, <1>9, <1>10, <1>11, <1>12 DEF ChainInv

LEMMA ChainCrash == ChainInv /\ CrashMove => ChainInv'
<1> SUFFICES ASSUME ChainInv, CrashMove PROVE ChainInv'
  OBVIOUS
<1>1. saves' \in [Saves -> [phase : Phases, content : Contents, previous : 0..MaxSaves]]
  BY DEF CrashMove, ChainInv, Types, Phases, Phase, Ended
<1>2. \A k \in Saves : Phase(k)' = IF Phase(k) = "unused" \/ Ended(k) THEN Phase(k) ELSE "lost"
  BY DEF CrashMove, ChainInv, Types, Phases, Phase, Ended
<1>3. \A k \in Saves : ~Unsettled(k)' /\ Phase(k)' # "waiting"
  BY <1>2 DEF Unsettled, Ended
<1>4. Types'
  <2>1. up' \in BOOLEAN
    BY DEF CrashMove
  <2>2. tail' \in 0..MaxSaves /\ file' \in 0..MaxSaves
    BY StoreAssumption DEF CrashMove, ChainInv, Types
  <2>3. QED
    BY <1>1, <2>1, <2>2 DEF Types
<1>5. Numbered'
  BY <1>2 DEF ChainInv, Numbered, Ended
<1>6. Still'
  BY <1>2 DEF CrashMove, Still, Ended
<1>7. TailIsLast' /\ WaitsForLast' /\ OneAtATime'
  BY <1>3 DEF CrashMove, TailIsLast, WaitsForLast, OneAtATime
<1>8. FileIsNewest'
  <2>1. file' = file /\ (file # 0 => file \in Saves)
    BY StoreAssumption DEF CrashMove, ChainInv, Types, Saves
  <2>2. file # 0 => Landed(file)' \/ Phase(file)' = "lost"
    BY <1>2, <2>1 DEF ChainInv, FileIsNewest, Landed, Ended
  <2>3. \A k \in Saves : Landed(k)' => k <= file
    BY <1>2 DEF ChainInv, FileIsNewest, Landed, Ended
  <2>4. QED
    BY <2>1, <2>2, <2>3 DEF FileIsNewest, Landed, Phase
<1>9. QED
  BY <1>4, <1>5, <1>6, <1>7, <1>8 DEF ChainInv

\* When a save may begin, all before it are over.
LEMMA ItsTurn ==
  ASSUME ChainInv, NEW k \in Saves, (Phase(k) = "waiting" /\ MayBegin(k)) \/ Begun(k)
  PROVE  \A j \in Saves : j < k => ~Unsettled(j)
<1>1. CASE Begun(k)
  BY <1>1 DEF ChainInv, OneAtATime
<1>2. CASE Phase(k) = "waiting" /\ MayBegin(k)
  <2>1. SUFFICES ASSUME NEW j \in Saves, j < k, Unsettled(j) PROVE FALSE
    OBVIOUS
  <2>2. saves[k].previous # 0 /\ j <= saves[k].previous
    BY <1>2, <2>1 DEF ChainInv, WaitsForLast
  <2>3. saves[k].previous \in Saves
    BY <2>2, StoreAssumption DEF ChainInv, Types, Saves
  <2>4. Settled(saves[k].previous)
    BY <1>2, <2>2 DEF MayBegin
  <2>5. j # saves[k].previous
    BY <2>1, <2>4 DEF Settled, Unsettled
  <2>6. j < saves[k].previous
    BY <2>2, <2>3, <2>5 DEF Saves
  <2>7. QED
    BY <2>1, <2>3, <2>4, <2>6 DEF ChainInv, OneAtATime, Begun, Settled
<1>3. QED
  BY <1>1, <1>2

\* Where a save can be when it moves, and what becomes of the file.
LEMMA ChainStep ==
  ASSUME ChainInv, NEW k \in Saves, SaveStep(k) \/ ReturnMove(k)
  PROVE  ChainInv'
<1> USE DEF Phases
<1>1. file = k => Landed(k) \/ Phase(k) = "lost"
  BY DEF ChainInv, FileIsNewest, Saves
<1>2. CASE Begin(k)
  <2>1. \A j \in Saves : j < k => ~Unsettled(j)
    BY <1>2, ItsTurn DEF Begin
  <2>2. Phase(k) = "waiting" /\ up /\ up' /\ tail' = tail /\ file' = file
    BY <1>2 DEF Begin
  <2>3. Unsettled(k) /\ ~Landed(k) /\ ~Ended(k)
    BY <2>2 DEF Unsettled, Landed, Ended
  <2>4. CASE To(k, "writing")
    BY <1>1, <2>1, <2>2, <2>3, <2>4, ChainTurn
  <2>5. CASE To(k, "rejected")
    BY <1>1, <2>1, <2>2, <2>3, <2>5, ChainTurn
  <2>6. QED
    BY <1>2, <2>4, <2>5 DEF Begin
<1>3. CASE Write(k)
  <2>1. Phase(k) = "writing" /\ up /\ up' /\ tail' = tail /\ file' = file
    BY <1>3 DEF Write
  <2>2. Unsettled(k) /\ ~Landed(k) /\ ~Ended(k) /\ Begun(k)
    BY <2>1 DEF Unsettled, Landed, Ended, Begun
  <2>3. \A j \in Saves : j < k => ~Unsettled(j)
    BY <2>2, ItsTurn
  <2>4. CASE To(k, "renaming")
    BY <1>1, <2>1, <2>2, <2>3, <2>4, ChainTurn
  <2>5. CASE To(k, "dropped")
    BY <1>1, <2>1, <2>2, <2>3, <2>5, ChainTurn
  <2>6. QED
    BY <1>3, <2>4, <2>5 DEF Write
<1>4. CASE Rename(k)
  <2>1. Phase(k) = "renaming" /\ up /\ up' /\ tail' = tail
    BY <1>4 DEF Rename
  <2>2. Unsettled(k) /\ ~Landed(k) /\ ~Ended(k) /\ Begun(k)
    BY <2>1 DEF Unsettled, Landed, Ended, Begun
  <2>3. \A j \in Saves : j < k => ~Unsettled(j)
    BY <2>2, ItsTurn
  <2>4. CASE To(k, "kept") /\ file' = k
    BY <2>1, <2>2, <2>3, <2>4, ChainTurn
  <2>5. CASE To(k, "dropped") /\ file' = file
    BY <1>1, <2>1, <2>2, <2>3, <2>5, ChainTurn
  <2>6. QED
    BY <1>4, <2>4, <2>5 DEF Rename
<1>5. CASE Tidy(k)
  <2>1. Phase(k) \in {"kept", "dropped"} /\ up /\ up' /\ tail' = tail /\ file' = file
    BY <1>5 DEF Tidy
  <2>2. Unsettled(k) /\ ~Ended(k) /\ Begun(k) /\ (Landed(k) <=> Phase(k) = "kept")
    BY <2>1 DEF Unsettled, Landed, Ended, Begun
  <2>3. \A j \in Saves : j < k => ~Unsettled(j)
    BY <2>2, ItsTurn
  <2>4. CASE Phase(k) = "kept" /\ To(k, "resolved")
    BY <1>1, <2>1, <2>2, <2>3, <2>4, ChainTurn
  <2>5. CASE Phase(k) = "dropped" /\ To(k, "rejected")
    BY <1>1, <2>1, <2>2, <2>3, <2>5, ChainTurn
  <2>6. QED
    BY <1>5, <2>4, <2>5 DEF Tidy
<1>6. CASE ReturnMove(k)
  <2>1. Phase(k) \in {"resolved", "rejected"} /\ up /\ up' /\ file' = file
    BY <1>6 DEF ReturnMove
  <2>2. ~Ended(k) /\ Begun(k) /\ (Landed(k) <=> Phase(k) = "resolved")
    BY <2>1 DEF Landed, Ended, Begun
  <2>3. \A j \in Saves : j < k => ~Unsettled(j)
    BY <2>2, ItsTurn
  <2>4. tail' = tail \/ (tail = k /\ tail' = 0)
    BY <1>6 DEF ReturnMove
  <2>5. CASE Phase(k) = "resolved" /\ To(k, "ok")
    BY <1>1, <2>1, <2>2, <2>3, <2>4, <2>5, ChainTurn
  <2>6. CASE Phase(k) = "rejected" /\ To(k, "failed")
    BY <1>1, <2>1, <2>2, <2>3, <2>4, <2>6, ChainTurn
  <2>7. QED
    BY <1>6, <2>5, <2>6 DEF ReturnMove
<1>7. QED
  BY <1>2, <1>3, <1>4, <1>5, <1>6 DEF SaveStep

LEMMA ChainStart == ChainInv /\ StartMove => ChainInv'
  BY DEF ChainInv, StartMove, Types, Numbered, Still, TailIsLast, WaitsForLast, OneAtATime,
         FileIsNewest, Phase, Unsettled, Begun, Landed

LEMMA ChainSame == ChainInv /\ UNCHANGED frame => ChainInv'
  BY DEF ChainInv, frame, Types, Numbered, Still, TailIsLast, WaitsForLast, OneAtATime,
         FileIsNewest, Phase, Unsettled, Begun, Landed, Ended

\* Whatever the program asks for, the chain keeps its order.
LEMMA ChainMoves == ChainInv /\ (Moves \/ UNCHANGED frame) => ChainInv'
  BY ChainStart, ChainCrash, ChainSave, ChainStep, ChainSame DEF Moves

LEMMA ChainInit == StoreInit => ChainInv
<1> SUFFICES ASSUME StoreInit PROVE ChainInv
  OBVIOUS
<1>1. Nothing \in Contents
  BY DEF Nothing, Contents, Statuses
<1>2. saves \in [Saves -> [phase : Phases, content : Contents, previous : 0..MaxSaves]]
  BY <1>1, StoreAssumption DEF StoreInit, Phases
<1>3. \A k \in Saves : Phase(k) = "unused"
  BY DEF StoreInit, Phase
<1>4. Types
  <2>1. up \in BOOLEAN
    BY DEF StoreInit
  <2>2. file \in 0..MaxSaves /\ tail \in 0..MaxSaves
    BY StoreAssumption DEF StoreInit
  <2>3. QED
    BY <1>2, <2>1, <2>2 DEF Types
<1>5. file = 0 /\ tail = 0
  BY DEF StoreInit
<1>6. \A k \in Saves : ~Unsettled(k) /\ ~Begun(k) /\ ~Landed(k) /\ Phase(k) # "waiting"
  BY <1>3 DEF Unsettled, Begun, Landed
<1>7. Numbered /\ Still
  BY <1>3, <1>5 DEF Numbered, Still
<1>8. TailIsLast /\ WaitsForLast /\ OneAtATime /\ FileIsNewest
  BY <1>5, <1>6 DEF TailIsLast, WaitsForLast, OneAtATime, FileIsNewest
<1>9. QED
  BY <1>4, <1>7, <1>8 DEF ChainInv

\* The promise kept to a caller, from the order of the chain.
LEMMA ChainKeeps == ChainInv => AcknowledgedIsKept
  BY DEF ChainInv, FileIsNewest, AcknowledgedIsKept, Landed, Saves

-----------------------------------------------------------------------------
(* The refinement of DurableState *)

Requested == [k \in Saves |-> Outside(Phase(k))]

\* A step of one save is a step of its request, or none.
LEMMA RequestTo ==
  ASSUME Types, NEW k \in Saves, NEW p \in Phases, To(k, p)
  PROVE  Requested' = [Requested EXCEPT ![k] = Outside(p)]
<1>1. /\ Phase(k)' = p
      /\ \A j \in Saves : j # k => Phase(j)' = Phase(j)
  BY AfterTo
<1>2. QED
  BY <1>1 DEF Requested

\* The request that is served is the first that is pending.
LEMMA FirstPending ==
  ASSUME ChainInv, NEW k \in Saves, Outside(Phase(k)) = "pending",
         \A j \in Saves : j < k => ~Unsettled(j)
  PROVE  Durable!First(k)
<1>1. \A j \in Saves : Outside(Phase(j)) = "pending" => Unsettled(j)
  BY DEF ChainInv, Types, Outside, Phase, Phases, Unsettled
<1>2. \A j \in 1..(k - 1) : j \in Saves /\ j < k
  BY StoreAssumption DEF Saves
<1>3. QED
  BY <1>1, <1>2 DEF Durable!First

LEMMA RefineInit == StoreInit => Durable!Init
<1> SUFFICES ASSUME StoreInit PROVE Durable!Init
  OBVIOUS
<1>1. \A k \in Saves : Outside(Phase(k)) = "unused"
  BY DEF StoreInit, Phase, Outside
<1>2. QED
  BY <1>1 DEF StoreInit, Durable!Init, Durable!Requests, Saves

LEMMA RefineStep ==
  ASSUME ChainInv, NEW k \in Saves, SaveStep(k) \/ ReturnMove(k)
  PROVE  Durable!Take(k) \/ Durable!Refuse(k) \/ Durable!Answer(k) \/ UNCHANGED Durable!vars
<1> USE DEF Phases, Requested
<1>0. Types
  BY DEF ChainInv
<1>1. CASE Begin(k)
  <2>1. \A j \in Saves : j < k => ~Unsettled(j)
    BY <1>1, ItsTurn DEF Begin
  <2>2. Outside(Phase(k)) = "pending" /\ file' = file /\ up' = up
    BY <1>1 DEF Begin, Outside
  <2>3. Durable!First(k)
    BY <2>1, <2>2, FirstPending
  <2>4. CASE To(k, "writing")
    <3>1. Requested' = [Requested EXCEPT ![k] = "pending"]
      BY <1>0, <2>4, RequestTo DEF Outside
    <3>2. Requested' = Requested
      BY <2>2, <3>1
    <3>3. QED
      BY <2>2, <3>2 DEF Durable!vars
  <2>5. CASE To(k, "rejected")
    <3>1. Requested' = [Requested EXCEPT ![k] = "refused"]
      BY <1>0, <2>5, RequestTo DEF Outside
    <3>2. QED
      BY <2>2, <2>3, <3>1 DEF Durable!Refuse
  <2>6. QED
    BY <1>1, <2>4, <2>5 DEF Begin
<1>2. CASE Write(k)
  <2>1. \A j \in Saves : j < k => ~Unsettled(j)
    BY <1>2, ItsTurn DEF Write, Begun
  <2>2. Outside(Phase(k)) = "pending" /\ file' = file /\ up' = up
    BY <1>2 DEF Write, Outside
  <2>3. Durable!First(k)
    BY <2>1, <2>2, FirstPending
  <2>4. CASE To(k, "renaming")
    <3>1. Requested' = [Requested EXCEPT ![k] = "pending"]
      BY <1>0, <2>4, RequestTo DEF Outside
    <3>2. Requested' = Requested
      BY <2>2, <3>1
    <3>3. QED
      BY <2>2, <3>2 DEF Durable!vars
  <2>5. CASE To(k, "dropped")
    <3>1. Requested' = [Requested EXCEPT ![k] = "refused"]
      BY <1>0, <2>5, RequestTo DEF Outside
    <3>2. QED
      BY <2>2, <2>3, <3>1 DEF Durable!Refuse
  <2>6. QED
    BY <1>2, <2>4, <2>5 DEF Write
<1>3. CASE Rename(k)
  <2>1. \A j \in Saves : j < k => ~Unsettled(j)
    BY <1>3, ItsTurn DEF Rename, Begun
  <2>2. Outside(Phase(k)) = "pending" /\ up' = up
    BY <1>3 DEF Rename, Outside
  <2>3. Durable!First(k)
    BY <2>1, <2>2, FirstPending
  <2>4. CASE To(k, "kept") /\ file' = k
    <3>1. Requested' = [Requested EXCEPT ![k] = "taken"]
      BY <1>0, <2>4, RequestTo DEF Outside
    <3>2. QED
      BY <2>2, <2>3, <2>4, <3>1 DEF Durable!Take
  <2>5. CASE To(k, "dropped") /\ file' = file
    <3>1. Requested' = [Requested EXCEPT ![k] = "refused"]
      BY <1>0, <2>5, RequestTo DEF Outside
    <3>2. QED
      BY <2>2, <2>3, <2>5, <3>1 DEF Durable!Refuse
  <2>6. QED
    BY <1>3, <2>4, <2>5 DEF Rename
<1>4. CASE Tidy(k)
  <2>1. file' = file /\ up' = up
    BY <1>4 DEF Tidy
  <2>2. CASE Phase(k) = "kept" /\ To(k, "resolved")
    <3>1. Requested' = [Requested EXCEPT ![k] = "taken"]
      BY <1>0, <2>2, RequestTo DEF Outside
    <3>2. Requested' = Requested
      BY <2>2, <3>1 DEF Outside
    <3>3. QED
      BY <2>1, <3>2 DEF Durable!vars
  <2>3. CASE Phase(k) = "dropped" /\ To(k, "rejected")
    <3>1. Requested' = [Requested EXCEPT ![k] = "refused"]
      BY <1>0, <2>3, RequestTo DEF Outside
    <3>2. Requested' = Requested
      BY <2>3, <3>1 DEF Outside
    <3>3. QED
      BY <2>1, <3>2 DEF Durable!vars
  <2>4. QED
    BY <1>4, <2>2, <2>3 DEF Tidy
<1>5. CASE ReturnMove(k)
  <2>1. file' = file /\ up' = up
    BY <1>5 DEF ReturnMove
  <2>2. CASE Phase(k) = "resolved" /\ To(k, "ok")
    <3>1. Requested' = [Requested EXCEPT ![k] = "ok"] /\ Outside(Phase(k)) = "taken"
      BY <1>0, <2>2, RequestTo DEF Outside
    <3>2. QED
      BY <2>1, <3>1 DEF Durable!Answer
  <2>3. CASE Phase(k) = "rejected" /\ To(k, "failed")
    <3>1. Requested' = [Requested EXCEPT ![k] = "failed"] /\ Outside(Phase(k)) = "refused"
      BY <1>0, <2>3, RequestTo DEF Outside
    <3>2. QED
      BY <2>1, <3>1 DEF Durable!Answer
  <2>4. QED
    BY <1>5, <2>2, <2>3 DEF ReturnMove
<1>6. QED
  BY <1>1, <1>2, <1>3, <1>4, <1>5 DEF SaveStep

LEMMA RefineSave ==
  ASSUME ChainInv, NEW k \in Saves, SaveMove(k)
  PROVE  Durable!Ask(k)
<1>0. PICK c \in Contents : Save(k, c) /\ UNCHANGED <<file, up>>
  BY DEF SaveMove
<1>1. /\ Phase(k)' = "waiting"
      /\ \A j \in Saves : j # k => saves'[j] = saves[j]
  BY <1>0, AfterSave DEF ChainInv
<1>2. Requested' = [Requested EXCEPT ![k] = "pending"]
  BY <1>1 DEF Requested, Outside, Phase
<1>3. \A j \in Saves : Phase(j) # "unused" => Outside(Phase(j)) # "unused"
  BY DEF ChainInv, Types, Outside, Phase, Phases
<1>4. up /\ Phase(k) = "unused" /\ \A j \in 1..(k - 1) : j \in Saves /\ Phase(j) # "unused"
  BY <1>0, StoreAssumption DEF Save, Free, Saves
<1>5. Outside(Phase(k)) = "unused"
  BY <1>4 DEF Outside
<1>6. QED
  BY <1>0, <1>2, <1>3, <1>4, <1>5 DEF Durable!Ask, Requested

LEMMA RefineCrash == ChainInv /\ CrashMove => Durable!Crash
<1> SUFFICES ASSUME ChainInv, CrashMove PROVE Durable!Crash
  OBVIOUS
<1>1. \A k \in Saves : Phase(k)' = IF Phase(k) = "unused" \/ Ended(k) THEN Phase(k) ELSE "lost"
  BY DEF CrashMove, ChainInv, Types, Phases, Phase, Ended
<1>2. \A k \in Saves : Outside(Phase(k)) \in {"pending", "taken", "refused"}
                         <=> ~(Phase(k) = "unused" \/ Ended(k))
  BY DEF ChainInv, Types, Outside, Phase, Phases, Ended
<1>3. \A k \in Saves : Outside(Phase(k)') =
         IF Outside(Phase(k)) \in {"pending", "taken", "refused"} THEN "lost" ELSE Outside(Phase(k))
  BY <1>1, <1>2 DEF Outside
<1>4. QED
  BY <1>3 DEF CrashMove, Durable!Crash, Durable!Waiting, Durable!Requests, Saves, Requested

\* Every step of the chain is a step of the register, or none.
LEMMA RefineMoves ==
  ASSUME ChainInv, Moves \/ UNCHANGED frame
  PROVE  [Durable!Next]_(Durable!vars)
<1>1. CASE StartMove
  <2>1. Durable!Start
    BY <1>1 DEF StartMove, Durable!Start, Phase
  <2>2. QED
    BY <2>1 DEF Durable!Next
<1>2. CASE CrashMove
  BY <1>2, RefineCrash DEF Durable!Next
<1>3. ASSUME NEW k \in Saves, SaveMove(k) \/ SaveStep(k) \/ ReturnMove(k)
      PROVE  [Durable!Next]_(Durable!vars)
  <2>1. \/ Durable!Ask(k) \/ Durable!Take(k) \/ Durable!Refuse(k) \/ Durable!Answer(k)
        \/ UNCHANGED Durable!vars
    BY <1>3, RefineSave, RefineStep
  <2>2. k \in Durable!Requests
    BY DEF Durable!Requests, Saves
  <2>3. QED
    BY <2>1, <2>2 DEF Durable!Next
<1>4. CASE UNCHANGED frame
  BY <1>4 DEF frame, Durable!vars, Phase
<1>5. QED
  BY <1>1, <1>2, <1>3, <1>4 DEF Moves

-----------------------------------------------------------------------------
(* The store by itself *)

LEMMA StoreMoves ==
  ASSUME memory \in Contents, [StoreNext]_store
  PROVE  (Moves \/ UNCHANGED frame) /\ memory' \in Contents
<1>1. ASSUME NEW c \in Contents, Start(c) PROVE Moves /\ memory' \in Contents
  BY <1>1 DEF Start, StartMove, Moves
<1>2. CASE Crash
  <2>1. CrashMove
    BY <1>2 DEF Crash, CrashMove
  <2>2. memory' \in Contents
    BY <1>2 DEF Crash, Nothing, Contents, Statuses
  <2>3. QED
    BY <2>1, <2>2 DEF Moves
<1>3. ASSUME NEW c \in Contents, up, memory' = c, UNCHANGED <<file, saves, tail, up, crashes>>
      PROVE UNCHANGED frame /\ memory' \in Contents
  BY <1>3 DEF frame
<1>4. ASSUME NEW k \in Saves, Save(k, memory), UNCHANGED <<memory, file, up, crashes>>
      PROVE Moves /\ memory' \in Contents
  BY <1>4 DEF SaveMove, Moves
<1>5. ASSUME NEW k \in Saves, SaveStep(k) PROVE Moves /\ memory' \in Contents
  BY <1>5 DEF SaveStep, Begin, Write, Rename, Tidy, Moves
<1>6. ASSUME NEW k \in Saves, Return(k) PROVE Moves /\ memory' \in Contents
  BY <1>6 DEF Return, ReturnMove, Moves
<1>7. CASE UNCHANGED store
  BY <1>7 DEF store, frame
<1>8. QED
  BY <1>1, <1>2, <1>3, <1>4, <1>5, <1>6, <1>7 DEF StoreNext

\* The chain of temporary files and renames implements the atomic, ordered
\* register, whatever is saved, whatever fails and wherever the program dies.
THEOREM StoreImplements == StoreSpec => ImplementsDurableState
<1> DEFINE Inv == ChainInv /\ memory \in Contents
<1>1. StoreInit => Inv
  BY ChainInit DEF StoreInit, Nothing, Contents, Statuses
<1>2. Inv /\ [StoreNext]_store => Inv'
  BY StoreMoves, ChainMoves
<1>3. StoreInit => Durable!Init
  BY RefineInit
<1>4. Inv /\ [StoreNext]_store => [Durable!Next]_(Durable!vars)
  BY StoreMoves, RefineMoves
<1> HIDE DEF Inv
<1>5. QED
  BY <1>1, <1>2, <1>3, <1>4, PTL DEF StoreSpec, ImplementsDurableState, Durable!Spec


-----------------------------------------------------------------------------
(* Types *)

Steps == SaveSteps \cup OtherSteps

SourceTypes ==
    /\ memory \in Contents
    /\ vault \subseteq Items /\ fresh \subseteq Items
    /\ calls \in [Ids -> [item : Items, step : Steps, save : 0..MaxSaves] \cup {NoCall}]
    /\ undone \subseteq Items /\ orphans \subseteq Items
    /\ settled \subseteq Items /\ reopened \subseteq Items

\* An operation that waits for a save has one that was asked for.
OwnSave == \A o \in Ids : calls[o].step \in SaveSteps =>
               calls[o].save \in Saves /\ Phase(calls[o].save) \notin {"unused", "lost"}

\* Operations do not survive the program.
CallsLive == ~up => \A o \in Ids : calls[o] = NoCall

Base == ChainInv /\ SourceTypes /\ OwnSave /\ CallsLive

-----------------------------------------------------------------------------
(* What the operations have in common *)

\* The item is changed, a save is asked for, and the operation waits for it.
LEMMA AfterPut ==
  ASSUME Base, NEW o \in Ids, NEW i \in Items, NEW status \in Statuses, NEW step \in SaveSteps,
         Put(o, i, status, step)
  PROVE  \E k \in Saves :
           /\ SaveMove(k) /\ Free(k) /\ tail' = k
           /\ memory' = [memory EXCEPT ![i] = status]
           /\ memory' \in Contents
           /\ saves' = [saves EXCEPT ![k] = [phase |-> "waiting", content |-> memory', previous |-> tail]]
           /\ calls' = [calls EXCEPT ![o] = [item |-> i, step |-> step, save |-> k]]
           /\ UNCHANGED <<file, up>> /\ up
<1>1. PICK k \in Saves :
         /\ Save(k, memory')
         /\ calls' = [calls EXCEPT ![o] = [item |-> i, step |-> step, save |-> k]]
  BY DEF Put
<1>2. memory' = [memory EXCEPT ![i] = status] /\ UNCHANGED <<file, up>>
  BY DEF Put
<1>3. memory' \in Contents
  BY <1>2 DEF Base, SourceTypes, Contents
<1>4. SaveMove(k)
  BY <1>1, <1>2, <1>3 DEF SaveMove
<1>5. QED
  BY <1>1, <1>2, <1>3, <1>4 DEF Save

\* The await of a save ends.
LEMMA AfterReturn ==
  ASSUME Base, NEW o \in Ids, calls[o].step \in SaveSteps, Return(calls[o].save)
  PROVE  /\ ReturnMove(calls[o].save) /\ calls[o].save \in Saves
         /\ up /\ UNCHANGED <<memory, file, up>>
         /\ \A k \in Saves : saves'[k].content = saves[k].content
         /\ \A k \in Saves : Phase(k) = "unused" <=> Phase(k)' = "unused"
<1>1. calls[o].save \in Saves
  BY DEF Base, OwnSave
<1>2. ReturnMove(calls[o].save) /\ up /\ UNCHANGED <<memory, file, up>>
  BY DEF Return, ReturnMove
<1>3. QED
  BY <1>1, <1>2 DEF ReturnMove, To, Phase, Base, ChainInv, Types

\* Steps of an operation of item i: it is the only one, on the only item, that
\* changes anything but the saves.
OnlyOne(o, i) ==
    /\ up
    /\ \A p \in Ids : p # o => calls'[p] = calls[p]
    /\ calls[o].step \in Steps => calls[o].item = i
    /\ calls'[o].step \in Steps => calls'[o].item = i
    /\ \A j \in Items : j # i => /\ memory'[j] = memory[j]
                                 /\ j \in vault' <=> j \in vault
                                 /\ j \in fresh' <=> j \in fresh
                                 /\ j \in undone' <=> j \in undone
                                 /\ j \in orphans' <=> j \in orphans
                                 /\ j \in settled' <=> j \in settled
                                 /\ j \in reopened' <=> j \in reopened

\* What it writes is what the memory then is.
WritesMemory ==
    /\ memory' \in Contents
    /\ \A k \in Saves : Phase(k) # "unused" => saves'[k].content = saves[k].content
    /\ \A k \in Saves : Phase(k) = "unused" /\ Phase(k)' # "unused" => saves'[k].content = memory'

LEMMA PutFacts ==
  ASSUME Base, NEW o \in Ids, NEW i \in Items, NEW status \in Statuses, NEW step \in SaveSteps,
         Put(o, i, status, step)
  PROVE  /\ Moves /\ WritesMemory /\ up /\ up'
         /\ memory' = [memory EXCEPT ![i] = status]
         /\ \A p \in Ids : p # o => calls'[p] = calls[p]
         /\ calls'[o].item = i /\ calls'[o].step = step /\ calls'[o].save \in Saves
         /\ calls'[o] \in [item : Items, step : Steps, save : 0..MaxSaves]
         /\ calls' \in [Ids -> [item : Items, step : Steps, save : 0..MaxSaves] \cup {NoCall}]
         /\ Phase(calls'[o].save) = "unused" /\ saves'[calls'[o].save].phase = "waiting"
         /\ \A k \in Saves : calls'[o].save <= k => Phase(k) = "unused"
         /\ \A k \in Saves : k # calls'[o].save => saves'[k] = saves[k]
<1>1. PICK k \in Saves :
           /\ SaveMove(k) /\ Free(k) /\ tail' = k
           /\ memory' = [memory EXCEPT ![i] = status]
           /\ memory' \in Contents
           /\ saves' = [saves EXCEPT ![k] = [phase |-> "waiting", content |-> memory', previous |-> tail]]
           /\ calls' = [calls EXCEPT ![o] = [item |-> i, step |-> step, save |-> k]]
           /\ UNCHANGED <<file, up>> /\ up
  BY AfterPut
<1>2. calls'[o] = [item |-> i, step |-> step, save |-> k]
  BY <1>1 DEF Base, SourceTypes
<1>3. k \in 0..MaxSaves /\ step \in Steps
  BY StoreAssumption DEF Saves, Steps
<1>4. /\ Phase(k) = "unused"
      /\ \A j \in Saves : k <= j => Phase(j) = "unused"
  BY <1>1 DEF Free, Base, ChainInv, Numbered, Saves
<1>5. \A j \in Saves : saves'[j] = IF j = k THEN [phase |-> "waiting", content |-> memory', previous |-> tail]
                                   ELSE saves[j]
  BY <1>1 DEF Base, ChainInv, Types
<1>6. WritesMemory
  BY <1>1, <1>4, <1>5 DEF WritesMemory, Phase
<1>7. Moves
  BY <1>1 DEF Moves
<1>8. calls' \in [Ids -> [item : Items, step : Steps, save : 0..MaxSaves] \cup {NoCall}]
  BY <1>1, <1>3 DEF Base, SourceTypes
<1>9. /\ \A p \in Ids : p # o => calls'[p] = calls[p]
      /\ calls'[o].item = i /\ calls'[o].step = step /\ calls'[o].save = k
      /\ calls'[o] \in [item : Items, step : Steps, save : 0..MaxSaves]
  BY <1>1, <1>2, <1>3
<1>10. saves'[k].phase = "waiting"
  BY <1>5
<1>11. up /\ up'
  BY <1>1
<1>12. QED
  BY <1>1, <1>4, <1>5, <1>6, <1>7, <1>8, <1>9, <1>10, <1>11

LEMMA ReturnFacts ==
  ASSUME Base, NEW o \in Ids, calls[o].step \in SaveSteps, Return(calls[o].save)
  PROVE  Moves /\ WritesMemory /\ up /\ up' /\ memory' = memory
<1>1. /\ ReturnMove(calls[o].save) /\ calls[o].save \in Saves
      /\ up /\ UNCHANGED <<memory, file, up>>
      /\ \A k \in Saves : saves'[k].content = saves[k].content
      /\ \A k \in Saves : Phase(k) = "unused" <=> Phase(k)' = "unused"
  BY AfterReturn
<1>2. WritesMemory
  BY <1>1 DEF WritesMemory, Base, SourceTypes
<1>3. QED
  BY <1>1, <1>2 DEF Moves

LEMMA StillFacts ==
  ASSUME Base, UNCHANGED store
  PROVE  UNCHANGED frame /\ WritesMemory /\ up' = up /\ memory' = memory /\ file' = file /\ saves' = saves
  BY DEF store, frame, WritesMemory, Base, SourceTypes, Phase

\* How the list of operations changes.
LEMMA CallsChange ==
  ASSUME Base, NEW o \in Ids
  PROVE  /\ End(o) => /\ calls'[o] = NoCall /\ \A p \in Ids : p # o => calls'[p] = calls[p]
                      /\ calls' \in [Ids -> [item : Items, step : Steps, save : 0..MaxSaves] \cup {NoCall}]
         /\ \A i \in Items : \A step \in OtherSteps : Goto(o, i, step) =>
              /\ calls'[o].item = i /\ calls'[o].step = step
              /\ \A p \in Ids : p # o => calls'[p] = calls[p]
              /\ calls' \in [Ids -> [item : Items, step : Steps, save : 0..MaxSaves] \cup {NoCall}]
<1>1. 0 \in 0..MaxSaves
  BY StoreAssumption
<1>2. QED
  BY <1>1 DEF End, Goto, Base, SourceTypes, Steps

\* Everything a step of an operation of item i does that is not particular to it.
Effect(o, i) ==
    /\ OnlyOne(o, i) /\ up'
    /\ Moves \/ UNCHANGED frame
    /\ WritesMemory
    /\ SourceTypes'
    /\ calls'[o].step \in SaveSteps =>
         calls'[o].save \in Saves /\ saves'[calls'[o].save].phase \notin {"unused", "lost"}

\* The three kinds of step: one that asks for a save, one that was waiting for
\* a save, and one that was waiting for the vault.
LEMMA PutEffect ==
  ASSUME Base, NEW o \in Ids, NEW i \in Items, NEW status \in Statuses, NEW step \in SaveSteps,
         Put(o, i, status, step),
         calls[o].step \in Steps => calls[o].item = i,
         \A j \in Items : j # i => vault' \cap {j} = vault \cap {j},
         vault' \subseteq Items, UNCHANGED <<fresh, undone, orphans, settled>>,
         reopened' = reopened \/ reopened' = reopened \cup {i}
  PROVE  Effect(o, i)
<1>1. /\ Moves /\ WritesMemory /\ up /\ up'
      /\ memory' = [memory EXCEPT ![i] = status]
      /\ \A p \in Ids : p # o => calls'[p] = calls[p]
      /\ calls'[o].item = i /\ calls'[o].step = step /\ calls'[o].save \in Saves
      /\ calls' \in [Ids -> [item : Items, step : Steps, save : 0..MaxSaves] \cup {NoCall}]
      /\ saves'[calls'[o].save].phase = "waiting"
  BY PutFacts
<1>2. SourceTypes'
  BY <1>1 DEF SourceTypes, WritesMemory, Base
<1>3. \A j \in Items : j # i => memory'[j] = memory[j]
  BY <1>1 DEF Base, SourceTypes, Contents
<1>4. \A j \in Items : j # i => (j \in vault' <=> j \in vault)
  OBVIOUS
<1>5. OnlyOne(o, i)
  BY <1>1, <1>3, <1>4 DEF OnlyOne
<1>6. QED
  BY <1>1, <1>2, <1>5 DEF Effect

LEMMA ReturnEffect ==
  ASSUME Base, NEW o \in Ids, NEW i \in Items, calls[o].item = i,
         calls[o].step \in SaveSteps, Return(calls[o].save),
         End(o) \/ \E step \in OtherSteps : Goto(o, i, step),
         settled' = settled \/ settled' = settled \cup {i},
         UNCHANGED <<vault, fresh, undone, orphans, reopened>>
  PROVE  Effect(o, i)
<1>1. Moves /\ WritesMemory /\ up /\ up' /\ memory' = memory
  BY ReturnFacts
<1>2. /\ \A p \in Ids : p # o => calls'[p] = calls[p]
      /\ calls' \in [Ids -> [item : Items, step : Steps, save : 0..MaxSaves] \cup {NoCall}]
      /\ calls'[o] = NoCall \/ (calls'[o].item = i /\ calls'[o].step \in OtherSteps)
  BY CallsChange
<1>3. SourceTypes'
  BY <1>1, <1>2 DEF SourceTypes, Base
<1>4. calls'[o].step \notin SaveSteps
  BY <1>2 DEF NoCall, SaveSteps, OtherSteps
<1>5. OnlyOne(o, i)
  BY <1>1, <1>2 DEF OnlyOne, NoCall, Steps, SaveSteps, OtherSteps
<1>6. QED
  BY <1>1, <1>3, <1>4, <1>5 DEF Effect

LEMMA VaultEffect ==
  ASSUME Base, NEW o \in Ids, NEW i \in Items, up,
         calls[o].step \in Steps => calls[o].item = i,
         UNCHANGED store,
         End(o) \/ \E step \in OtherSteps : Goto(o, i, step),
         vault' = vault \/ vault' = vault \ {i}, fresh' = fresh \/ fresh' = fresh \ {i},
         orphans' = orphans \/ orphans' = orphans \cup {i}, UNCHANGED <<undone, settled, reopened>>
  PROVE  Effect(o, i)
<1>1. UNCHANGED frame /\ WritesMemory /\ up' = up /\ memory' = memory
  BY StillFacts
<1>2. /\ \A p \in Ids : p # o => calls'[p] = calls[p]
      /\ calls' \in [Ids -> [item : Items, step : Steps, save : 0..MaxSaves] \cup {NoCall}]
      /\ calls'[o] = NoCall \/ (calls'[o].item = i /\ calls'[o].step \in OtherSteps)
  BY CallsChange
<1>3. SourceTypes'
  BY <1>1, <1>2 DEF SourceTypes, Base
<1>4. calls'[o].step \notin SaveSteps
  BY <1>2 DEF NoCall, SaveSteps, OtherSteps
<1>5. OnlyOne(o, i)
  BY <1>1, <1>2 DEF OnlyOne, NoCall, Steps, SaveSteps, OtherSteps
<1>6. QED
  BY <1>1, <1>3, <1>4, <1>5 DEF Effect

\* An addition whose save was rejected takes the item back.
Retracts(o, i) ==
    /\ In(o, i, "adding")
    /\ up /\ Phase(calls[o].save) = "rejected"
    /\ To(calls[o].save, "failed")
    /\ tail' = IF tail = calls[o].save THEN 0 ELSE tail
    /\ memory' = [memory EXCEPT ![i] = "absent"]
    /\ undone' = undone \cup {i}
    /\ Goto(o, i, "undoing")
    /\ UNCHANGED <<file, up, crashes, vault, fresh, orphans, settled, reopened>>

LEMMA RetractEffect ==
  ASSUME Base, NEW o \in Ids, NEW i \in Items, Retracts(o, i)
  PROVE  /\ Effect(o, i) /\ ReturnMove(calls[o].save)
         /\ \A k \in Saves : saves'[k].content = saves[k].content
         /\ \A k \in Saves : Phase(k)' = "unused" <=> Phase(k) = "unused"
         /\ calls'[o].item = i /\ calls'[o].step = "undoing"
<1>1. calls[o].save \in Saves /\ calls[o].step = "adding" /\ calls[o].item = i
  BY DEF Retracts, In, Base, OwnSave, SaveSteps
<1>2. ReturnMove(calls[o].save)
  BY DEF Retracts, ReturnMove
<1>3. Moves
  BY <1>1, <1>2 DEF Moves
<1>4. /\ \A k \in Saves : saves'[k].content = saves[k].content
      /\ \A k \in Saves : Phase(k)' = "unused" <=> Phase(k) = "unused"
  BY <1>1 DEF Retracts, To, Phase, Base, ChainInv, Types
<1>5. memory' \in Contents /\ \A j \in Items : j # i => memory'[j] = memory[j]
  BY DEF Retracts, Base, SourceTypes, Contents, Statuses
<1>6. WritesMemory
  BY <1>4, <1>5 DEF WritesMemory
<1>7. /\ \A p \in Ids : p # o => calls'[p] = calls[p]
      /\ calls' \in [Ids -> [item : Items, step : Steps, save : 0..MaxSaves] \cup {NoCall}]
      /\ calls'[o].item = i /\ calls'[o].step = "undoing"
  BY CallsChange DEF Retracts, OtherSteps
<1>8. SourceTypes'
  BY <1>5, <1>7 DEF SourceTypes, Base, Retracts
<1>9. up /\ up'
  BY DEF Retracts
<1>10. OnlyOne(o, i)
  BY <1>1, <1>5, <1>7, <1>9 DEF OnlyOne, Retracts
<1>11. QED
  BY <1>2, <1>3, <1>4, <1>6, <1>7, <1>8, <1>9, <1>10 DEF Effect, SaveSteps

\* A transfer ends: the item is changed and nothing is saved yet.
LEMMA FinishEffect ==
  ASSUME Base, NEW o \in Ids, NEW i \in Items, up, calls[o].step \notin Steps, Finish(o, i)
  PROVE  /\ Effect(o, i) /\ UNCHANGED frame /\ memory'[i] = "completed"
         /\ calls'[o].item = i /\ calls'[o].step = "ending"
<1>1. UNCHANGED frame /\ memory' = [memory EXCEPT ![i] = "completed"] /\ UNCHANGED sources
  BY DEF Finish, frame
<1>2. /\ memory' \in Contents /\ memory'[i] = "completed"
      /\ \A j \in Items : j # i => memory'[j] = memory[j]
  BY <1>1 DEF Base, SourceTypes, Contents, Statuses
<1>3. WritesMemory
  BY <1>1, <1>2 DEF WritesMemory, frame, Phase
<1>4. /\ \A p \in Ids : p # o => calls'[p] = calls[p]
      /\ calls' \in [Ids -> [item : Items, step : Steps, save : 0..MaxSaves] \cup {NoCall}]
      /\ calls'[o].item = i /\ calls'[o].step = "ending"
  BY CallsChange DEF Finish, OtherSteps
<1>5. SourceTypes'
  BY <1>1, <1>2, <1>4 DEF SourceTypes, Base, sources
<1>6. OnlyOne(o, i)
  BY <1>1, <1>2, <1>4 DEF OnlyOne, sources
<1>7. up'
  BY <1>1 DEF frame
<1>8. QED
  BY <1>1, <1>2, <1>3, <1>4, <1>5, <1>6, <1>7 DEF Effect, SaveSteps

LEMMA AsksEffect ==
  ASSUME Base, NEW o \in Ids, NEW i \in Items, Asks(o, i)
  PROVE  Effect(o, i)
<1>0. calls[o] = NoCall /\ up /\ (calls[o].step \notin Steps)
  <2>1. calls[o] = NoCall /\ up
    BY DEF Asks, Add, Touch, Reopen, Finish, Cancel, Remove, Idle
  <2>2. QED
    BY <2>1 DEF NoCall, Steps, SaveSteps, OtherSteps
<1>1. CASE Add(o, i)
  <2>1. /\ UNCHANGED store /\ Goto(o, i, "storing") /\ fresh' = fresh \ {i}
        /\ UNCHANGED <<vault, undone, orphans, settled, reopened>>
    BY <1>1 DEF Add
  <2>2. \E step \in OtherSteps : Goto(o, i, step)
    BY <2>1 DEF OtherSteps
  <2>3. QED
    BY <1>0, <2>1, <2>2, VaultEffect
<1>2. ASSUME NEW status \in Statuses, NEW step \in SaveSteps, Put(o, i, status, step),
             UNCHANGED <<vault, fresh, undone, orphans, settled>>,
             reopened' = reopened \/ reopened' = reopened \cup {i}
      PROVE  Effect(o, i)
  BY <1>0, <1>2, PutEffect DEF Base, SourceTypes
<1>3. CASE Touch(o, i)
  <2>1. PICK status \in Statuses : Put(o, i, status, "saving")
    BY <1>3 DEF Touch
  <2>2. QED
    BY <1>2, <1>3, <2>1 DEF Touch, SaveSteps, sources
<1>4. CASE Reopen(o, i)
  BY <1>2, <1>4 DEF Reopen, SaveSteps, Statuses
<1>5. CASE Cancel(o, i)
  BY <1>2, <1>5 DEF Cancel, SaveSteps, Statuses, sources
<1>6. CASE Remove(o, i)
  BY <1>2, <1>6 DEF Remove, SaveSteps, Statuses, sources
<1>7. CASE Finish(o, i)
  BY <1>0, <1>7, FinishEffect
<1>8. QED
  BY <1>1, <1>3, <1>4, <1>5, <1>6, <1>7 DEF Asks

LEMMA GoesOnEffect ==
  ASSUME Base, NEW o \in Ids, NEW i \in Items, GoesOn(o, i)
  PROVE  Effect(o, i)
<1>0. calls[o].item = i /\ calls[o].step \in Steps /\ up
  <2>1. calls[o].item = i /\ calls[o].step \in Steps
    BY DEF GoesOn, Stored, Added, Undone, Touched, Complete, Completed, Collected, Cancelled, Cleared,
           Buried, Emptied, Deleted, In, Steps, SaveSteps, OtherSteps
  <2>2. calls[o] # NoCall
    BY <2>1 DEF NoCall, Steps, SaveSteps, OtherSteps
  <2>3. QED
    BY <2>1, <2>2 DEF Base, CallsLive
<1>1. ASSUME NEW status \in Statuses, NEW step \in SaveSteps, Put(o, i, status, step),
             vault' = vault \/ vault' = vault \cup {i} \/ vault' = vault \ {i},
             UNCHANGED <<fresh, undone, orphans, settled, reopened>>
      PROVE  Effect(o, i)
  BY <1>0, <1>1, PutEffect DEF Base, SourceTypes
<1>2. ASSUME Return(calls[o].save), calls[o].step \in SaveSteps,
             End(o) \/ \E step \in OtherSteps : Goto(o, i, step),
             settled' = settled \/ settled' = settled \cup {i},
             UNCHANGED <<vault, fresh, undone, orphans, reopened>>
      PROVE  Effect(o, i)
  BY <1>0, <1>2, ReturnEffect
<1>3. ASSUME UNCHANGED store, End(o),
             vault' = vault \/ vault' = vault \ {i},
             orphans' = orphans \/ orphans' = orphans \cup {i},
             UNCHANGED <<fresh, undone, settled, reopened>>
      PROVE  Effect(o, i)
  BY <1>0, <1>3, VaultEffect
<1>4. memory[i] \in Statuses
  BY DEF Base, SourceTypes, Contents
<1>5. CASE Stored(o, i)
  <2>1. CASE Refuses /\ End(o) /\ UNCHANGED store
    BY <1>3, <1>5, <2>1 DEF Stored, Refuses
  <2>2. CASE vault' = vault \cup {i} /\ \E status \in {"idle", "active"} : Put(o, i, status, "adding")
    <3>1. PICK status \in {"idle", "active"} : Put(o, i, status, "adding")
      BY <2>2
    <3>2. status \in Statuses
      BY DEF Statuses
    <3>3. QED
      BY <1>1, <1>5, <2>2, <3>1, <3>2 DEF Stored, SaveSteps
  <2>3. QED
    BY <1>5, <2>1, <2>2 DEF Stored
<1>6. CASE Added(o, i)
  <2>1. CASE Saved(o) /\ End(o) /\ UNCHANGED undone
    BY <1>2, <1>6, <2>1 DEF Added, Saved, In, SaveSteps
  <2>2. CASE Retracts(o, i)
    BY <2>2, RetractEffect
  <2>3. QED
    BY <1>6, <2>1, <2>2 DEF Added, Retracts
<1>7. CASE Undone(o, i)
  BY <1>3, <1>7 DEF Undone, Removes, Refuses
<1>8. CASE Touched(o, i)
  BY <1>2, <1>8 DEF Touched, In, SaveSteps, sources
<1>9. CASE Completed(o, i)
  BY <1>2, <1>9 DEF Completed, Saved, Unsaved, In, SaveSteps, OtherSteps, sources
<1>10. CASE Collected(o, i)
  BY <1>3, <1>10 DEF Collected, Removes, Refuses
<1>11. CASE Cancelled(o, i)
  BY <1>2, <1>11 DEF Cancelled, Saved, Unsaved, In, SaveSteps, OtherSteps
<1>12. CASE Cleared(o, i)
  <2>1. CASE Removes(i) /\ End(o) /\ UNCHANGED store
    BY <1>3, <1>12, <2>1 DEF Cleared, Removes
  <2>2. CASE Refuses /\ Put(o, i, memory[i], "saving")
    BY <1>1, <1>4, <1>12, <2>2 DEF Cleared, Refuses, SaveSteps
  <2>3. QED
    BY <1>12, <2>1, <2>2 DEF Cleared
<1>13. CASE Buried(o, i)
  BY <1>2, <1>13 DEF Buried, Saved, Unsaved, In, SaveSteps, OtherSteps
<1>14. CASE Emptied(o, i)
  <2>1. CASE Removes(i) /\ Put(o, i, "absent", "deleting")
    BY <1>1, <1>14, <2>1 DEF Emptied, Removes, SaveSteps, Statuses
  <2>2. CASE Refuses /\ Put(o, i, memory[i], "saving")
    BY <1>1, <1>4, <1>14, <2>2 DEF Emptied, Refuses, SaveSteps
  <2>3. QED
    BY <1>14, <2>1, <2>2 DEF Emptied
<1>15. CASE Deleted(o, i)
  BY <1>2, <1>15 DEF Deleted, In, SaveSteps, sources
<1>16. CASE Complete(o, i)
  BY <1>1, <1>4, <1>16 DEF Complete, SaveSteps, sources
<1>17. QED
  BY <1>5, <1>6, <1>7, <1>8, <1>9, <1>10, <1>11, <1>12, <1>13, <1>14, <1>15, <1>16 DEF GoesOn

-----------------------------------------------------------------------------
(* Every step *)

\* A step of a save alone.
Quiet == (\E k \in Saves : SaveStep(k)) /\ UNCHANGED <<calls, sources>>

LEMMA QuietFacts ==
  ASSUME Base, Quiet
  PROVE  /\ Moves /\ WritesMemory /\ up /\ up' /\ memory' = memory
         /\ UNCHANGED <<calls, vault, fresh, undone, orphans, settled, reopened>>
         /\ \A k \in Saves : Phase(k)' = "unused" <=> Phase(k) = "unused"
         /\ \A k \in Saves : saves'[k].content = saves[k].content
<1>1. PICK k \in Saves : SaveStep(k)
  BY DEF Quiet
<1>2. up /\ up' /\ memory' = memory /\ \E p \in Phases \ {"unused"} : To(k, p) /\ Phase(k) # "unused"
  BY <1>1 DEF SaveStep, Begin, Write, Rename, Tidy, Phases
<1>3. /\ \A j \in Saves : Phase(j)' = "unused" <=> Phase(j) = "unused"
      /\ \A j \in Saves : saves'[j].content = saves[j].content
  BY <1>2 DEF To, Phase, Base, ChainInv, Types
<1>4. WritesMemory
  BY <1>2, <1>3 DEF WritesMemory, Base, SourceTypes
<1>5. QED
  BY <1>1, <1>2, <1>3, <1>4 DEF Moves, Quiet, sources

LEMMA DiesFacts ==
  ASSUME Base, Dies
  PROVE  /\ CrashMove /\ Moves /\ ~up' /\ memory' = Nothing /\ memory' \in Contents
         /\ calls' = [o \in Ids |-> NoCall]
         /\ \A k \in Saves : saves'[k].content = saves[k].content
         /\ \A k \in Saves : Phase(k)' = "unused" \/ Phase(k)' \in {"ok", "failed", "lost"}
         /\ SourceTypes'
<1>1. CrashMove /\ ~up' /\ memory' = Nothing
  BY DEF Dies, Crash, CrashMove
<1>2. memory' \in Contents
  BY <1>1 DEF Nothing, Contents, Statuses
<1>3. /\ \A k \in Saves : saves'[k].content = saves[k].content
      /\ \A k \in Saves : Phase(k)' = "unused" \/ Phase(k)' \in {"ok", "failed", "lost"}
  BY <1>1 DEF CrashMove, Phase, Ended, Base, ChainInv, Types
<1>4. orphans' \subseteq Items
  BY DEF Dies, Base, SourceTypes, Steps, SaveSteps, OtherSteps, NoCall
<1>5. SourceTypes'
  BY <1>2, <1>4 DEF Dies, Base, SourceTypes
<1>6. QED
  BY <1>1, <1>2, <1>3, <1>5 DEF Moves, Dies

LEMMA RestartFacts ==
  ASSUME Base, Restart
  PROVE  /\ StartMove /\ Moves /\ up' /\ memory' \in Contents
         /\ UNCHANGED <<file, saves, calls, fresh, undone, orphans, settled, reopened>>
         /\ vault' \subseteq vault
         /\ \A o \in Ids : calls[o] = NoCall
  BY DEF Restart, StartMove, Moves, Base, CallsLive

\* Once asked for, a save is forgotten only by a death.
LEMMA PhaseStays ==
  ASSUME ChainInv, Moves \/ UNCHANGED frame, up, up', NEW k \in Saves,
         Phase(k) \notin {"unused", "lost"}
  PROVE  Phase(k)' \notin {"unused", "lost"}
<1>1. CASE UNCHANGED frame
  BY <1>1 DEF frame, Phase
<1>2. ASSUME NEW j \in Saves, SaveMove(j) PROVE Phase(k)' \notin {"unused", "lost"}
  <2>1. j # k
    BY <1>2 DEF SaveMove, Save, Free
  <2>2. QED
    BY <1>2, <2>1 DEF SaveMove, Save, Phase, ChainInv, Types
<1>3. ASSUME NEW j \in Saves, SaveStep(j) \/ ReturnMove(j) PROVE Phase(k)' \notin {"unused", "lost"}
  <2>1. \E p \in Phases \ {"unused", "lost"} : To(j, p)
    BY <1>3 DEF SaveStep, ReturnMove, Begin, Write, Rename, Tidy, Phases
  <2>2. QED
    BY <2>1 DEF To, Phase, ChainInv, Types
<1>4. QED
  BY <1>1, <1>2, <1>3 DEF Moves, StartMove, CrashMove

LEMMA BaseEffect ==
  ASSUME Base, NEW o \in Ids, NEW i \in Items, Effect(o, i)
  PROVE  Base'
<1>1. ChainInv'
  BY ChainMoves DEF Base, Effect
<1>2. OwnSave'
  <2>1. ASSUME NEW p \in Ids, calls'[p].step \in SaveSteps
        PROVE  calls'[p].save \in Saves /\ saves'[calls'[p].save].phase \notin {"unused", "lost"}
    <3>1. CASE p = o
      BY <2>1, <3>1 DEF Effect
    <3>2. CASE p # o
      <4>1. calls'[p] = calls[p]
        BY <3>2 DEF Effect, OnlyOne
      <4>2. calls[p].save \in Saves /\ Phase(calls[p].save) \notin {"unused", "lost"}
        BY <2>1, <4>1 DEF Base, OwnSave
      <4>3. Phase(calls[p].save)' \notin {"unused", "lost"} \/ calls[p].save # calls'[p].save
        BY <4>1, <4>2, PhaseStays DEF Base, Effect, OnlyOne, Phase
      <4>4. \A k \in Saves : Phase(k) \notin {"unused", "lost"} => saves'[k].phase \notin {"unused", "lost"}
        BY PhaseStays DEF Base, Effect, OnlyOne, Phase
      <4>5. QED
        BY <4>1, <4>2, <4>4
    <3>3. QED
      BY <3>1, <3>2
  <2>2. QED
    BY <2>1 DEF OwnSave, Phase
<1>3. QED
  BY <1>1, <1>2 DEF Base, Effect, CallsLive

LEMMA BaseStep == Base /\ [Next]_vars => Base' /\ (Moves \/ UNCHANGED frame)
<1> SUFFICES ASSUME Base, [Next]_vars PROVE Base' /\ (Moves \/ UNCHANGED frame)
  OBVIOUS
<1>1. ASSUME NEW o \in Ids, NEW i \in Items, Asks(o, i) \/ GoesOn(o, i)
      PROVE  Base' /\ (Moves \/ UNCHANGED frame)
  <2>1. Effect(o, i)
    BY <1>1, AsksEffect, GoesOnEffect
  <2>2. QED
    BY <2>1, BaseEffect DEF Effect
<1>2. CASE Quiet
  <2>1. /\ Moves /\ WritesMemory /\ up /\ up' /\ memory' = memory
        /\ UNCHANGED <<calls, vault, fresh, undone, orphans, settled, reopened>>
    BY <1>2, QuietFacts
  <2>2. ChainInv'
    BY <2>1, ChainMoves DEF Base
  <2>3. SourceTypes' /\ CallsLive'
    BY <2>1 DEF Base, SourceTypes, CallsLive
  <2>4. \A k \in Saves : Phase(k) \notin {"unused", "lost"} => saves'[k].phase \notin {"unused", "lost"}
    BY <2>1, PhaseStays DEF Base, Phase
  <2>5. OwnSave'
    BY <2>1, <2>4 DEF Base, OwnSave, Phase
  <2>6. QED
    BY <2>1, <2>2, <2>3, <2>5 DEF Base
<1>3. CASE Dies
  <2>1. Moves /\ SourceTypes' /\ calls' = [o \in Ids |-> NoCall]
    BY <1>3, DiesFacts
  <2>2. OwnSave' /\ CallsLive'
    BY <2>1 DEF OwnSave, CallsLive, NoCall, SaveSteps
  <2>3. QED
    BY <2>1, <2>2, ChainMoves DEF Base
<1>4. CASE Restart
  <2>1. /\ StartMove /\ Moves /\ up' /\ memory' \in Contents
        /\ UNCHANGED <<file, saves, calls, fresh, undone, orphans, settled, reopened>>
        /\ vault' \subseteq vault
    BY <1>4, RestartFacts
  <2>2. SourceTypes' /\ OwnSave' /\ CallsLive'
    BY <2>1 DEF Base, SourceTypes, OwnSave, CallsLive, Phase
  <2>3. QED
    BY <2>1, <2>2, ChainMoves DEF Base
<1>5. CASE UNCHANGED vars
  <2>1. UNCHANGED frame
    BY <1>5 DEF vars, store, frame
  <2>2. SourceTypes' /\ OwnSave' /\ CallsLive'
    BY <1>5 DEF vars, store, Base, SourceTypes, OwnSave, CallsLive, Phase
  <2>3. QED
    BY <2>1, <2>2, ChainMoves DEF Base
<1>6. QED
  BY <1>1, <1>2, <1>3, <1>4, <1>5 DEF Next, GoOn, Quiet

LEMMA BaseInit == Init => Base
<1> SUFFICES ASSUME Init PROVE Base
  OBVIOUS
<1>1. ChainInv
  BY ChainInit DEF Init
<1>2. Nothing \in Contents
  BY DEF Nothing, Contents, Statuses
<1>3. SourceTypes
  BY <1>2 DEF Init, StoreInit, SourceTypes
<1>4. OwnSave /\ CallsLive
  BY DEF Init, OwnSave, CallsLive, NoCall, SaveSteps
<1>5. QED
  BY <1>1, <1>3, <1>4 DEF Base

\* The manager's operations, overlapping and dying wherever they may, see an
\* atomic ordered register in the chain of temporary files and renames.
THEOREM SourcesImplement == Spec => ImplementsDurableState
<1>1. Init => Base
  BY BaseInit
<1>2. Base /\ [Next]_vars => Base'
  BY BaseStep
<1>3. Init => Durable!Init
  BY RefineInit DEF Init
<1>4. Base /\ [Next]_vars => [Durable!Next]_(Durable!vars)
  BY BaseStep, RefineMoves DEF Base
<1>5. QED
  BY <1>1, <1>2, <1>3, <1>4, PTL DEF Spec, ImplementsDurableState, Durable!Spec

\* A save reported as successful is never undone by another one or by a death,
\* and one reported as failed is never found on disk.
THEOREM Acknowledged == Spec => []AcknowledgedIsKept
<1>1. Init => Base
  BY BaseInit
<1>2. Base /\ [Next]_vars => Base'
  BY BaseStep
<1>3. Base => AcknowledgedIsKept
  BY ChainKeeps DEF Base
<1>4. QED
  BY <1>1, <1>2, <1>3, PTL DEF Spec

-----------------------------------------------------------------------------
(* What the disk may come to say of an item *)

Over == Statuses \ Resumable
Present == Statuses \ {"absent"}

Pending(k) == Phase(k) \in {"waiting", "writing", "renaming"}

\* The file, and every save that may yet become the file, has the item in S.
Disk(i, S) == OnDisk[i] \in S /\ \A k \in Saves : Pending(k) => saves[k].content[i] \in S

\* The memory, and every save from s on, has the item in S.
Since(i, s, S) ==
    /\ memory[i] \in S
    /\ \A k \in Saves : s <= k /\ Phase(k) # "unused" => saves[k].content[i] \in S

LEMMA FileMoves ==
  ASSUME ChainInv, Moves \/ UNCHANGED frame
  PROVE  file' = file \/ \E k \in Saves : Pending(k) /\ file' = k
<1>1. ASSUME NEW k \in Saves, SaveMove(k) \/ SaveStep(k) \/ ReturnMove(k)
      PROVE  file' = file \/ (Pending(k) /\ file' = k)
  BY <1>1 DEF SaveMove, SaveStep, ReturnMove, Begin, Write, Rename, Tidy, Pending
<1>2. QED
  BY <1>1 DEF Moves, StartMove, CrashMove, frame

LEMMA PendingMoves ==
  ASSUME ChainInv, Moves \/ UNCHANGED frame, NEW k \in Saves, Pending(k)'
  PROVE  Pending(k) \/ (Phase(k) = "unused" /\ Phase(k)' # "unused")
<1>1. ASSUME NEW j \in Saves, SaveMove(j) PROVE Pending(k) \/ (Phase(k) = "unused" /\ Phase(k)' # "unused")
  <2>1. PICK c \in Contents : Save(j, c)
    BY <1>1 DEF SaveMove
  <2>2. CASE j = k
    BY <2>1, <2>2 DEF Save, Free, Pending
  <2>3. CASE j # k
    BY <2>1, <2>3 DEF Save, Pending, Phase, ChainInv, Types
  <2>4. QED
    BY <2>2, <2>3
<1>2. ASSUME NEW j \in Saves, SaveStep(j) \/ ReturnMove(j) PROVE Pending(k)
  <2>1. \E p \in Phases : To(j, p) /\ (p \in {"writing", "renaming"} => Pending(j))
    BY <1>2 DEF SaveStep, ReturnMove, Begin, Write, Rename, Tidy, Phases, Pending
  <2>2. QED
    BY <1>2, <2>1 DEF SaveStep, ReturnMove, Begin, Write, Rename, Tidy, To, Pending, Phase, ChainInv, Types
<1>3. CASE CrashMove
  <2>1. Phase(k)' = IF Phase(k) = "unused" \/ Ended(k) THEN Phase(k) ELSE "lost"
    BY <1>3 DEF CrashMove, Phase, Ended, ChainInv, Types
  <2>2. QED
    BY <2>1 DEF Pending, Ended
<1>4. CASE StartMove \/ UNCHANGED frame
  BY <1>4 DEF StartMove, frame, Pending, Phase
<1>5. QED
  BY <1>1, <1>2, <1>3, <1>4 DEF Moves

LEMMA DiskKeeps ==
  ASSUME ChainInv, Moves \/ UNCHANGED frame, WritesMemory, NEW i \in Items, NEW S,
         Disk(i, S), memory'[i] \in S
  PROVE  Disk(i, S)'
<1>1. ASSUME NEW k \in Saves, Pending(k)' PROVE saves'[k].content[i] \in S
  <2>1. CASE Pending(k)
    <3>1. Phase(k) # "unused"
      BY <2>1 DEF Pending
    <3>2. QED
      BY <2>1, <3>1 DEF WritesMemory, Disk
  <2>2. CASE Phase(k) = "unused" /\ Phase(k)' # "unused"
    BY <2>2 DEF WritesMemory
  <2>3. QED
    BY <1>1, <2>1, <2>2, PendingMoves
<1>2. OnDisk'[i] \in S
  <2>1. CASE file' = file /\ file = 0
    BY <2>1 DEF Disk, OnDisk
  <2>2. CASE file' = file /\ file # 0
    <3>1. file \in Saves /\ Phase(file) # "unused"
      BY <2>2, StoreAssumption DEF ChainInv, Types, FileIsNewest, Landed, Saves
    <3>2. saves'[file].content = saves[file].content
      BY <3>1 DEF WritesMemory
    <3>3. QED
      BY <2>2, <3>2 DEF Disk, OnDisk
  <2>3. ASSUME NEW k \in Saves, Pending(k), file' = k PROVE OnDisk'[i] \in S
    <3>1. saves'[k].content = saves[k].content
      BY <2>3 DEF WritesMemory, Pending
    <3>2. k # 0
      BY DEF Saves
    <3>3. QED
      BY <2>3, <3>1, <3>2 DEF Disk, OnDisk
  <2>4. QED
    BY <2>1, <2>2, <2>3, FileMoves
<1>3. QED
  BY <1>1, <1>2 DEF Disk, Pending, Phase

LEMMA SinceKeeps ==
  ASSUME WritesMemory, NEW i \in Items, NEW s \in Saves, NEW S, Since(i, s, S), memory'[i] \in S
  PROVE  Since(i, s, S)'
  BY DEF Since, WritesMemory, Phase

\* A save that is reported as successful has what it carries on disk, and so has
\* everything that may follow it.
LEMMA SinceLands ==
  ASSUME ChainInv, NEW i \in Items, NEW s \in Saves, NEW S, Since(i, s, S), Phase(s) = "resolved"
  PROVE  Disk(i, S)
<1>1. s <= file /\ file # 0 /\ file \in Saves
  BY StoreAssumption DEF ChainInv, Types, FileIsNewest, Landed, Saves
<1>2. Phase(file) # "unused"
  BY <1>1 DEF ChainInv, FileIsNewest, Landed
<1>3. OnDisk[i] \in S
  BY <1>1, <1>2 DEF Since, OnDisk
<1>4. ASSUME NEW k \in Saves, Pending(k) PROVE saves[k].content[i] \in S
  <2>1. Unsettled(k) /\ Phase(k) # "unused" /\ k # s
    BY <1>4 DEF Pending, Unsettled
  <2>2. ~(k < s)
    BY <2>1 DEF ChainInv, OneAtATime, Begun
  <2>3. QED
    BY <2>1, <2>2 DEF Since, Saves
<1>5. QED
  BY <1>3, <1>4 DEF Disk

\* A save that was just asked for is the last one, and carries the memory.
LEMMA SinceNew ==
  ASSUME Base, NEW o \in Ids, NEW i \in Items, NEW status \in Statuses, NEW step \in SaveSteps,
         Put(o, i, status, step), NEW S, status \in S
  PROVE  /\ calls'[o].save \in Saves
         /\ \A s \in Saves : s = calls'[o].save => Since(i, s, S)'
         /\ memory'[i] = status
<1>1. /\ WritesMemory
      /\ memory' = [memory EXCEPT ![i] = status]
      /\ calls'[o].save \in Saves
      /\ \A k \in Saves : calls'[o].save <= k => Phase(k) = "unused"
  BY PutFacts
<1>2. memory'[i] = status
  BY <1>1 DEF Base, SourceTypes, Contents
<1>3. ASSUME NEW s \in Saves, s = calls'[o].save PROVE Since(i, s, S)'
  BY <1>1, <1>2, <1>3 DEF Since, WritesMemory, Phase
<1>4. QED
  BY <1>1, <1>2, <1>3


-----------------------------------------------------------------------------
(* The invariant of one item *)

On(o, i) == calls[o].item = i /\ calls[o].step \in Steps

\* The steps of an addition, those that end with the item over if they succeed,
\* and those that come after the save of that.
Birth(o, i) == calls[o].item = i /\ calls[o].step \in {"storing", "adding", "undoing"}
Ends(o, i) == calls[o].item = i /\ calls[o].step \in {"completing", "cancelling", "burying"}
After(o, i) == calls[o].item = i /\ calls[o].step \in {"collecting", "clearing", "emptying"}

\* Nobody has heard of the item yet.
Unseen(i) == memory[i] = "absent" /\ Disk(i, {"absent"}) /\ i \notin settled /\ i \notin vault

Fresh(i) == i \in fresh => Unseen(i) /\ \A o \in Ids : ~On(o, i)
Storing(i) == \A o \in Ids : In(o, i, "storing") => Unseen(i) /\ \A p \in Ids : On(p, i) => p = o
Sole(i) == \A o \in Ids : \A p \in Ids : Birth(o, i) /\ Birth(p, i) => o = p

\* The save that says that the item is over, and all later ones, do say so, and
\* so does the memory when that save is still to come: unless it is reopened.
Ending(i) ==
    i \notin reopened =>
      \A o \in Ids : /\ Ends(o, i) => Since(i, calls[o].save, Over)
                     /\ In(o, i, "ending") => memory[i] \in Over

OverForGood(i) == memory[i] \in Over /\ Disk(i, Over)
Gone(i) == i \notin reopened /\ (i \in settled \/ \E o \in Ids : After(o, i)) => OverForGood(i)

Undoing(i) == \A o \in Ids : In(o, i, "undoing") => i \in undone
Secret(i) == i \in vault \cup undone \cup reopened \/ OverForGood(i)

ItemInv(i) == Fresh(i) /\ Storing(i) /\ Sole(i) /\ Ending(i) /\ Gone(i) /\ Undoing(i) /\ Secret(i)

\* The operations and the places of the item are as they were.
Same(i) ==
    /\ memory'[i] = memory[i]
    /\ i \in vault' <=> i \in vault
    /\ i \in fresh' <=> i \in fresh
    /\ i \in undone' <=> i \in undone
    /\ i \in settled' <=> i \in settled
    /\ i \in reopened' <=> i \in reopened
    /\ \A o \in Ids : On(o, i)' <=> On(o, i)
    /\ \A o \in Ids : On(o, i) => calls'[o] = calls[o]

LEMMA Onward ==
  ASSUME NEW o, NEW i
  PROVE  /\ \A step \in Steps : In(o, i, step) => On(o, i)
         /\ Birth(o, i) \/ Ends(o, i) \/ After(o, i) => On(o, i)
BY DEF In, On, Birth, Ends, After, Steps, SaveSteps, OtherSteps

LEMMA WhileEnding ==
  ASSUME Base, NEW o \in Ids, NEW i \in Items, ItemInv(i), i \notin reopened
  PROVE  /\ Ends(o, i) => Since(i, calls[o].save, Over) /\ calls[o].save \in Saves
         /\ In(o, i, "ending") => memory[i] \in Over
<1>1. \A p \in Ids : /\ Ends(p, i) => Since(i, calls[p].save, Over)
                     /\ In(p, i, "ending") => memory[i] \in Over
  BY DEF ItemInv, Ending
<1>2. Ends(o, i) => calls[o].save \in Saves
  BY DEF Ends, Base, OwnSave, SaveSteps
<1>3. QED
  BY <1>1, <1>2

LEMMA SameKeeps ==
  ASSUME Base, Moves \/ UNCHANGED frame, WritesMemory, NEW i \in Items, Same(i), ItemInv(i)
  PROVE  ItemInv(i)'
<1>1. ASSUME NEW S, Disk(i, S), memory[i] \in S PROVE Disk(i, S)'
  BY <1>1, DiskKeeps DEF Same, Base
<1>2. Unseen(i) => Unseen(i)'
  BY <1>1 DEF Unseen, Same
<1>3. OverForGood(i) => OverForGood(i)'
  BY <1>1 DEF OverForGood, Same
<1>4. ASSUME NEW o \in Ids
      PROVE  /\ \A step \in Steps : In(o, i, step)' => In(o, i, step)
             /\ Birth(o, i)' => Birth(o, i)
             /\ Ends(o, i)' => Ends(o, i) /\ calls'[o] = calls[o]
             /\ After(o, i)' => After(o, i)
  BY DEF Same, In, On, Birth, Ends, After, Steps, SaveSteps, OtherSteps
<1>5. Fresh(i)'
  BY <1>2 DEF ItemInv, Fresh, Same
<1>6. Storing(i)'
  BY <1>2, <1>4 DEF ItemInv, Storing, Same, Steps, OtherSteps
<1>7. Sole(i)'
  BY <1>4 DEF ItemInv, Sole
<1>8. Ending(i)'
  <2>0. SUFFICES ASSUME i \notin reopened', NEW o \in Ids
                 PROVE  /\ Ends(o, i)' => Since(i, calls[o].save, Over)'
                        /\ In(o, i, "ending")' => memory'[i] \in Over
    BY DEF Ending
  <2>1. ASSUME Ends(o, i)' PROVE Since(i, calls[o].save, Over)'
    <3>1. Ends(o, i) /\ calls'[o] = calls[o]
      BY <1>4, <2>1
    <3>2. Since(i, calls[o].save, Over) /\ calls[o].save \in Saves
      BY <2>0, <3>1, WhileEnding DEF Same
    <3>3. memory'[i] \in Over
      BY <3>2 DEF Since, Same
    <3>4. ASSUME NEW s \in Saves, s = calls[o].save PROVE Since(i, s, Over)'
      BY <3>2, <3>3, <3>4, SinceKeeps
    <3>5. QED
      BY <3>1, <3>2, <3>4 DEF Since
  <2>2. In(o, i, "ending")' => memory'[i] \in Over
    BY <1>4, <2>0, WhileEnding DEF Same, Steps, OtherSteps
  <2>3. QED
    BY <2>1, <2>2
<1>9. Gone(i)'
  BY <1>3, <1>4 DEF ItemInv, Gone, Same
<1>10. Undoing(i)'
  BY <1>4 DEF ItemInv, Undoing, Same, Steps, OtherSteps
<1>11. Secret(i)'
  BY <1>3 DEF ItemInv, Secret, Same
<1>12. QED
  BY <1>5, <1>6, <1>7, <1>8, <1>9, <1>10, <1>11 DEF ItemInv


\* What is over stays over, and the secret goes only when it is.
Lasting(o, i) ==
    /\ memory[i] \in Over => memory'[i] \in Over
    /\ Ends(o, i)' => Since(i, calls[o].save, Over)'
    /\ In(o, i, "ending")' => memory'[i] \in Over
    /\ After(o, i)' \/ (i \in settled' /\ i \notin settled) => OverForGood(i)'
    /\ i \in vault /\ i \notin vault' => i \in undone \/ OverForGood(i)'

\* A step of an operation of the item that neither begins nor stores an addition.
Careful(o, i) ==
    /\ \A p \in Ids : ~In(p, i, "storing")
    /\ i \notin fresh /\ i \notin fresh'
    /\ calls'[o].step # "storing"
    /\ Birth(o, i)' => Birth(o, i)
    /\ In(o, i, "undoing")' => i \in undone'
    /\ i \in undone => i \in undone'
    /\ i \in reopened => i \in reopened'
    /\ i \notin reopened' => Lasting(o, i)

LEMMA CarefulKeeps ==
  ASSUME Base, NEW o \in Ids, NEW i \in Items, Effect(o, i), Careful(o, i), ItemInv(i)
  PROVE  ItemInv(i)'
<1>0. (Moves \/ UNCHANGED frame) /\ WritesMemory /\ \A p \in Ids : p # o => calls'[p] = calls[p]
  BY DEF Effect, OnlyOne
<1>1. i \notin reopened' /\ OverForGood(i) => OverForGood(i)'
  BY <1>0, DiskKeeps DEF OverForGood, Careful, Lasting, Base
<1>2. ASSUME NEW p \in Ids, p # o
      PROVE  /\ \A step \in Steps : In(p, i, step)' <=> In(p, i, step)
             /\ Birth(p, i)' <=> Birth(p, i)
             /\ Ends(p, i)' <=> Ends(p, i)
             /\ After(p, i)' <=> After(p, i)
  BY <1>0, <1>2 DEF In, Birth, Ends, After
<1>3. Fresh(i)'
  BY DEF Fresh, Careful
<1>4. Storing(i)'
  <2>1. \A p \in Ids : ~In(p, i, "storing")'
    BY <1>2 DEF Careful, In, Steps, OtherSteps
  <2>2. QED
    BY <2>1 DEF Storing
<1>5. Sole(i)'
  BY <1>2 DEF ItemInv, Sole, Careful
<1>6. Ending(i)'
  <2>0. SUFFICES ASSUME i \notin reopened', NEW p \in Ids
                 PROVE  /\ Ends(p, i)' => Since(i, calls[p].save, Over)'
                        /\ In(p, i, "ending")' => memory'[i] \in Over
    BY DEF Ending
  <2>1. i \notin reopened /\ Lasting(o, i)
    BY <2>0 DEF Careful
  <2>2. CASE p = o
    BY <2>1, <2>2 DEF Lasting
  <2>3. ASSUME p # o, Ends(p, i)' PROVE Since(i, calls[p].save, Over)'
    <3>1. Ends(p, i) /\ calls'[p] = calls[p]
      BY <1>0, <1>2, <2>3
    <3>2. Since(i, calls[p].save, Over) /\ calls[p].save \in Saves
      BY <2>1, <3>1, WhileEnding
    <3>3. memory'[i] \in Over
      BY <2>1, <3>2 DEF Since, Lasting
    <3>4. ASSUME NEW s \in Saves, s = calls[p].save PROVE Since(i, s, Over)'
      BY <1>0, <3>2, <3>3, <3>4, SinceKeeps
    <3>5. QED
      BY <3>1, <3>2, <3>4 DEF Since
  <2>4. ASSUME p # o, In(p, i, "ending")' PROVE memory'[i] \in Over
    BY <1>2, <2>1, <2>4, WhileEnding DEF Lasting, Steps, OtherSteps
  <2>5. QED
    BY <2>2, <2>3, <2>4
<1>7. Gone(i)'
  BY <1>1, <1>2 DEF ItemInv, Gone, Careful, Lasting
<1>8. Undoing(i)'
  BY <1>2 DEF ItemInv, Undoing, Careful, Steps, OtherSteps
<1>9. Secret(i)'
  BY <1>1 DEF ItemInv, Secret, Careful, Lasting
<1>10. QED
  BY <1>3, <1>4, <1>5, <1>6, <1>7, <1>8, <1>9 DEF ItemInv

\* The two steps that Careful leaves out.
LEMMA AddKeeps ==
  ASSUME Base, NEW o \in Ids, NEW i \in Items, Effect(o, i), Add(o, i), ItemInv(i)
  PROVE  ItemInv(i)'
<1>0. (Moves \/ UNCHANGED frame) /\ WritesMemory /\ \A p \in Ids : p # o => calls'[p] = calls[p]
  BY DEF Effect, OnlyOne
<1>1. i \in fresh /\ Unseen(i) /\ \A p \in Ids : ~On(p, i)
  BY DEF Add, ItemInv, Fresh
<1>2. memory' = memory /\ UNCHANGED <<vault, settled>> /\ i \notin fresh'
  BY DEF Add, store
<1>3. Unseen(i)'
  <2>1. Disk(i, {"absent"})'
    BY <1>0, <1>1, <1>2, DiskKeeps DEF Unseen, Base
  <2>2. QED
    BY <1>1, <1>2, <2>1 DEF Unseen
<1>4. calls'[o].item = i /\ calls'[o].step = "storing"
  BY CallsChange DEF Add, OtherSteps
<1>5. \A p \in Ids : p # o => ~On(p, i)'
  BY <1>0, <1>1 DEF On
<1>6. Storing(i)' /\ Sole(i)' /\ Fresh(i)'
  <2>1. Storing(i)'
    BY <1>3, <1>5 DEF Storing, In, On, Steps, OtherSteps
  <2>2. Sole(i)'
    BY <1>5 DEF Sole, On, Birth, Steps, OtherSteps, SaveSteps
  <2>3. Fresh(i)'
    BY <1>2 DEF Fresh
  <2>4. QED
    BY <2>1, <2>2, <2>3
<1>7. \A p \in Ids : ~Ends(p, i)' /\ ~After(p, i)' /\ ~In(p, i, "undoing")' /\ ~In(p, i, "ending")'
  BY <1>4, <1>5 DEF On, Ends, After, In, Steps, OtherSteps, SaveSteps
<1>8. OverForGood(i)'
  BY <1>3 DEF OverForGood, Unseen, Disk, Over, Statuses, Resumable
<1>9. QED
  BY <1>6, <1>7, <1>8 DEF ItemInv, Ending, Gone, Undoing, Secret

LEMMA StoredKeeps ==
  ASSUME Base, NEW o \in Ids, NEW i \in Items, Effect(o, i), Stored(o, i), ItemInv(i)
  PROVE  ItemInv(i)'
<1>0. (Moves \/ UNCHANGED frame) /\ WritesMemory /\ \A p \in Ids : p # o => calls'[p] = calls[p]
  BY DEF Effect, OnlyOne
<1>1. Unseen(i) /\ On(o, i) /\ \A p \in Ids : On(p, i) => p = o
  BY DEF Stored, ItemInv, Storing, In, On, Steps, OtherSteps
<1>2. i \notin fresh /\ i \notin fresh' /\ i \notin settled'
  BY <1>1 DEF Stored, ItemInv, Fresh, Unseen
<1>3. \A p \in Ids : p # o => ~On(p, i)'
  BY <1>0, <1>1 DEF On
<1>4. calls'[o].step \notin {"storing", "undoing", "ending"} /\ ~Ends(o, i)' /\ ~After(o, i)'
  <2>1. CASE Refuses /\ End(o) /\ UNCHANGED store
    <3>1. calls'[o] = NoCall
      BY <2>1, CallsChange
    <3>2. QED
      BY <3>1 DEF NoCall, Ends, After
  <2>2. CASE \E status \in {"idle", "active"} : Put(o, i, status, "adding")
    <3>1. PICK status \in {"idle", "active"} : Put(o, i, status, "adding")
      BY <2>2
    <3>2. status \in Statuses /\ "adding" \in SaveSteps
      BY DEF Statuses, SaveSteps
    <3>3. calls'[o].step = "adding"
      BY <3>1, <3>2, PutFacts
    <3>4. QED
      BY <3>3 DEF Ends, After
  <2>3. QED
    BY <2>1, <2>2 DEF Stored
<1>5. \A p \in Ids : /\ ~Ends(p, i)' /\ ~After(p, i)' /\ ~In(p, i, "undoing")' /\ ~In(p, i, "storing")'
                     /\ ~In(p, i, "ending")'
  BY <1>3, <1>4 DEF On, Ends, After, In, Steps, OtherSteps, SaveSteps
<1>6. Sole(i)'
  BY <1>3 DEF Sole, On, Birth, Steps, OtherSteps, SaveSteps
<1>7. Secret(i)'
  <2>1. CASE Refuses /\ End(o) /\ UNCHANGED store
    <3>1. memory' = memory
      BY <2>1 DEF store
    <3>2. memory[i] \in Over /\ Disk(i, Over)
      BY <1>1 DEF Unseen, Disk, Over, Statuses, Resumable
    <3>3. QED
      BY <1>0, <3>1, <3>2, DiskKeeps DEF Secret, OverForGood, Base
  <2>2. CASE vault' = vault \cup {i}
    BY <2>2 DEF Secret
  <2>3. QED
    BY <2>1, <2>2 DEF Stored
<1>8. QED
  BY <1>2, <1>5, <1>6, <1>7 DEF ItemInv, Fresh, Storing, Ending, Gone, Undoing


\* An item that is listed, or has an operation past the storing of its secret, is
\* not new.
LEMMA Older ==
  ASSUME NEW o \in Ids, NEW i \in Items, ItemInv(i),
         memory[i] # "absent" \/ (On(o, i) /\ calls[o].step # "storing")
  PROVE  i \notin fresh /\ \A p \in Ids : ~In(p, i, "storing")
BY DEF ItemInv, Fresh, Storing, Unseen, In

LEMMA OverKeeps ==
  ASSUME Base, Moves \/ UNCHANGED frame, WritesMemory, NEW i \in Items,
         OverForGood(i), memory'[i] \in Over
  PROVE  OverForGood(i)'
BY DiskKeeps DEF OverForGood, Base

LEMMA PutCareful ==
  ASSUME Base, NEW o \in Ids, NEW i \in Items, ItemInv(i),
         memory[i] # "absent" \/ (On(o, i) /\ calls[o].step # "storing"),
         NEW status \in Statuses, NEW step \in SaveSteps \ {"adding"}, Put(o, i, status, step),
         i \in reopened' \/ /\ memory[i] \in Over => status \in Over
                            /\ step \in {"completing", "cancelling", "burying"} => status \in Over,
         vault' = vault \/ After(o, i), UNCHANGED <<fresh, undone, settled>>,
         reopened' = reopened \/ reopened' = reopened \cup {i}
  PROVE  Careful(o, i)
<1>1. /\ Moves /\ WritesMemory /\ memory' = [memory EXCEPT ![i] = status]
      /\ calls'[o].item = i /\ calls'[o].step = step
  BY PutFacts
<1>2. memory'[i] = status
  BY <1>1 DEF Base, SourceTypes, Contents
<1>3. i \notin fresh /\ \A p \in Ids : ~In(p, i, "storing")
  BY Older
<1>4. /\ ~Birth(o, i)' /\ ~After(o, i)' /\ ~In(o, i, "undoing")' /\ calls'[o].step # "storing"
      /\ ~In(o, i, "ending")'
  BY <1>1 DEF Birth, After, In, SaveSteps
<1>5. i \notin reopened' /\ Ends(o, i)' => Since(i, calls[o].save, Over)'
  <2>1. SUFFICES ASSUME i \notin reopened', Ends(o, i)' PROVE Since(i, calls[o].save, Over)'
    OBVIOUS
  <2>2. status \in Over
    BY <1>1, <2>1 DEF Ends
  <2>3. /\ calls'[o].save \in Saves
        /\ \A s \in Saves : s = calls'[o].save => Since(i, s, Over)'
    BY <2>2, SinceNew
  <2>4. QED
    BY <2>3 DEF Since
<1>6. ASSUME i \in vault, i \notin vault', i \notin reopened' PROVE OverForGood(i)'
  <2>1. OverForGood(i)
    BY <1>6 DEF ItemInv, Gone
  <2>2. status \in Over
    BY <1>6, <2>1 DEF OverForGood
  <2>3. QED
    BY <1>1, <1>2, <2>1, <2>2, OverKeeps
<1>7. QED
  BY <1>2, <1>3, <1>4, <1>5, <1>6 DEF Careful, Lasting

LEMMA FinishCareful ==
  ASSUME Base, NEW o \in Ids, NEW i \in Items, ItemInv(i), Finish(o, i)
  PROVE  Careful(o, i)
<1>1. up /\ calls[o] = NoCall /\ memory[i] = "active" /\ UNCHANGED sources
  BY DEF Finish, Idle
<1>2. calls[o].step \notin Steps
  BY <1>1 DEF NoCall, Steps, SaveSteps, OtherSteps
<1>3. calls'[o].step = "ending" /\ memory'[i] = "completed"
  BY <1>1, <1>2, FinishEffect
<1>4. i \notin fresh /\ \A p \in Ids : ~In(p, i, "storing")
  BY <1>1, Older
<1>5. ~Birth(o, i)' /\ ~Ends(o, i)' /\ ~After(o, i)' /\ ~In(o, i, "undoing")'
  BY <1>3 DEF Birth, Ends, After, In
<1>6. memory'[i] \in Over
  BY <1>3 DEF Over, Statuses, Resumable
<1>7. QED
  BY <1>1, <1>3, <1>4, <1>5, <1>6 DEF Careful, Lasting, sources

LEMMA AsksKeeps ==
  ASSUME Base, NEW o \in Ids, NEW i \in Items, Asks(o, i), ItemInv(i)
  PROVE  ItemInv(i)'
<1>1. Effect(o, i)
  BY AsksEffect
<1>2. CASE Add(o, i)
  BY <1>1, <1>2, AddKeeps
<1>3. CASE Touch(o, i)
  <2>1. PICK status \in Statuses :
          /\ CASE memory[i] = "idle"   -> status \in {"idle", "active", "error"}
               [] memory[i] = "active" -> status \in {"active", "idle", "error"}
               [] memory[i] = "error"  -> status \in {"error", "active"}
               [] OTHER                -> status = memory[i]
          /\ Put(o, i, status, "saving")
    BY <1>3 DEF Touch
  <2>2. memory[i] \in Over => status \in Over
    BY <2>1 DEF Over, Statuses, Resumable
  <2>3. Careful(o, i)
    BY <1>3, <2>1, <2>2, PutCareful DEF Touch, sources, SaveSteps
  <2>4. QED
    BY <1>1, <2>3, CarefulKeeps
<1>4. CASE Reopen(o, i)
  <2>1. PICK status \in {"idle", "error"} : Put(o, i, status, "saving")
    BY <1>4 DEF Reopen
  <2>2. status \in Statuses /\ memory[i] # "absent" /\ i \in reopened'
    BY <1>4 DEF Reopen, Statuses, Terminal
  <2>3. Careful(o, i)
    BY <1>4, <2>1, <2>2, PutCareful DEF Reopen, SaveSteps
  <2>4. QED
    BY <1>1, <2>3, CarefulKeeps
<1>5. CASE Cancel(o, i) \/ Remove(o, i)
  <2>1. "cancelled" \in Over /\ "cancelled" \in Statuses
    BY DEF Over, Statuses, Resumable
  <2>2. CASE Cancel(o, i)
    BY <2>1, <2>2, <1>1, PutCareful, CarefulKeeps DEF Cancel, sources, SaveSteps
  <2>3. CASE Remove(o, i)
    BY <2>1, <2>3, <1>1, PutCareful, CarefulKeeps DEF Remove, sources, SaveSteps
  <2>4. QED
    BY <1>5, <2>2, <2>3
<1>6. CASE Finish(o, i)
  BY <1>1, <1>6, FinishCareful, CarefulKeeps
<1>7. QED
  BY <1>2, <1>3, <1>4, <1>5, <1>6 DEF Asks

\* An operation that waited for a save goes on to the vault or ends.
LEMMA ReturnCareful ==
  ASSUME Base, NEW o \in Ids, NEW i \in Items, ItemInv(i), On(o, i), calls[o].step \in SaveSteps,
         Return(calls[o].save), UNCHANGED <<vault, fresh, undone, reopened>>,
         \/ End(o) /\ settled' = settled
         \/ /\ Ends(o, i) /\ Phase(calls[o].save) = "resolved"
            /\ \E step \in {"collecting", "clearing", "emptying"} : Goto(o, i, step)
  PROVE  Careful(o, i)
<1>1. Moves /\ WritesMemory /\ memory' = memory
  BY ReturnFacts
<1>2. i \notin fresh /\ \A p \in Ids : ~In(p, i, "storing")
  BY Older DEF SaveSteps
<1>3. CASE End(o) /\ settled' = settled
  <2>1. calls'[o] = NoCall
    BY <1>3, CallsChange
  <2>2. /\ ~Birth(o, i)' /\ ~Ends(o, i)' /\ ~After(o, i)' /\ ~In(o, i, "undoing")' /\ calls'[o].step # "storing"
        /\ ~In(o, i, "ending")'
    BY <2>1 DEF NoCall, Birth, Ends, After, In
  <2>3. QED
    BY <1>1, <1>2, <1>3, <2>2 DEF Careful, Lasting
<1>4. CASE Ends(o, i) /\ Phase(calls[o].save) = "resolved"
           /\ \E step \in {"collecting", "clearing", "emptying"} : Goto(o, i, step)
  <2>1. calls'[o].step \in {"collecting", "clearing", "emptying"}
    BY <1>4, CallsChange DEF OtherSteps
  <2>2. ~Birth(o, i)' /\ ~Ends(o, i)' /\ ~In(o, i, "undoing")' /\ ~In(o, i, "ending")' /\ calls'[o].step # "storing"
    BY <2>1 DEF Birth, Ends, In
  <2>3. ASSUME i \notin reopened PROVE OverForGood(i)'
    <3>1. Since(i, calls[o].save, Over) /\ calls[o].save \in Saves
      BY <1>4, <2>3, WhileEnding
    <3>2. ASSUME NEW s \in Saves, s = calls[o].save PROVE OverForGood(i)
      BY <1>4, <3>1, <3>2, SinceLands DEF OverForGood, Since, Base
    <3>3. QED
      BY <1>1, <3>1, <3>2, OverKeeps DEF OverForGood
  <2>4. QED
    BY <1>1, <1>2, <2>2, <2>3 DEF Careful, Lasting
<1>5. QED
  BY <1>3, <1>4


\* An operation that waited for the vault ends.
LEMMA VaultCareful ==
  ASSUME Base, NEW o \in Ids, NEW i \in Items, ItemInv(i),
         In(o, i, "undoing") \/ After(o, i), UNCHANGED store, End(o),
         UNCHANGED <<fresh, undone, settled, reopened>>
  PROVE  Careful(o, i)
<1>1. (Moves \/ UNCHANGED frame) /\ WritesMemory /\ memory' = memory
  BY StillFacts
<1>2. On(o, i) /\ calls[o].step # "storing"
  BY DEF In, After, On, Steps, OtherSteps
<1>3. i \notin fresh /\ \A p \in Ids : ~In(p, i, "storing")
  BY <1>2, Older
<1>4. calls'[o] = NoCall
  BY CallsChange
<1>5. /\ ~Birth(o, i)' /\ ~Ends(o, i)' /\ ~After(o, i)' /\ ~In(o, i, "undoing")' /\ calls'[o].step # "storing"
      /\ ~In(o, i, "ending")'
  BY <1>4 DEF NoCall, Birth, Ends, After, In
<1>6. i \in undone \/ i \in reopened \/ OverForGood(i)
  BY DEF ItemInv, Undoing, Gone
<1>7. OverForGood(i) => OverForGood(i)'
  BY <1>1, OverKeeps DEF OverForGood
<1>8. QED
  BY <1>1, <1>3, <1>5, <1>6, <1>7 DEF Careful, Lasting

LEMMA RetractCareful ==
  ASSUME Base, NEW o \in Ids, NEW i \in Items, ItemInv(i), Retracts(o, i)
  PROVE  Careful(o, i)
<1>1. calls'[o].item = i /\ calls'[o].step = "undoing"
  BY RetractEffect
<1>2. On(o, i) /\ calls[o].step # "storing" /\ Birth(o, i)
  BY DEF Retracts, In, On, Birth, Steps, SaveSteps
<1>3. i \notin fresh /\ \A p \in Ids : ~In(p, i, "storing")
  BY <1>2, Older
<1>4. memory'[i] = "absent"
  BY DEF Retracts, Base, SourceTypes, Contents
<1>5. memory'[i] \in Over
  BY <1>4 DEF Over, Statuses, Resumable
<1>6. ~Ends(o, i)' /\ ~After(o, i)' /\ calls'[o].step \notin {"storing", "ending"}
  BY <1>1 DEF Ends, After
<1>7. i \in undone' /\ UNCHANGED <<vault, fresh, settled, reopened>>
  BY DEF Retracts
<1>8. QED
  BY <1>2, <1>3, <1>5, <1>6, <1>7 DEF Careful, Lasting, In

LEMMA GoesOnKeeps ==
  ASSUME Base, NEW o \in Ids, NEW i \in Items, GoesOn(o, i), ItemInv(i)
  PROVE  ItemInv(i)'
<1>0. Effect(o, i)
  BY GoesOnEffect
<1>1. memory[i] \in Statuses
  BY DEF Base, SourceTypes, Contents
<1>2. CASE Stored(o, i)
  BY <1>0, <1>2, StoredKeeps
<1>3. CASE Added(o, i) /\ ~Retracts(o, i)
  <2>1. /\ In(o, i, "adding") /\ Return(calls[o].save) /\ End(o)
        /\ UNCHANGED <<vault, fresh, undone, settled, reopened>>
    BY <1>3 DEF Added, Retracts, Saved
  <2>2. On(o, i) /\ calls[o].step \in SaveSteps
    BY <2>1 DEF In, On, Steps, SaveSteps
  <2>3. QED
    BY <1>0, <2>1, <2>2, ReturnCareful, CarefulKeeps
<1>4. CASE Retracts(o, i)
  BY <1>0, <1>4, RetractCareful, CarefulKeeps
<1>5. CASE Undone(o, i)
  BY <1>0, <1>5, VaultCareful, CarefulKeeps DEF Undone
<1>6. CASE Touched(o, i) \/ Deleted(o, i)
  <2>1. /\ In(o, i, "saving") \/ In(o, i, "deleting")
        /\ Return(calls[o].save) /\ End(o) /\ UNCHANGED <<vault, fresh, undone, settled, reopened>>
    BY <1>6 DEF Touched, Deleted, sources
  <2>2. On(o, i) /\ calls[o].step \in SaveSteps
    BY <2>1 DEF In, On, Steps, SaveSteps
  <2>3. QED
    BY <1>0, <2>1, <2>2, ReturnCareful, CarefulKeeps
<1>7. CASE Completed(o, i) \/ Cancelled(o, i) \/ Buried(o, i)
  <2>1. Ends(o, i) /\ On(o, i) /\ calls[o].step \in SaveSteps
    BY <1>7 DEF Completed, Cancelled, Buried, In, On, Ends, Steps, SaveSteps
  <2>2. Return(calls[o].save) /\ UNCHANGED <<vault, fresh, undone, reopened>>
    BY <1>7 DEF Completed, Cancelled, Buried, Saved, Unsaved, sources
  <2>3. \/ End(o) /\ settled' = settled
        \/ /\ Phase(calls[o].save) = "resolved"
           /\ \E step \in {"collecting", "clearing", "emptying"} : Goto(o, i, step)
    BY <1>7 DEF Completed, Cancelled, Buried, Saved, Unsaved, sources
  <2>4. QED
    BY <1>0, <2>1, <2>2, <2>3, ReturnCareful, CarefulKeeps
<1>8. CASE Collected(o, i)
  <2>1. After(o, i)
    BY <1>8 DEF Collected, In, After
  <2>2. QED
    BY <1>0, <1>8, <2>1, VaultCareful, CarefulKeeps DEF Collected
<1>9. CASE Cleared(o, i) \/ Emptied(o, i)
  <2>1. After(o, i) /\ On(o, i) /\ calls[o].step # "storing"
    BY <1>9 DEF Cleared, Emptied, In, After, On, Steps, OtherSteps
  <2>2. UNCHANGED <<fresh, undone, settled, reopened>>
    BY <1>9 DEF Cleared, Emptied
  <2>3. CASE End(o) /\ UNCHANGED store
    BY <1>0, <2>1, <2>2, <2>3, VaultCareful, CarefulKeeps
  <2>4. CASE Put(o, i, memory[i], "saving")
    BY <1>0, <1>1, <2>1, <2>2, <2>4, PutCareful, CarefulKeeps DEF SaveSteps
  <2>5. CASE Put(o, i, "absent", "deleting")
    <3>1. "absent" \in Over /\ "absent" \in Statuses
      BY DEF Over, Statuses, Resumable
    <3>2. QED
      BY <1>0, <2>1, <2>2, <2>5, <3>1, PutCareful, CarefulKeeps DEF SaveSteps
  <2>6. QED
    BY <1>9, <2>3, <2>4, <2>5 DEF Cleared, Emptied
<1>10. CASE Complete(o, i)
  <2>1. /\ In(o, i, "ending") /\ Put(o, i, memory[i], "completing")
        /\ UNCHANGED <<vault, fresh, undone, settled, reopened>>
    BY <1>10 DEF Complete, sources
  <2>2. On(o, i) /\ calls[o].step # "storing"
    BY <2>1 DEF In, On, Steps, OtherSteps
  <2>3. i \in reopened' \/ memory[i] \in Over
    BY <2>1, WhileEnding
  <2>4. Careful(o, i)
    BY <1>1, <2>1, <2>2, <2>3, PutCareful DEF SaveSteps
  <2>5. QED
    BY <1>0, <2>4, CarefulKeeps
<1>11. QED
  BY <1>2, <1>3, <1>4, <1>5, <1>6, <1>7, <1>8, <1>9, <1>10 DEF GoesOn


-----------------------------------------------------------------------------
(* Every step, for every item *)

\* Items that the step is not about.
LEMMA OthersSame ==
  ASSUME Base, NEW o \in Ids, NEW i \in Items, OnlyOne(o, i), NEW j \in Items, j # i
  PROVE  Same(j)
<1>1. ~On(o, j) /\ ~On(o, j)'
  BY DEF OnlyOne, On
<1>2. \A p \in Ids : p # o => calls'[p] = calls[p]
  BY DEF OnlyOne
<1>3. \A p \in Ids : (On(p, j)' <=> On(p, j)) /\ (On(p, j) => calls'[p] = calls[p])
  BY <1>1, <1>2 DEF On
<1>4. QED
  BY <1>3 DEF OnlyOne, Same

\* When the program is down nothing is in flight: the disk is the file.
LEMMA DownKeeps ==
  ASSUME ChainInv, NEW i \in Items, NEW S,
         CrashMove \/ StartMove, Disk(i, S)
  PROVE  Disk(i, S)'
<1>1. file' = file /\ \A k \in Saves : saves'[k].content = saves[k].content /\ ~Pending(k)'
  <2>1. CASE CrashMove
    BY <2>1 DEF CrashMove, ChainInv, Types, Phase, Ended, Pending
  <2>2. CASE StartMove
    BY <2>2 DEF StartMove, ChainInv, Still, Phase, Ended, Pending
  <2>3. QED
    BY <2>1, <2>2
<1>2. file # 0 => file \in Saves
  BY StoreAssumption DEF ChainInv, Types, Saves
<1>3. OnDisk' = OnDisk
  BY <1>1, <1>2 DEF OnDisk
<1>4. QED
  BY <1>1, <1>3 DEF Disk

\* No operation is in flight, and the memory agrees with the disk where it must.
LEMMA QuietKeeps ==
  ASSUME NEW i \in Items, ItemInv(i), CrashMove \/ StartMove, ChainInv,
         \A o \in Ids : calls'[o] = NoCall,
         UNCHANGED <<fresh, undone, settled, reopened>>,
         OverForGood(i) => memory'[i] \in Over,
         Unseen(i) => memory'[i] = "absent" /\ i \notin vault',
         i \in vault /\ i \notin vault' => OverForGood(i)'
  PROVE  ItemInv(i)'
<1>1. OverForGood(i) => OverForGood(i)'
  BY DownKeeps DEF OverForGood
<1>2. Unseen(i) => Unseen(i)'
  BY DownKeeps DEF Unseen
<1>3. \A o \in Ids : /\ ~On(o, i)' /\ ~Birth(o, i)' /\ ~Ends(o, i)' /\ ~After(o, i)'
                     /\ ~In(o, i, "storing")' /\ ~In(o, i, "undoing")' /\ ~In(o, i, "ending")'
  BY DEF NoCall, On, Birth, Ends, After, In, Steps, SaveSteps, OtherSteps
<1>4. Fresh(i)' /\ Storing(i)' /\ Sole(i)'
  BY <1>2, <1>3 DEF ItemInv, Fresh, Storing, Sole
<1>5. Ending(i)' /\ Gone(i)' /\ Undoing(i)'
  BY <1>1, <1>3 DEF ItemInv, Ending, Gone, Undoing
<1>6. Secret(i)'
  BY <1>1 DEF ItemInv, Secret
<1>7. QED
  BY <1>4, <1>5, <1>6 DEF ItemInv

LEMMA DiesKeeps ==
  ASSUME Base, Dies, NEW i \in Items, ItemInv(i)
  PROVE  ItemInv(i)'
<1>1. CrashMove /\ memory' = Nothing /\ \A o \in Ids : calls'[o] = NoCall
  BY DiesFacts
<1>2. memory'[i] = "absent" /\ memory'[i] \in Over
  BY <1>1 DEF Nothing, Over, Statuses, Resumable
<1>3. UNCHANGED <<vault, fresh, undone, settled, reopened>>
  BY DEF Dies
<1>4. QED
  BY <1>1, <1>2, <1>3, QuietKeeps DEF Base, Unseen

\* What a start makes of an item: the secrets of those that are over may go.
LEMMA RestartItem ==
  ASSUME Base, Restart, NEW i \in Items
  PROVE  \/ memory'[i] = "absent" /\ "read" \in Faults /\ (i \in vault => i \in vault')
         \/ /\ OnDisk[i] \in Over => memory'[i] = OnDisk[i]
            /\ OnDisk[i] \in Resumable => memory'[i] \in Resumable
            /\ i \in vault /\ i \notin vault' => OnDisk[i] \in Over
<1>1. PICK revived \in {Revived(OnDisk)} \cup (IF "read" \in Faults THEN {Nothing} ELSE {}), c \in Contents :
        /\ Restores(c, revived) /\ memory' = c
        /\ \E kept \in SUBSET (IF "vault" \in Faults THEN vault ELSE {}) :
             vault' = vault \ ({j \in Items : revived[j] \in Terminal} \ kept)
  BY DEF Restart
<1>2. OnDisk \in Contents
  <2>1. file # 0 => file \in Saves
    BY StoreAssumption DEF Base, ChainInv, Types, Saves
  <2>2. file # 0 => saves[file].content \in Contents
    BY <2>1 DEF Base, ChainInv, Types
  <2>3. QED
    BY <2>2 DEF OnDisk, Nothing, Contents, Statuses
<1>3. CASE revived = Nothing /\ "read" \in Faults
  <2>1. revived[i] = "absent"
    BY <1>3 DEF Nothing
  <2>2. memory'[i] = "absent" /\ (i \in vault => i \in vault')
    BY <1>1, <2>1 DEF Restores, Resumable, Terminal
  <2>3. QED
    BY <1>3, <2>2
<1>4. CASE revived = Revived(OnDisk)
  <2>1. revived[i] = IF OnDisk[i] = "active" THEN "idle" ELSE OnDisk[i]
    BY <1>4 DEF Revived
  <2>2. memory'[i] = revived[i] \/ (revived[i] \in Resumable /\ memory'[i] = "error")
    BY <1>1 DEF Restores
  <2>3. i \in vault /\ i \notin vault' => revived[i] \in Terminal
    BY <1>1
  <2>4. OnDisk[i] \in Statuses
    BY <1>2 DEF Contents
  <2>5. QED
    BY <2>1, <2>2, <2>3, <2>4 DEF Over, Resumable, Terminal, Statuses
<1>5. QED
  BY <1>1, <1>3, <1>4

LEMMA RestartKeeps ==
  ASSUME Base, Restart, NEW i \in Items, ItemInv(i)
  PROVE  ItemInv(i)'
<1>1. StartMove /\ UNCHANGED <<file, saves, calls, fresh, undone, settled, reopened>> /\ \A o \in Ids : calls[o] = NoCall
  BY RestartFacts
<1>2. ~up
  BY DEF Restart
<1>3. \A k \in Saves : ~Pending(k)
  BY <1>2 DEF Base, ChainInv, Still, Pending, Ended
<1>4. vault' \subseteq vault
  BY RestartFacts
<1>5. OverForGood(i) => memory'[i] \in Over
  BY RestartItem DEF OverForGood, Disk, Over, Statuses, Resumable
<1>6. Unseen(i) => memory'[i] = "absent" /\ i \notin vault'
  BY <1>4, RestartItem DEF Unseen, Disk, Over, Statuses, Resumable
<1>7. ASSUME i \in vault, i \notin vault' PROVE OverForGood(i)'
  <2>1. OnDisk[i] \in Over /\ memory'[i] \in Over
    BY <1>7, RestartItem
  <2>2. Disk(i, Over)
    BY <1>3, <2>1 DEF Disk
  <2>3. QED
    BY <1>1, <2>1, <2>2, DownKeeps DEF OverForGood, Base
<1>8. QED
  BY <1>1, <1>5, <1>6, <1>7, QuietKeeps DEF Base

LEMMA ItemStep ==
  ASSUME Base, [Next]_vars, NEW i \in Items, ItemInv(i)
  PROVE  ItemInv(i)'
<1>1. ASSUME NEW o \in Ids, NEW j \in Items, Asks(o, j) \/ GoesOn(o, j) PROVE ItemInv(i)'
  <2>1. CASE i = j
    BY <1>1, <2>1, AsksKeeps, GoesOnKeeps
  <2>2. CASE i # j
    <3>1. Effect(o, j)
      BY <1>1, AsksEffect, GoesOnEffect
    <3>2. OnlyOne(o, j) /\ (Moves \/ UNCHANGED frame) /\ WritesMemory
      BY <3>1 DEF Effect
    <3>3. Same(i)
      BY <2>2, <3>2, OthersSame
    <3>4. QED
      BY <3>2, <3>3, SameKeeps
  <2>3. QED
    BY <2>1, <2>2
<1>2. CASE Quiet
  <2>1. /\ Moves /\ WritesMemory /\ memory' = memory
        /\ UNCHANGED <<calls, vault, fresh, undone, settled, reopened>>
    BY <1>2, QuietFacts
  <2>2. Same(i)
    BY <2>1 DEF Same, On
  <2>3. QED
    BY <2>1, <2>2, SameKeeps
<1>3. CASE Dies
  BY <1>3, DiesKeeps
<1>4. CASE Restart
  BY <1>4, RestartKeeps
<1>5. CASE UNCHANGED vars
  <2>1. UNCHANGED store /\ UNCHANGED <<calls, vault, fresh, undone, settled, reopened>>
    BY <1>5 DEF vars
  <2>2. UNCHANGED frame /\ WritesMemory /\ memory' = memory
    BY <2>1, StillFacts
  <2>3. Same(i)
    BY <2>1, <2>2 DEF Same, On
  <2>4. QED
    BY <2>2, <2>3, SameKeeps
<1>6. QED
  BY <1>1, <1>2, <1>3, <1>4, <1>5 DEF Next, GoOn, Quiet

\* In the beginning nothing has been heard of any item.
LEMMA ItemInit ==
  ASSUME Init, NEW i \in Items
  PROVE  ItemInv(i)
<1>1. memory[i] = "absent" /\ OnDisk[i] = "absent"
  BY DEF Init, StoreInit, OnDisk, Nothing
<1>2. \A k \in Saves : ~Pending(k)
  BY DEF Init, StoreInit, Pending, Phase
<1>3. Unseen(i)
  BY <1>1, <1>2 DEF Unseen, Disk, Init
<1>4. OverForGood(i)
  BY <1>1, <1>2 DEF OverForGood, Disk, Over, Statuses, Resumable
<1>5. \A o \in Ids : calls[o] = NoCall
  BY DEF Init
<1>6. \A o \in Ids : /\ ~On(o, i) /\ ~Birth(o, i) /\ ~Ends(o, i) /\ ~After(o, i)
                     /\ ~In(o, i, "storing") /\ ~In(o, i, "undoing") /\ ~In(o, i, "ending")
  BY <1>5 DEF NoCall, On, Birth, Ends, After, In, Steps, SaveSteps, OtherSteps
<1>7. QED
  BY <1>3, <1>4, <1>6 DEF ItemInv, Fresh, Storing, Sole, Ending, Gone, Undoing, Secret

ItemsInv == \A i \in Items : ItemInv(i)

LEMMA ItemsStep == Base /\ ItemsInv /\ [Next]_vars => ItemsInv'
BY ItemStep DEF ItemsInv

\* Whatever of the chain, the vault and the program fails, what state.json would
\* resume has its secret in the vault, unless its addition was reported as failed,
\* or it was paused while it was finishing or failed after it was over.
THEOREM SecretsLastLongEnough == Spec => []ResumableHasSecret
<1>1. Init => Base /\ ItemsInv
  BY BaseInit, ItemInit DEF ItemsInv
<1>2. Base /\ ItemsInv /\ [Next]_vars => (Base /\ ItemsInv)'
  BY BaseStep, ItemsStep
<1>3. ItemsInv => ResumableHasSecret
  BY DEF ItemsInv, ItemInv, Secret, OverForGood, Disk, Over, ResumableHasSecret
<1>4. QED
  BY <1>1, <1>2, <1>3, PTL DEF Spec

\* Once the cancellation or removal of an item has been saved no save in flight
\* and no restart makes it resumable again, unless it is reopened.
THEOREM OverStaysOver == Spec => []OverIsOver
<1>1. Init => Base /\ ItemsInv
  BY BaseInit, ItemInit DEF ItemsInv
<1>2. Base /\ ItemsInv /\ [Next]_vars => (Base /\ ItemsInv)'
  BY BaseStep, ItemsStep
<1>3. Base /\ ItemsInv => OverIsOver
  <2>1. SUFFICES ASSUME Base, ItemsInv, NEW i \in settled \ reopened
                 PROVE  OnDisk[i] \notin Resumable /\ memory[i] \notin Resumable
    BY DEF OverIsOver
  <2>2. OverForGood(i)
    <3>1. i \in Items
      BY <2>1 DEF Base, SourceTypes
    <3>2. QED
      BY <2>1, <3>1 DEF ItemsInv, ItemInv, Gone
  <2>3. QED
    BY <2>2 DEF OverForGood, Disk, Over
<1>4. QED
  BY <1>1, <1>2, <1>3, PTL DEF Spec


-----------------------------------------------------------------------------
(* No secret is forgotten *)

\* The save of an addition, and all later ones, have the item listed, as long as
\* its secret is in the vault.
Adding(i) == \A o \in Ids : In(o, i, "adding") /\ i \in vault => Since(i, calls[o].save, Present)

Listed(i) == Disk(i, Present) /\ (up => memory[i] \in Present)
Known(i) == i \in vault /\ i \notin orphans /\ (\A o \in Ids : ~Birth(o, i)) => Listed(i)

KnownInv(i) == Adding(i) /\ Known(i)

\* Saves of the others and of the item itself, while it stays listed.
LEMMA AddingKeeps ==
  ASSUME Base, WritesMemory, NEW i \in Items, NEW p \in Ids, In(p, i, "adding"), i \in vault,
         Adding(i), calls'[p] = calls[p], memory[i] \in Present => memory'[i] \in Present
  PROVE  Since(i, calls[p].save, Present)'
<1>1. Since(i, calls[p].save, Present) /\ calls[p].save \in Saves
  BY DEF Adding, In, Base, OwnSave, SaveSteps
<1>2. memory'[i] \in Present
  BY <1>1 DEF Since
<1>3. ASSUME NEW s \in Saves, s = calls[p].save PROVE Since(i, s, Present)'
  BY <1>1, <1>2, <1>3, SinceKeeps
<1>4. QED
  BY <1>1, <1>3 DEF Since

LEMMA SameKnown ==
  ASSUME Base, Moves \/ UNCHANGED frame, WritesMemory, NEW i \in Items, Same(i),
         i \in orphans' <=> i \in orphans, up' => up, KnownInv(i)
  PROVE  KnownInv(i)'
<1>1. ASSUME NEW p \in Ids
      PROVE  /\ In(p, i, "adding")' => In(p, i, "adding") /\ calls'[p] = calls[p]
             /\ Birth(p, i) => Birth(p, i)'
  BY DEF Same, In, On, Birth, Steps, SaveSteps, OtherSteps
<1>2. Adding(i)'
  <2>1. SUFFICES ASSUME NEW p \in Ids, In(p, i, "adding")', i \in vault'
                 PROVE  Since(i, calls[p].save, Present)'
    BY DEF Adding
  <2>2. QED
    BY <1>1, <2>1, AddingKeeps DEF KnownInv, Same
<1>3. Known(i)'
  <2>1. SUFFICES ASSUME i \in vault', i \notin orphans', \A p \in Ids : ~Birth(p, i)'
                 PROVE  Listed(i)'
    BY DEF Known
  <2>2. Disk(i, Present) /\ (up => memory[i] \in Present)
    BY <1>1, <2>1 DEF KnownInv, Known, Listed, Same
  <2>3. CASE up
    <3>1. memory'[i] \in Present
      BY <2>2, <2>3 DEF Same
    <3>2. Disk(i, Present)'
      BY <2>2, <3>1, DiskKeeps DEF Base
    <3>3. QED
      BY <3>1, <3>2 DEF Listed
  <2>4. CASE ~up
    <3>1. UNCHANGED file /\ \A k \in Saves : ~Pending(k)
      BY <2>4, FileMoves DEF Base, ChainInv, Still, Pending, Ended
    <3>2. UNCHANGED saves
      BY <2>4 DEF Moves, SaveMove, Save, SaveStep, Begin, Write, Rename, Tidy, ReturnMove,
                  StartMove, CrashMove, frame
    <3>3. Disk(i, Present)'
      BY <2>2, <3>1, <3>2 DEF Disk, OnDisk, Pending, Phase
    <3>4. QED
      BY <2>4, <3>3 DEF Listed
  <2>5. QED
    BY <2>3, <2>4
<1>4. QED
  BY <1>2, <1>3 DEF KnownInv

\* A step that does not store a secret: as long as the secret is in the vault
\* the item stays listed, and an addition ends with the item listed or orphaned.
Lists(o, i) ==
    /\ i \in vault' /\ memory[i] \in Present => memory'[i] \in Present
    /\ i \in vault' => i \in vault
    /\ ~In(o, i, "adding")'
    /\ i \in vault' /\ i \notin orphans' /\ Birth(o, i) /\ ~Birth(o, i)' =>
         memory[i] \in Present /\ Disk(i, Present)
    /\ i \in orphans => i \in orphans'

LEMMA ListsKeeps ==
  ASSUME Base, NEW o \in Ids, NEW i \in Items, Effect(o, i), Lists(o, i), KnownInv(i)
  PROVE  KnownInv(i)'
<1>1. (Moves \/ UNCHANGED frame) /\ WritesMemory /\ up /\ \A p \in Ids : p # o => calls'[p] = calls[p]
  BY DEF Effect, OnlyOne
<1>2. Adding(i)'
  <2>1. SUFFICES ASSUME NEW p \in Ids, In(p, i, "adding")', i \in vault'
                 PROVE  Since(i, calls[p].save, Present)'
    BY DEF Adding
  <2>2. p # o /\ calls'[p] = calls[p]
    BY <1>1, <2>1 DEF Lists
  <2>3. In(p, i, "adding")
    BY <2>1, <2>2 DEF In
  <2>4. QED
    BY <1>1, <2>1, <2>2, <2>3, AddingKeeps DEF KnownInv, Lists
<1>3. Known(i)'
  <2>1. SUFFICES ASSUME i \in vault', i \notin orphans', \A p \in Ids : ~Birth(p, i)'
                 PROVE  Listed(i)'
    BY DEF Known
  <2>2. \A p \in Ids : p # o => ~Birth(p, i)
    BY <1>1, <2>1 DEF Birth
  <2>3. memory[i] \in Present /\ Disk(i, Present)
    <3>1. CASE Birth(o, i)
      BY <2>1, <3>1 DEF Lists
    <3>2. CASE ~Birth(o, i)
      BY <1>1, <2>1, <2>2, <3>2 DEF Lists, KnownInv, Known, Listed
    <3>3. QED
      BY <3>1, <3>2
  <2>4. memory'[i] \in Present
    BY <2>1, <2>3 DEF Lists
  <2>5. Disk(i, Present)'
    BY <1>1, <2>3, <2>4, DiskKeeps DEF Base
  <2>6. QED
    BY <2>4, <2>5 DEF Listed
<1>4. QED
  BY <1>2, <1>3 DEF KnownInv


LEMMA AsksLists ==
  ASSUME Base, NEW o \in Ids, NEW i \in Items, Asks(o, i)
  PROVE  Lists(o, i)
<1>1. calls[o] = NoCall
  BY DEF Asks, Add, Touch, Reopen, Finish, Cancel, Remove, Idle
<1>2. ~Birth(o, i)
  BY <1>1 DEF NoCall, Birth
<1>3. CASE Add(o, i)
  <2>1. calls'[o].step = "storing" /\ memory' = memory /\ UNCHANGED <<vault, orphans>>
    BY <1>3, CallsChange DEF Add, OtherSteps, store
  <2>2. QED
    BY <1>2, <2>1 DEF Lists, In
<1>4. ASSUME NEW status \in Present, NEW step \in SaveSteps \ {"adding"}, Put(o, i, status, step),
             UNCHANGED <<vault, orphans>>
      PROVE  Lists(o, i)
  <2>1. status \in Statuses
    BY DEF Present
  <2>2. calls'[o].step = step /\ memory' = [memory EXCEPT ![i] = status]
    BY <1>4, <2>1, PutFacts
  <2>3. memory'[i] = status
    BY <2>1, <2>2 DEF Base, SourceTypes, Contents
  <2>4. QED
    BY <1>2, <1>4, <2>2, <2>3 DEF Lists, In
<1>5. memory[i] \in Statuses
  BY DEF Base, SourceTypes, Contents
<1>6. CASE Touch(o, i)
  <2>1. PICK status \in Statuses :
          /\ CASE memory[i] = "idle"   -> status \in {"idle", "active", "error"}
               [] memory[i] = "active" -> status \in {"active", "idle", "error"}
               [] memory[i] = "error"  -> status \in {"error", "active"}
               [] OTHER                -> status = memory[i]
          /\ Put(o, i, status, "saving")
    BY <1>6 DEF Touch
  <2>2. status \in Present
    BY <1>6, <2>1 DEF Touch, Present, Statuses
  <2>3. QED
    BY <1>4, <1>6, <2>1, <2>2 DEF Touch, SaveSteps, sources
<1>7. {"idle", "error", "completed", "cancelled"} \subseteq Present
  BY DEF Present, Statuses
<1>8. CASE Reopen(o, i)
  BY <1>4, <1>7, <1>8 DEF Reopen, SaveSteps
<1>9. CASE Cancel(o, i)
  BY <1>4, <1>7, <1>9 DEF Cancel, SaveSteps, sources
<1>10. CASE Remove(o, i)
  BY <1>4, <1>7, <1>10 DEF Remove, SaveSteps, sources
<1>11. CASE Finish(o, i)
  <2>1. up /\ calls[o].step \notin Steps /\ UNCHANGED sources
    BY <1>1, <1>11 DEF Finish, NoCall, Steps, SaveSteps, OtherSteps
  <2>2. calls'[o].step = "ending" /\ memory'[i] = "completed"
    BY <1>11, <2>1, FinishEffect
  <2>3. QED
    BY <1>2, <1>7, <2>1, <2>2 DEF Lists, In, sources
<1>12. QED
  BY <1>3, <1>6, <1>8, <1>9, <1>10, <1>11 DEF Asks

\* The two steps that ListsKeeps leaves out.
LEMMA StoredKnown ==
  ASSUME Base, NEW o \in Ids, NEW i \in Items, Effect(o, i), Stored(o, i), ItemInv(i)
  PROVE  KnownInv(i)'
<1>1. \A p \in Ids : p # o => ~In(p, i, "adding")'
  <2>1. \A p \in Ids : p # o => calls'[p] = calls[p] /\ ~On(p, i)
    BY DEF Effect, OnlyOne, Stored, ItemInv, Storing, In
  <2>2. QED
    BY <2>1 DEF On, In, Steps, SaveSteps
<1>2. CASE Refuses /\ End(o) /\ UNCHANGED store
  <2>1. i \notin vault'
    BY <1>2 DEF Refuses, Stored, ItemInv, Storing, Unseen
  <2>2. QED
    BY <2>1 DEF KnownInv, Adding, Known
<1>3. CASE \E status \in {"idle", "active"} : Put(o, i, status, "adding")
  <2>1. PICK status \in {"idle", "active"} : Put(o, i, status, "adding")
    BY <1>3
  <2>2. status \in Statuses /\ status \in Present /\ "adding" \in SaveSteps
    BY DEF Statuses, Present, SaveSteps
  <2>3. /\ calls'[o].save \in Saves
        /\ \A s \in Saves : s = calls'[o].save => Since(i, s, Present)'
    BY <2>1, <2>2, SinceNew
  <2>4. Since(i, calls[o].save, Present)'
    BY <2>3 DEF Since
  <2>5. Birth(o, i)'
    BY <2>1, <2>2, PutFacts DEF Birth
  <2>6. QED
    BY <1>1, <2>4, <2>5 DEF KnownInv, Adding, Known
<1>4. QED
  BY <1>2, <1>3 DEF Stored

LEMMA RetractKnown ==
  ASSUME Base, NEW o \in Ids, NEW i \in Items, Retracts(o, i), ItemInv(i)
  PROVE  KnownInv(i)'
<1>1. /\ calls'[o].item = i /\ calls'[o].step = "undoing"
      /\ \A p \in Ids : p # o => calls'[p] = calls[p]
  BY RetractEffect DEF Effect, OnlyOne
<1>2. Birth(o, i)'
  BY <1>1 DEF Birth
<1>3. \A p \in Ids : ~In(p, i, "adding")'
  <2>1. SUFFICES ASSUME NEW p \in Ids, In(p, i, "adding")' PROVE FALSE
    OBVIOUS
  <2>2. p # o
    BY <1>1, <2>1 DEF In
  <2>3. Birth(p, i) /\ Birth(o, i)
    BY <1>1, <2>1, <2>2 DEF In, Birth, Retracts
  <2>4. QED
    BY <2>2, <2>3 DEF ItemInv, Sole
<1>4. QED
  BY <1>2, <1>3 DEF KnownInv, Adding, Known

LEMMA GoesOnKnown ==
  ASSUME Base, NEW o \in Ids, NEW i \in Items, GoesOn(o, i), ItemInv(i), KnownInv(i)
  PROVE  KnownInv(i)'
<1>0. Effect(o, i)
  BY GoesOnEffect
<1>1. CASE Stored(o, i)
  BY <1>0, <1>1, StoredKnown
<1>2. CASE Retracts(o, i)
  BY <1>2, RetractKnown
<1>3. CASE Added(o, i) /\ ~Retracts(o, i)
  <2>1. /\ In(o, i, "adding") /\ Return(calls[o].save) /\ Phase(calls[o].save) = "resolved" /\ End(o)
        /\ UNCHANGED <<vault, orphans>>
    BY <1>3 DEF Added, Retracts, Saved
  <2>2. calls[o].step \in SaveSteps /\ calls[o].save \in Saves
    BY <2>1 DEF In, SaveSteps, Base, OwnSave
  <2>3. memory' = memory /\ calls'[o] = NoCall
    BY <2>1, <2>2, ReturnFacts, CallsChange
  <2>4. ASSUME i \in vault PROVE memory[i] \in Present /\ Disk(i, Present)
    <3>1. Since(i, calls[o].save, Present)
      BY <2>1, <2>4 DEF KnownInv, Adding
    <3>2. ASSUME NEW s \in Saves, s = calls[o].save PROVE Disk(i, Present)
      BY <2>1, <3>1, <3>2, SinceLands DEF Base
    <3>3. QED
      BY <2>2, <3>1, <3>2 DEF Since
  <2>5. Lists(o, i)
    BY <2>1, <2>3, <2>4 DEF Lists, In, NoCall
  <2>6. QED
    BY <1>0, <2>5, ListsKeeps
<1>4. CASE Undone(o, i)
  <2>1. calls'[o] = NoCall /\ memory' = memory
    BY <1>4, CallsChange DEF Undone, store
  <2>2. /\ i \in vault' => i \in vault
        /\ i \in vault' => i \in orphans'
        /\ i \in orphans => i \in orphans'
    BY <1>4 DEF Undone, Removes, Refuses
  <2>3. Lists(o, i)
    BY <2>1, <2>2 DEF Lists, In, NoCall
  <2>4. QED
    BY <1>0, <2>3, ListsKeeps
<1>5. ASSUME ~Birth(o, i), calls'[o].step # "adding", vault' \subseteq vault, UNCHANGED orphans,
             memory'[i] = memory[i] \/ i \notin vault'
      PROVE  KnownInv(i)'
  <2>1. Lists(o, i)
    BY <1>5 DEF Lists, In
  <2>2. QED
    BY <1>0, <2>1, ListsKeeps
<1>6. CASE Touched(o, i) \/ Deleted(o, i) \/ Completed(o, i) \/ Cancelled(o, i) \/ Buried(o, i)
  <2>1. /\ Return(calls[o].save) /\ UNCHANGED <<vault, orphans>>
        /\ End(o) \/ \E step \in OtherSteps : Goto(o, i, step)
    BY <1>6 DEF Touched, Deleted, Completed, Cancelled, Buried, Saved, Unsaved, sources, OtherSteps
  <2>2. calls[o].step \in SaveSteps /\ ~Birth(o, i)
    BY <1>6 DEF Touched, Deleted, Completed, Cancelled, Buried, In, Birth, SaveSteps
  <2>3. memory' = memory
    BY <2>1, <2>2, ReturnFacts
  <2>4. calls'[o].step # "adding"
    BY <2>1, CallsChange DEF NoCall, OtherSteps
  <2>5. QED
    BY <1>5, <2>1, <2>2, <2>3, <2>4
<1>7. CASE Collected(o, i)
  <2>1. calls'[o] = NoCall /\ memory' = memory /\ ~Birth(o, i)
    BY <1>7, CallsChange DEF Collected, store, In, Birth
  <2>2. vault' \subseteq vault /\ UNCHANGED orphans
    BY <1>7 DEF Collected, Removes, Refuses
  <2>3. QED
    BY <1>5, <2>1, <2>2 DEF NoCall
<1>8. CASE Cleared(o, i) \/ Emptied(o, i)
  <2>1. ~Birth(o, i) /\ UNCHANGED orphans /\ vault' \subseteq vault
    BY <1>8 DEF Cleared, Emptied, Removes, Refuses, In, Birth
  <2>2. CASE End(o) /\ UNCHANGED store
    <3>1. calls'[o] = NoCall /\ memory' = memory
      BY <2>2, CallsChange DEF store
    <3>2. QED
      BY <1>5, <2>1, <3>1 DEF NoCall
  <2>3. CASE Put(o, i, memory[i], "saving")
    <3>1. memory[i] \in Statuses /\ "saving" \in SaveSteps
      BY DEF Base, SourceTypes, Contents, SaveSteps
    <3>2. calls'[o].step = "saving" /\ memory' = [memory EXCEPT ![i] = memory[i]]
      BY <2>3, <3>1, PutFacts
    <3>3. memory'[i] = memory[i]
      BY <3>2 DEF Base, SourceTypes, Contents
    <3>4. QED
      BY <1>5, <2>1, <3>2, <3>3
  <2>4. CASE Removes(i) /\ Put(o, i, "absent", "deleting")
    <3>1. "absent" \in Statuses /\ "deleting" \in SaveSteps
      BY DEF Statuses, SaveSteps
    <3>2. calls'[o].step = "deleting" /\ i \notin vault'
      BY <2>4, <3>1, PutFacts DEF Removes
    <3>3. QED
      BY <1>5, <2>1, <3>2
  <2>5. QED
    BY <1>8, <2>2, <2>3, <2>4 DEF Cleared, Emptied
<1>9. CASE Complete(o, i)
  <2>1. /\ Put(o, i, memory[i], "completing") /\ ~Birth(o, i) /\ UNCHANGED <<vault, orphans>>
    BY <1>9 DEF Complete, sources, In, Birth
  <2>2. memory[i] \in Statuses /\ "completing" \in SaveSteps
    BY DEF Base, SourceTypes, Contents, SaveSteps
  <2>3. calls'[o].step = "completing" /\ memory' = [memory EXCEPT ![i] = memory[i]]
    BY <2>1, <2>2, PutFacts
  <2>4. memory'[i] = memory[i]
    BY <2>3 DEF Base, SourceTypes, Contents
  <2>5. QED
    BY <1>5, <2>1, <2>3, <2>4
<1>10. QED
  BY <1>1, <1>2, <1>3, <1>4, <1>6, <1>7, <1>8, <1>9 DEF GoesOn


LEMMA DiesKnown ==
  ASSUME Base, Dies, NEW i \in Items, KnownInv(i)
  PROVE  KnownInv(i)'
<1>1. CrashMove /\ ~up' /\ \A o \in Ids : calls'[o] = NoCall
  BY DiesFacts
<1>2. Adding(i)'
  BY <1>1 DEF Adding, In, NoCall
<1>3. Known(i)'
  <2>1. SUFFICES ASSUME i \in vault', i \notin orphans' PROVE Listed(i)'
    BY DEF Known
  <2>2. i \in vault /\ i \notin orphans /\ \A o \in Ids : ~Birth(o, i)
    BY <2>1 DEF Dies, Birth
  <2>3. Disk(i, Present)
    BY <2>2 DEF KnownInv, Known, Listed
  <2>4. Disk(i, Present)'
    BY <1>1, <2>3, DownKeeps DEF Base
  <2>5. QED
    BY <1>1, <2>4 DEF Listed
<1>4. QED
  BY <1>2, <1>3 DEF KnownInv

LEMMA RestartKnown ==
  ASSUME Base, Restart, "read" \notin Faults, NEW i \in Items, KnownInv(i)
  PROVE  KnownInv(i)'
<1>1. StartMove /\ UNCHANGED <<calls, orphans>> /\ vault' \subseteq vault /\ \A o \in Ids : calls[o] = NoCall
  BY RestartFacts
<1>2. Adding(i)'
  BY <1>1 DEF Adding, In, NoCall
<1>3. Known(i)'
  <2>1. SUFFICES ASSUME i \in vault', i \notin orphans' PROVE Listed(i)'
    BY DEF Known
  <2>2. i \in vault /\ i \notin orphans /\ \A o \in Ids : ~Birth(o, i)
    BY <1>1, <2>1 DEF Birth, NoCall
  <2>3. Disk(i, Present)
    BY <2>2 DEF KnownInv, Known, Listed
  <2>4. Disk(i, Present)'
    BY <1>1, <2>3, DownKeeps DEF Base
  <2>5. OnDisk[i] \in Present
    BY <2>3 DEF Disk
  <2>6. memory'[i] \in Present
    BY <2>5, RestartItem DEF Present, Over, Resumable, Statuses
  <2>7. QED
    BY <2>4, <2>6 DEF Listed
<1>4. QED
  BY <1>2, <1>3 DEF KnownInv

LEMMA KnownStep ==
  ASSUME Base, [Next]_vars, "read" \notin Faults, NEW i \in Items, ItemInv(i), KnownInv(i)
  PROVE  KnownInv(i)'
<1>1. ASSUME NEW o \in Ids, NEW j \in Items, Asks(o, j) \/ GoesOn(o, j) PROVE KnownInv(i)'
  <2>1. Effect(o, j)
    BY <1>1, AsksEffect, GoesOnEffect
  <2>2. CASE i = j /\ Asks(o, j)
    BY <2>1, <2>2, AsksLists, ListsKeeps
  <2>3. CASE i = j /\ GoesOn(o, j)
    BY <2>3, GoesOnKnown
  <2>4. CASE i # j
    <3>1. OnlyOne(o, j) /\ (Moves \/ UNCHANGED frame) /\ WritesMemory
      BY <2>1 DEF Effect
    <3>2. Same(i)
      BY <2>4, <3>1, OthersSame
    <3>3. (i \in orphans' <=> i \in orphans) /\ up
      BY <2>4, <3>1 DEF OnlyOne
    <3>4. QED
      BY <3>1, <3>2, <3>3, SameKnown
  <2>5. QED
    BY <1>1, <2>2, <2>3, <2>4
<1>2. CASE Quiet
  <2>1. /\ Moves /\ WritesMemory /\ memory' = memory /\ up
        /\ UNCHANGED <<calls, vault, fresh, undone, settled, orphans, reopened>>
    BY <1>2, QuietFacts
  <2>2. Same(i)
    BY <2>1 DEF Same, On
  <2>3. QED
    BY <2>1, <2>2, SameKnown
<1>3. CASE Dies
  BY <1>3, DiesKnown
<1>4. CASE Restart
  BY <1>4, RestartKnown
<1>5. CASE UNCHANGED vars
  <2>1. UNCHANGED store /\ UNCHANGED <<calls, vault, fresh, undone, settled, orphans, reopened>>
    BY <1>5 DEF vars
  <2>2. UNCHANGED frame /\ WritesMemory /\ memory' = memory /\ up' = up
    BY <2>1, StillFacts
  <2>3. Same(i)
    BY <2>1, <2>2 DEF Same, On
  <2>4. QED
    BY <2>1, <2>2, <2>3, SameKnown
<1>6. QED
  BY <1>1, <1>2, <1>3, <1>4, <1>5 DEF Next, GoOn, Quiet

LEMMA KnownInit ==
  ASSUME Init, NEW i \in Items
  PROVE  KnownInv(i)
BY DEF Init, KnownInv, Adding, Known

AllKnown == \A i \in Items : KnownInv(i)

\* As long as the file can be read, a secret stays in the vault only while a
\* record or an operation names its item, or after an addition that was cut short.
THEOREM NoSecretForgotten == "read" \notin Faults => (Spec => []SecretsAreKnown)
<1> SUFFICES ASSUME "read" \notin Faults PROVE Spec => []SecretsAreKnown
  OBVIOUS
<1>1. Init => Base /\ ItemsInv /\ AllKnown
  BY BaseInit, ItemInit, KnownInit DEF ItemsInv, AllKnown
<1>2. Base /\ ItemsInv /\ AllKnown /\ [Next]_vars => (Base /\ ItemsInv /\ AllKnown)'
  <2>1. Base /\ ItemsInv /\ AllKnown /\ [Next]_vars => AllKnown'
    BY KnownStep DEF ItemsInv, AllKnown
  <2>2. QED
    BY <2>1, BaseStep, ItemsStep
<1>3. Base /\ AllKnown => SecretsAreKnown
  <2>1. SUFFICES ASSUME Base, AllKnown, NEW i \in vault, i \notin orphans,
                        \A o \in Ids : calls[o].item # i
                 PROVE  OnDisk[i] # "absent"
    BY DEF SecretsAreKnown
  <2>2. i \in Items
    BY <2>1 DEF Base, SourceTypes
  <2>3. Known(i)
    BY <2>1, <2>2 DEF AllKnown, KnownInv
  <2>4. \A o \in Ids : ~Birth(o, i)
    BY <2>1 DEF Birth
  <2>5. Disk(i, Present)
    BY <2>1, <2>3, <2>4 DEF Known, Listed
  <2>6. QED
    BY <2>5 DEF Disk, Present
<1>4. QED
  BY <1>1, <1>2, <1>3, PTL DEF Spec

=============================================================================
