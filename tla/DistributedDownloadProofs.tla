---------------------- MODULE DistributedDownloadProofs ----------------------
(***************************************************************************)
(* The planner for every size, and DistributedDownload for any number of   *)
(* pieces, hosts, attempts, starts and deaths: records are true of the     *)
(* pieces, what was verified is not fetched again, and an installed file   *)
(* stays a completed download.                                             *)
(***************************************************************************)
EXTENDS DistributedDownload, FiniteSetTheorems, TLAPS

USE DistributedAssumption

-----------------------------------------------------------------------------
(* The plan *)

LEMMA Division ==
  ASSUME NEW total \in Nat, NEW n \in Nat \ {0}
  PROVE  /\ total \div n \in Nat /\ total % n \in 0..(n - 1)
         /\ total = n * (total \div n) + (total % n)
OBVIOUS

\* Piece p + 1 begins where piece p ends, and pieces differ by one byte at most.
LEMMA NextPiece ==
  ASSUME NEW total \in Nat, NEW n \in Nat \ {0}, NEW p \in 0..(n - 1)
  PROVE  PieceStart(total, n, p + 1) =
           PieceStart(total, n, p) + (total \div n) + (IF p < total % n THEN 1 ELSE 0)
<1> DEFINE q == total \div n
           r == total % n
<1>1. q \in Nat /\ r \in Nat
  BY Division
<1>2. (p + 1) * q = p * q + q /\ p * q \in Nat
  BY <1>1
<1>3. Least(p + 1, r) = Least(p, r) + (IF p < r THEN 1 ELSE 0) /\ Least(p, r) \in Nat
  BY <1>1 DEF Least
<1>4. /\ PieceStart(total, n, p + 1) = (p + 1) * q + Least(p + 1, r)
      /\ PieceStart(total, n, p) = p * q + Least(p, r)
  BY DEF PieceStart
<1>5. PieceStart(total, n, p + 1) = PieceStart(total, n, p) + q + (IF p < r THEN 1 ELSE 0)
  <2> HIDE DEF q, r
  <2>1. QED
    BY <1>1, <1>2, <1>3, <1>4
<1>6. QED
  BY <1>5

\* The pieces follow one another from the first byte to the last, whatever the
\* size and the number of pieces, and none of them is empty.
THEOREM PlanPartitions ==
  ASSUME NEW total \in Nat, NEW n \in Nat \ {0}, n <= total
  PROVE  /\ PieceStart(total, n, 0) = 0
         /\ PieceStart(total, n, n) = total
         /\ \A p \in 0..(n - 1) :
              PieceStart(total, n, p + 1) - PieceStart(total, n, p) \in
                {total \div n, (total \div n) + 1} \ {0}
<1> DEFINE q == total \div n
           r == total % n
<1>1. q \in Nat /\ r \in 0..(n - 1) /\ total = n * q + r
  BY Division
<1>2. q # 0
  BY <1>1
<1>3. PieceStart(total, n, 0) = 0
  BY <1>1 DEF PieceStart, Least
<1>4. PieceStart(total, n, n) = total
  BY <1>1 DEF PieceStart, Least
<1>5. ASSUME NEW p \in 0..(n - 1)
      PROVE  PieceStart(total, n, p + 1) - PieceStart(total, n, p) \in {q, q + 1} \ {0}
  <2>1. PieceStart(total, n, p) \in Nat
    BY <1>1 DEF PieceStart, Least
  <2>2. PieceStart(total, n, p + 1) = PieceStart(total, n, p) + q + (IF p < r THEN 1 ELSE 0)
    BY NextPiece
  <2> HIDE DEF q, r
  <2>3. QED
    BY <1>1, <1>2, <2>1, <2>2
<1>6. QED
  BY <1>3, <1>4, <1>5

\* There is at least one piece, and no more than bytes or than the limit.
THEOREM PlanIsBounded ==
  ASSUME NEW total \in Nat \ {0}, NEW hosts \in Nat \ {0}, NEW target \in Nat \ {0}, NEW limit \in Nat \ {0}
  PROVE  /\ PieceCount(total, hosts, target, limit) \in 1..limit
         /\ PieceCount(total, hosts, target, limit) <= total
<1> DEFINE c == (total + target - 1) \div target
<1>1. c \in Nat /\ total + target - 1 = target * c + ((total + target - 1) % target)
      /\ (total + target - 1) % target \in 0..(target - 1)
  <2>1. total + target - 1 \in Nat
    OBVIOUS
  <2>2. QED
    BY <2>1, Division
<1>2. target * c <= total + target - 1 /\ total + target - 1 < target * c + target
  BY <1>1
<1>3. c >= 1
  BY <1>1, <1>2
<1>4. c <= total
  <2>1. SUFFICES ASSUME c >= total + 1 PROVE FALSE
    BY <1>1
  <2>2. target * c >= target * (total + 1)
    BY <1>1, <2>1
  <2>3. target * (total + 1) = (target - 1) * total + total + target
    OBVIOUS
  <2>4. (target - 1) * total >= 0
    OBVIOUS
  <2>5. QED
    BY <1>1, <1>2, <2>2, <2>3, <2>4
<1>5. QED
  BY <1>1, <1>3, <1>4 DEF PieceCount, Least, Greatest

-----------------------------------------------------------------------------
(***************************************************************************)
(* The invariant.  The plan of a round is made of what a run has looked at *)
(* itself; each host works on a piece of its own that is still pending;    *)
(* and a piece that arrived stays what its record says, because no other   *)
(* host of the round has it.                                               *)
(***************************************************************************)
Working(h) == fetch[h].stage # "idle"

Shapes ==
  /\ phase # "recheck" => memory = [p \in Pieces |-> memory[p]]
  /\ files = [p \in Pieces |-> files[p]]
  /\ fetch \in [Hosts -> [stage : Stages, piece : Int, got : Contents]]
  /\ pending \subseteq Pieces

\* Only a round has hosts at work, each on a pending piece that no other has.
AtWork ==
  /\ phase # "fetching" => \A h \in Hosts : fetch[h] = NoFetch
  /\ \A h \in Hosts : Working(h) => Piece(h) \in pending
  /\ \A g, h \in Hosts : Working(g) /\ Working(h) /\ g # h => Piece(g) # Piece(h)

\* What a host has sent is something; what it has delivered matches its record.
Delivered ==
  \A h \in Hosts :
    /\ fetch[h].stage \in {"data", "received"} => fetch[h].got # "none"
    /\ fetch[h].stage \in {"saving", "done"} => Matches(Piece(h))

\* After the first look a record that is left is one that matches.
Looked == phase = "recover" => \A p \in Pieces : memory[p] # "none" => Matches(p)

\* What was verified when the run began has its record and is not pending.
StillKept ==
  /\ kept \subseteq Pieces /\ (phase = "load" => kept = {})
  /\ phase = "recheck" => \A p \in kept : Matches(p)
  /\ phase = "recover" => \A p \in kept : memory[p] # "none"
  /\ phase \in {"round", "fetching"} => pending \cap kept = {}

RunInv == Shapes /\ AtWork /\ Delivered /\ Looked /\ StillKept /\ RecordsAreTrue

\* Hosts of one list have different ranks in it.
LEMMA RanksDiffer ==
  ASSUME NEW S \in SUBSET Hosts, NEW g \in S, NEW h \in S, g # h
  PROVE  Rank(S, g) # Rank(S, h)
<1>1. ASSUME NEW a \in S, NEW b \in S, a < b
      PROVE  Rank(S, a) # Rank(S, b)
  <2> DEFINE A == {y \in S : y <= a}
             B == {y \in S : y <= b}
  <2>1. IsFiniteSet(Hosts)
    BY FS_Interval DEF Hosts
  <2>2. IsFiniteSet(S)
    BY <2>1, FS_Subset
  <2>3. IsFiniteSet(B)
    BY <2>2, FS_Subset
  <2>4. A \subseteq B /\ A # B
    <3>1. \A y \in S : y \in Nat
      BY DEF Hosts
    <3>2. b \in B /\ b \notin A
      BY <1>1, <3>1
    <3>3. A \subseteq B
      BY <1>1, <3>1
    <3>4. QED
      BY <3>2, <3>3
  <2>5. Cardinality(A) # Cardinality(B)
    BY <2>3, <2>4, FS_Subset
  <2>6. QED
    BY <2>5 DEF Rank
<1>2. g < h \/ h < g
  BY DEF Hosts
<1>3. QED
  BY <1>1, <1>2

\* The pieces that Round gives are pending, and no piece goes to two hosts.
LEMMA GivenIsPending ==
  ASSUME NEW h \in Hosts, Given(h) # {}
  PROVE  Assigned(h).piece \in pending /\ Assigned(h).piece \in Given(h)
<1>1. Assigned(h).piece \in Given(h)
  BY DEF Assigned
<1>2. Given(h) \subseteq pending
  BY DEF Given, Own, Strays
<1>3. QED
  BY <1>1, <1>2

LEMMA GivenIsApart ==
  ASSUME NEW g \in Healthy, NEW h \in Healthy, g # h, NEW p \in Given(g)
  PROVE  p \notin Given(h)
<1>1. CASE Own(g) # {} \/ Own(h) # {}
  BY <1>1 DEF Given, Own, Strays
<1>2. CASE Own(g) = {} /\ Own(h) = {}
  <2>1. g \in Free /\ h \in Free /\ Free \in SUBSET Hosts
    BY <1>2 DEF Free, Healthy
  <2>2. Rank(Free, g) # Rank(Free, h)
    BY <2>1, RanksDiffer
  <2>3. QED
    BY <1>2, <2>2 DEF Given
<1>3. QED
  BY <1>1, <1>2

\* One host's fetch moves on, and nothing else.
Quiet == UNCHANGED <<phase, memory, files, pending, kept>>

LEMMA FetchMoves ==
  ASSUME RunInv, phase = "fetching", Quiet, NEW h \in Hosts, Working(h),
         fetch' \in [Hosts -> [stage : Stages, piece : Int, got : Contents]],
         \A g \in Hosts : fetch'[g].piece = fetch[g].piece,
         \A g \in Hosts : g # h => fetch'[g] = fetch[g],
         fetch'[h].stage # "idle",
         fetch'[h].stage \in {"data", "received"} => fetch'[h].got # "none",
         fetch'[h].stage \in {"saving", "done"} => Matches(Piece(h))
  PROVE  RunInv'
<1>1. Shapes'
  BY DEF RunInv, Shapes, Quiet
<1>2. AtWork'
  BY DEF RunInv, AtWork, Working, Piece, Quiet
<1>3. Delivered'
  BY DEF RunInv, Delivered, Matches, Piece, Quiet
<1>4. Looked' /\ StillKept' /\ RecordsAreTrue'
  BY DEF RunInv, Looked, StillKept, RecordsAreTrue, Matches, Quiet
<1>5. QED
  BY <1>1, <1>2, <1>3, <1>4 DEF RunInv

LEMMA StageMoves ==
  ASSUME RunInv, phase = "fetching", Quiet, NEW h \in Hosts, Working(h),
         NEW s \in Stages, s # "idle", Moves(h, s),
         s = "received" => fetch[h].stage = "data", s # "data",
         s = "done" => fetch[h].stage = "saving", s # "saving"
  PROVE  RunInv'
<1>1. /\ fetch' \in [Hosts -> [stage : Stages, piece : Int, got : Contents]]
      /\ \A g \in Hosts : fetch'[g].piece = fetch[g].piece
      /\ \A g \in Hosts : g # h => fetch'[g] = fetch[g]
      /\ fetch'[h].stage = s /\ fetch'[h].got = fetch[h].got
  BY DEF Moves, RunInv, Shapes, Stages
<1>2. s \in {"data", "received"} => fetch[h].got # "none"
  BY DEF RunInv, Delivered
<1>3. s \in {"saving", "done"} => Matches(Piece(h))
  BY DEF RunInv, Delivered
<1>4. QED
  BY <1>1, <1>2, <1>3, FetchMoves

LEMMA HostKeeps ==
  ASSUME RunInv, NEW h \in Hosts,
         Connect(h) \/ Answer(h) \/ Data(h) \/ End(h) \/ Cut(h) \/ Interrupt(h) \/ Saved(h)
  PROVE  RunInv'
<1>1. Quiet /\ phase = "fetching" /\ Working(h)
  BY DEF Quiet, Connect, Answer, Data, End, Cut, Interrupt, Saved, At, Working, disk, plan, run, rest
<1>2. CASE \E s \in {"asked", "meta", "transient", "refused", "integrity", "stopped"} : Moves(h, s)
  BY <1>1, <1>2, StageMoves DEF Stages
<1>3. CASE End(h)
  <2>1. Moves(h, "received") /\ fetch[h].stage = "data"
    BY <1>3 DEF End, At
  <2>2. QED
    BY <1>1, <2>1, StageMoves DEF Stages
<1>4. CASE Saved(h)
  <2>1. Moves(h, "done") \/ Moves(h, "transient")
    BY <1>4 DEF Saved
  <2>2. fetch[h].stage = "saving"
    BY <1>4 DEF Saved, At
  <2>3. QED
    BY <1>1, <2>1, <2>2, StageMoves DEF Stages
<1>5. CASE \E c \in {"good", "bad"} : fetch' = [fetch EXCEPT ![h].stage = "data", ![h].got = c]
  <2>1. PICK c \in {"good", "bad"} : fetch' = [fetch EXCEPT ![h].stage = "data", ![h].got = c]
    BY <1>5
  <2>2. /\ fetch' \in [Hosts -> [stage : Stages, piece : Int, got : Contents]]
        /\ \A g \in Hosts : fetch'[g].piece = fetch[g].piece
        /\ \A g \in Hosts : g # h => fetch'[g] = fetch[g]
        /\ fetch'[h].stage = "data" /\ fetch'[h].got # "none"
    <3> DEFINE m == [fetch EXCEPT ![h].stage = "data"]
    <3>1. m \in [Hosts -> [stage : Stages, piece : Int, got : Contents]]
      BY DEF RunInv, Shapes, Stages
    <3>2. /\ \A g \in Hosts : m[g].piece = fetch[g].piece /\ (g # h => m[g] = fetch[g])
          /\ m[h].stage = "data"
      BY DEF RunInv, Shapes
    <3>3. fetch' = [m EXCEPT ![h].got = c]
      BY <2>1
    <3>4. c \in Contents
      BY DEF Contents
    <3> HIDE DEF m
    <3>5. QED
      BY <3>1, <3>2, <3>3, <3>4
  <2>3. QED
    BY <1>1, <2>2, FetchMoves
<1>6. QED
  BY <1>2, <1>3, <1>4, <1>5 DEF Connect, Answer, Data, Cut, Interrupt, Gives

\* Keep renames and records one piece; no other host has it.
LEMMA KeepKeeps ==
  ASSUME RunInv, NEW h \in Hosts, Keep(h)
  PROVE  RunInv'
<1> DEFINE p == Piece(h)
           c == fetch[h].got
<1>1. /\ phase = "fetching" /\ fetch[h].stage = "received" /\ Working(h) /\ c # "none"
      /\ p \in pending /\ p \in Pieces
      /\ UNCHANGED <<phase, pending, kept>>
  BY DEF Keep, At, Working, RunInv, Delivered, AtWork, Shapes, run, rest
<1>2. \E s \in {"saving", "transient", "integrity"} : Moves(h, s)
  BY DEF Keep, Gives
<1>3. /\ fetch' \in [Hosts -> [stage : Stages, piece : Int, got : Contents]]
      /\ \A g \in Hosts : fetch'[g].piece = fetch[g].piece
      /\ \A g \in Hosts : g # h => fetch'[g] = fetch[g]
      /\ fetch'[h].stage \in {"saving", "transient", "integrity"}
  BY <1>2 DEF Moves, RunInv, Shapes, Stages
<1>4. /\ files' = [q \in Pieces |-> files'[q]] /\ memory' = [q \in Pieces |-> memory'[q]]
      /\ \A q \in Pieces : q # p => files'[q] = files[q] /\ memory'[q] = memory[q]
  BY <1>1 DEF Keep, RunInv, Shapes
<1>5. fetch'[h].stage = "saving" => files'[p] = c /\ memory'[p] = c
  <2>1. ASSUME fetch'[h].stage = "saving"
        PROVE  files' = [files EXCEPT ![p] = c] /\ memory' = [memory EXCEPT ![p] = c]
    BY <1>3, <2>1 DEF Keep, Gives, Moves, RunInv, Shapes
  <2>2. QED
    BY <1>1, <2>1 DEF RunInv, Shapes
<1>6. Shapes'
  BY <1>1, <1>3, <1>4 DEF RunInv, Shapes
<1>7. AtWork'
  BY <1>1, <1>3 DEF RunInv, AtWork, Working, Piece
<1>8. Delivered'
  <2>1. ASSUME NEW g \in Hosts, g # h, Working(g)
        PROVE  Piece(g) # p /\ Piece(g) \in Pieces
    BY <1>1, <2>1 DEF RunInv, AtWork, Shapes
  <2>2. ASSUME NEW g \in Hosts, g # h, fetch[g].stage \in {"saving", "done"}
        PROVE  Matches(Piece(g))'
    BY <1>3, <1>4, <2>1, <2>2 DEF RunInv, Delivered, Matches, Piece, Working
  <2>3. fetch'[h].stage \in {"saving", "done"} => Matches(Piece(h))'
    BY <1>1, <1>3, <1>5 DEF Matches, Piece
  <2>4. QED
    BY <1>3, <2>2, <2>3 DEF RunInv, Delivered
<1>9. RecordsAreTrue'
  BY <1>1, <1>4 DEF RunInv, RecordsAreTrue, Matches
<1>10. Looked' /\ StillKept'
  BY <1>1 DEF RunInv, Looked, StillKept
<1>11. QED
  BY <1>6, <1>7, <1>8, <1>9, <1>10 DEF RunInv

\* A round begins and ends.
LEMMA RoundKeeps ==
  ASSUME RunInv, Round
  PROVE  RunInv'
<1>1. /\ phase = "round" /\ UNCHANGED <<files, memory, pending, kept>>
      /\ phase' \in {"verify", "failed", "fetching"}
  BY DEF Round, plan, rest, Goto, Fails
<1>2. CASE phase' # "fetching"
  <2>1. fetch' = fetch
    BY <1>2 DEF Round, Goto
  <2>2. QED
    BY <1>1, <1>2, <2>1 DEF RunInv, Shapes, AtWork, Working, Piece, Delivered, Looked, StillKept,
                            RecordsAreTrue, Matches
<1>3. CASE phase' = "fetching"
  <2>1. fetch' = [h \in Hosts |-> IF h \in Healthy /\ Given(h) # {} THEN Assigned(h) ELSE NoFetch]
    BY <1>3 DEF Round, Goto, Fails
  <2>2. ASSUME NEW h \in Hosts
        PROVE  /\ fetch'[h] = NoFetch \/ (h \in Healthy /\ Given(h) # {} /\ fetch'[h] = Assigned(h))
               /\ fetch'[h] \in [stage : Stages, piece : Int, got : Contents]
               /\ fetch'[h].stage \in {"idle", "connecting"}
    <3>1. CASE h \in Healthy /\ Given(h) # {}
      <4>1. Assigned(h).piece \in Int
        BY <3>1, GivenIsPending DEF RunInv, Shapes, Pieces
      <4>2. QED
        BY <2>1, <3>1, <4>1 DEF Assigned, Stages, Contents
    <3>2. CASE ~(h \in Healthy /\ Given(h) # {})
      BY <2>1, <3>2 DEF NoFetch, Stages, Contents
    <3>3. QED
      BY <3>1, <3>2
  <2>3. Shapes'
    BY <1>1, <1>3, <2>1, <2>2 DEF RunInv, Shapes
  <2>4. ASSUME NEW h \in Hosts, Working(h)'
        PROVE  h \in Healthy /\ Piece(h)' \in pending /\ Piece(h)' \in Given(h)
    BY <2>2, <2>4, GivenIsPending DEF Working, Piece, NoFetch
  <2>5. AtWork'
    BY <1>1, <1>3, <2>4, GivenIsApart DEF AtWork
  <2>6. Delivered'
    BY <2>2 DEF Delivered
  <2>7. Looked' /\ StillKept' /\ RecordsAreTrue'
    BY <1>1, <1>3 DEF RunInv, Looked, StillKept, RecordsAreTrue, Matches
  <2>8. QED
    BY <2>3, <2>5, <2>6, <2>7 DEF RunInv
<1>4. QED
  BY <1>2, <1>3

LEMMA RoundEndsKeeps ==
  ASSUME RunInv, RoundEnds
  PROVE  RunInv'
<1>1. /\ phase = "fetching" /\ UNCHANGED <<files, memory, kept>>
      /\ phase' \in {"failed", "round"} /\ fetch' = [h \in Hosts |-> NoFetch]
  BY DEF RoundEnds, plan, rest, disk, Goto, Fails
<1>2. Shapes'
  BY <1>1 DEF RunInv, Shapes, NoFetch, Stages, Contents, RoundEnds, plan
<1>3. AtWork' /\ Delivered'
  BY <1>1 DEF AtWork, Delivered, Working, NoFetch
<1>4. pending' \subseteq pending
  BY DEF RoundEnds, plan
<1>5. Looked' /\ StillKept'
  BY <1>1, <1>4 DEF RunInv, Looked, StillKept
<1>6. RecordsAreTrue'
  <2>1. CASE phase' = "failed"
    BY <2>1 DEF RecordsAreTrue
  <2>2. CASE phase' = "round"
    <3>1. pending' = pending \ {Piece(h) : h \in {g \in Hosts : fetch[g].stage = "done"}}
      BY <2>2 DEF RoundEnds, Goto, Fails
    <3>2. ASSUME NEW p \in Pieces \ pending' PROVE Matches(p)
      BY <1>1, <3>1, <3>2 DEF RunInv, Delivered, RecordsAreTrue
    <3>3. QED
      BY <1>1, <3>2 DEF RecordsAreTrue, Matches
  <2>3. QED
    BY <1>1, <2>1, <2>2
<1>7. QED
  BY <1>2, <1>3, <1>5, <1>6 DEF RunInv

\* The start of a run: the manifest, the look at the pieces, the plan.
LEMMA BeginKeeps ==
  ASSUME RunInv, Start \/ Load \/ Recheck \/ Recover
  PROVE  RunInv'
<1>1. UNCHANGED fetch /\ phase # "fetching" /\ phase' # "fetching"
  BY DEF Start, Load, Recheck, Recover, Deal, Goto, Fails, rest
<1>2. AtWork' /\ Delivered'
  BY <1>1 DEF RunInv, AtWork, Delivered, Working, NoFetch
<1>3. CASE Start
  BY <1>2, <1>3 DEF Start, Goto, RunInv, Shapes, Looked, StillKept, RecordsAreTrue, disk, Blank
<1>4. CASE Load
  <2>1. CASE phase' = "recheck" /\ memory' = manifest /\ UNCHANGED disk
             /\ kept' = {p \in Pieces : manifest[p] # "none" /\ files[p] = manifest[p]}
    BY <1>1, <1>2, <1>4, <2>1 DEF Load, RunInv, Shapes, Looked, StillKept, RecordsAreTrue, Matches, disk
  <2>2. CASE phase' = "recheck" /\ memory' = Blank /\ UNCHANGED <<files, kept>>
    <3>1. kept = {}
      BY <1>4 DEF Load, RunInv, StillKept
    <3>2. QED
      BY <1>1, <1>2, <1>4, <2>2, <3>1 DEF Load, RunInv, Shapes, Looked, StillKept, RecordsAreTrue, Blank
  <2>3. CASE phase' = "failed" /\ UNCHANGED <<disk, memory, kept>>
    BY <1>1, <1>2, <1>4, <2>3 DEF Load, RunInv, Shapes, Looked, StillKept, RecordsAreTrue, disk
  <2>4. QED
    BY <1>4, <2>1, <2>2, <2>3 DEF Load, Goto, Fails
<1>5. CASE Recheck
  <2>1. /\ phase = "recheck" /\ phase' \in {"round", "recover"} /\ UNCHANGED kept
        /\ files' = [p \in Pieces |-> IF Matches(p) THEN files[p] ELSE "none"]
        /\ memory' = [p \in Pieces |-> IF Matches(p) THEN memory[p] ELSE "none"]
    BY <1>5 DEF Recheck, Deal, Goto, rest
  <2>2. \A p \in Pieces : memory'[p] # "none" => Matches(p)'
    BY <2>1 DEF Matches
  <2>3. \A p \in kept : memory'[p] # "none"
    BY <2>1 DEF RunInv, StillKept, Matches
  <2>4. CASE phase' = "recover"
    <3>1. pending' = pending
      BY <1>5, <2>4 DEF Recheck, Deal, Goto
    <3>2. QED
      BY <1>1, <1>2, <2>1, <2>2, <2>3, <2>4, <3>1
         DEF RunInv, Shapes, Looked, StillKept, RecordsAreTrue
  <2>5. CASE phase' = "round"
    <3>1. pending' = {p \in Pieces : memory'[p] = "none"}
      BY <1>5, <2>5 DEF Recheck, Deal, Goto
    <3>2. QED
      BY <1>1, <1>2, <2>1, <2>2, <2>3, <2>5, <3>1
         DEF RunInv, Shapes, Looked, StillKept, RecordsAreTrue
  <2>6. QED
    BY <2>1, <2>4, <2>5
<1>6. CASE Recover
  <2>1. phase = "recover" /\ UNCHANGED <<files, memory, kept>>
    BY <1>6 DEF Recover, rest
  <2>2. CASE phase' = "failed" /\ UNCHANGED pending
    BY <1>1, <1>2, <2>1, <2>2 DEF RunInv, Shapes, Looked, StillKept, RecordsAreTrue
  <2>3. CASE phase' = "round" /\ pending' = {p \in Pieces : memory[p] = "none"}
    BY <1>1, <1>2, <2>1, <2>3 DEF RunInv, Shapes, Looked, StillKept, RecordsAreTrue, Matches
  <2>4. QED
    BY <1>6, <2>2, <2>3 DEF Recover, Deal, Goto, Fails
<1>7. QED
  BY <1>3, <1>4, <1>5, <1>6

\* What neither fetches nor looks at the manifest.
LEMMA RestKeeps ==
  ASSUME RunInv,
         \/ Verify \/ Assemble \/ Judge \/ Forget \/ Access \/ Install \/ Clean
         \/ Ends \/ Tidy \/ Wipe \/ (\E what \in UserOps : Ask(what)) \/ CancelIdle
         \/ Record \/ Occupy \/ Crash \/ (\E h \in Hosts : Notice(h)) \/ UNCHANGED vars
  PROVE  RunInv'
<1>1. CASE Crash
  <2>1. phase' = "none" /\ memory' = Blank /\ pending' = {} /\ UNCHANGED files /\ kept' = {}
        /\ fetch' = [h \in Hosts |-> NoFetch]
    BY <1>1 DEF Crash, Goto, disk
  <2>2. Shapes'
    BY <2>1 DEF RunInv, Shapes, Blank, NoFetch, Stages, Contents
  <2>3. AtWork' /\ Delivered'
    BY <2>1 DEF AtWork, Delivered, Working, NoFetch
  <2>4. QED
    BY <2>1, <2>2, <2>3 DEF RunInv, Looked, StillKept, RecordsAreTrue
<1>2. CASE Forget
  <2>1. /\ phase = "forget" /\ phase' \in {"forget", "failed"} /\ UNCHANGED <<fetch, pending, kept>>
        /\ files' \in {files, Blank} /\ memory' \in {memory, Blank}
    BY <1>2 DEF Forget, Goto, Fails, rest
  <2>2. Shapes'
    BY <2>1 DEF RunInv, Shapes, Blank
  <2>3. AtWork' /\ Delivered'
    BY <2>1 DEF RunInv, AtWork, Delivered, Working, NoFetch
  <2>4. QED
    BY <2>1, <2>2, <2>3 DEF RunInv, Looked, StillKept, RecordsAreTrue
<1>3. CASE Wipe \/ Clean
  <2>1. /\ phase \in {"wipe", "clean"} /\ phase' \in {"none", "completed"}
        /\ UNCHANGED <<fetch, pending, memory, kept>> /\ files' \in {files, Blank}
    BY <1>3 DEF Wipe, Clean, NoWork, Goto, plan, rest
  <2>2. Shapes'
    BY <2>1 DEF RunInv, Shapes, Blank
  <2>3. AtWork' /\ Delivered'
    BY <2>1 DEF RunInv, AtWork, Delivered, Working, NoFetch
  <2>4. QED
    BY <2>1, <2>2, <2>3 DEF RunInv, Looked, StillKept, RecordsAreTrue
<1>4. CASE \/ Verify \/ Assemble \/ Judge \/ Access \/ Install \/ Ends \/ Tidy
           \/ (\E what \in UserOps : Ask(what)) \/ CancelIdle
           \/ Record \/ Occupy \/ (\E h \in Hosts : Notice(h)) \/ UNCHANGED vars
  <2>1. UNCHANGED <<files, memory, pending, kept, fetch>>
    BY <1>4 DEF Verify, Assemble, Judge, Access, Install, Ends, Tidy, Ask, CancelIdle, Record, Occupy,
                Notice, disk, plan, run, rest, vars
  <2>2. \/ phase' = phase
        \/ /\ phase \notin {"recheck", "fetching"}
           /\ phase' \in {"assemble", "judge", "forget", "access", "install", "clean",
                          "failed", "none", "tidy", "wipe"}
           /\ phase' \in {"assemble", "judge"} => phase \in {"verify", "assemble"}
    BY <1>4 DEF Verify, Assemble, Judge, Access, Install, Ends, Tidy, Ask, CancelIdle, Record, Occupy,
                Notice, disk, plan, run, rest, vars, Goto, Fails
  <2>3. Shapes' /\ AtWork' /\ Delivered'
    BY <2>1, <2>2 DEF RunInv, Shapes, AtWork, Delivered, Working, Piece, Matches
  <2>4. Looked' /\ StillKept' /\ RecordsAreTrue'
    BY <2>1, <2>2 DEF RunInv, Looked, StillKept, RecordsAreTrue, Matches
  <2>5. QED
    BY <2>3, <2>4 DEF RunInv
<1>5. QED
  BY <1>1, <1>2, <1>3, <1>4

LEMMA RunInvHolds == Spec => []RunInv
<1>1. Init => RunInv
  <2>1. SUFFICES ASSUME Init PROVE RunInv
    OBVIOUS
  <2>2. Shapes
    BY <2>1 DEF Init, Shapes, Blank, NoFetch, Stages, Contents
  <2>3. AtWork /\ Delivered
    BY <2>1 DEF Init, AtWork, Delivered, Working, NoFetch
  <2>4. QED
    BY <2>1, <2>2, <2>3 DEF Init, RunInv, Looked, StillKept, RecordsAreTrue
<1>2. RunInv /\ [Next]_vars => RunInv'
  BY HostKeeps, KeepKeeps, RoundKeeps, RoundEndsKeeps, BeginKeeps, RestKeeps DEF Next, RunStep
<1>3. QED
  BY <1>1, <1>2, PTL DEF Spec

\* A piece that the run does not fetch, or fetch any more, is on disk with the
\* hash of its record, whatever fails and whenever the program dies.
THEOREM RecordsHold == Spec => []RecordsAreTrue
<1>1. RunInv => RecordsAreTrue
  BY DEF RunInv
<1>2. QED
  BY <1>1, RunInvHolds, PTL

\* No host works on a piece that was verified on disk when the run began.
THEOREM ProgressHolds == Spec => []ProgressIsKept
<1>1. RunInv => ProgressIsKept
  BY DEF RunInv, ProgressIsKept, AtWork, StillKept, Working, NoFetch
<1>2. QED
  BY <1>1, RunInvHolds, PTL

-----------------------------------------------------------------------------
\* With the file in its place a run can only end as completed or cancelled.
Landed ==
  final = "ours" =>
    \/ phase \in {"clean", "completed", "wipe"}
    \/ phase \in {"tidy", "none"} /\ status \in {"completed", "cancelled"}

\* Once the file is in its place the download is not reported as failed or
\* paused, unless the program dies between the rename and the manager's save.
THEOREM InstalledHolds == "lateCrash" \notin Faults => (Spec => []InstalledIsDone)
<1> SUFFICES ASSUME "lateCrash" \notin Faults PROVE Spec => []InstalledIsDone
  OBVIOUS
<1>1. Init => Landed
  BY DEF Init, Landed
<1>2. ASSUME Landed, [Next]_vars PROVE Landed'
  <2>1. CASE UNCHANGED <<final, phase, status>>
    BY <1>2, <2>1 DEF Landed
  <2>2. CASE Start
    BY <1>2, <2>2 DEF Landed, Start, Goto, disk
  <2>3. CASE \/ Load \/ Recheck \/ Recover \/ Round \/ RoundEnds
             \/ Verify \/ Assemble \/ Judge \/ Forget \/ Access
    <3>1. final' = final /\ phase \in {"load", "recheck", "recover", "round", "fetching",
                                       "verify", "assemble", "judge", "forget", "access"}
      BY <2>3 DEF Load, Recheck, Recover, Round, RoundEnds, Verify, Assemble, Judge, Forget, Access, disk
    <3>2. QED
      BY <1>2, <3>1 DEF Landed
  <2>4. CASE Install \/ Clean
    BY <1>2, <2>4 DEF Landed, Install, Clean, Goto
  <2>5. CASE Ends
    BY <1>2, <2>5 DEF Landed, Ends, Goto, disk
  <2>6. CASE Tidy \/ Wipe
    BY <1>2, <2>6 DEF Landed, Tidy, Wipe, Goto
  <2>7. CASE CancelIdle
    BY <1>2, <2>7 DEF Landed, CancelIdle, disk
  <2>8. CASE Occupy
    BY <2>8 DEF Landed, Occupy
  <2>9. CASE Crash
    BY <1>2, <2>9 DEF Landed, Crash, May, Goto, disk
  <2>10. CASE \/ \E h \in Hosts : Connect(h) \/ Answer(h) \/ Data(h) \/ End(h) \/ Cut(h)
                                    \/ Interrupt(h) \/ Keep(h) \/ Saved(h) \/ Notice(h)
              \/ (\E what \in UserOps : Ask(what)) \/ Record \/ UNCHANGED vars
    <3>1. UNCHANGED <<final, phase, status>>
      BY <2>10 DEF Connect, Answer, Data, End, Cut, Interrupt, Keep, Saved, Notice, Ask, Record,
                   disk, plan, run, rest, vars
    <3>2. QED
      BY <2>1, <3>1
  <2>11. QED
    BY <1>2, <2>2, <2>3, <2>4, <2>5, <2>6, <2>7, <2>8, <2>9, <2>10 DEF Next, RunStep
<1>3. Landed => InstalledIsDone
  BY DEF Landed, InstalledIsDone
<1>4. QED
  BY <1>1, <1>2, <1>3, PTL DEF Spec

=============================================================================
