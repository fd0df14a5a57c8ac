------------------------- MODULE HistoryStoreProofs -------------------------
(***************************************************************************)
(* HistoryStore for any number of calls, revisions and deaths: when no     *)
(* write is half done the files are what was committed, and for users who  *)
(* change labels and retention one at a time the store is an AuditJournal. *)
(***************************************************************************)
EXTENDS HistoryStore, FiniteSetTheorems, TLAPS

USE HistoryAssumption

\* After these failures the files are not what HEAD has.
CleanFailures == "late" \notin Faults /\ "undo" \notin Faults /\ "torn" \notin Faults

-----------------------------------------------------------------------------
(***************************************************************************)
(* The first invariant: the first call of the chain is the only one that   *)
(* may be past its turn, and the files differ from what was committed by   *)
(* what it is about to commit, or to take back.                            *)
(***************************************************************************)
Fits(f, v) == v = committed[f] \/ (MayMisread(f) /\ v = Empty[f])
Agrees(f) == Fits(f, work[f])
HalfDone(c) == call[c].stage \in {"commit", "undo"}

IsCall(r) == r = [stage |-> r.stage, op |-> r.op, arg |-> r.arg, id |-> r.id,
                  what |-> r.what, before |-> r.before]

Shapes ==
  /\ work = [f \in Files |-> work[f]]
  /\ committed = [f \in Files |-> committed[f]]
  /\ call = [c \in Calls |-> call[c]]
  /\ \A c \in Calls :
       /\ IsCall(call[c])
       /\ Op(c) \in Ops
  /\ chain \in Seq(Calls)

\* Whoever is past its turn is first in the chain.
FirstInChain ==
  \A c \in Calls : call[c].stage \in {"commit", "undo", "report"} => chain # <<>> /\ Head(chain) = c

Halves ==
  /\ \A c \in Calls : HalfDone(c) =>
       /\ Fits(File(c), call[c].before)
       /\ \A f \in Files : f # File(c) => Agrees(f)
       /\ At(c, "commit") => work[File(c)] = call[c].what
  /\ (\A c \in Calls : ~HalfDone(c)) => \A f \in Files : Agrees(f)

FilesInv == Shapes /\ FirstInChain /\ Halves

Past == {"commit", "undo", "report"}

\* Calls other than those that are past their turn move, and nothing else does.
LEMMA OthersMove ==
  ASSUME FilesInv, UNCHANGED <<work, committed>>, Shapes', chain # <<>> => chain' # <<>> /\ Head(chain') = Head(chain),
         \A c \in Calls : call'[c] = call[c] \/ (call[c].stage \notin Past /\ call'[c].stage \notin Past)
  PROVE  FilesInv'
<1>1. ASSUME NEW c \in Calls, call[c].stage \in Past \/ call'[c].stage \in Past PROVE call'[c] = call[c]
  BY <1>1
<1>2. FirstInChain'
  BY <1>1 DEF FilesInv, FirstInChain, Past
<1>3. \A c \in Calls : HalfDone(c)' <=> HalfDone(c)
  BY <1>1 DEF HalfDone, Past
<1>4. \A c \in Calls : HalfDone(c) => call'[c] = call[c]
  BY <1>1 DEF HalfDone, Past
<1>5. Halves'
  BY <1>3, <1>4 DEF FilesInv, Halves, Agrees, Fits, File, Op, At
<1>6. QED
  BY <1>2, <1>5 DEF FilesInv

\* The shapes after one call has changed.
LEMMA OneCall ==
  ASSUME Shapes, NEW c \in Calls, NEW r,
         IsCall(r), r.op \in Ops, call' = [call EXCEPT ![c] = r], chain' \in Seq(Calls),
         work' = [f \in Files |-> work'[f]], committed' = [f \in Files |-> committed'[f]]
  PROVE  /\ Shapes'
         /\ call'[c] = r
         /\ \A d \in Calls : d # c => call'[d] = call[d]
<1>1. /\ call'[c] = r /\ \A d \in Calls : d # c => call'[d] = call[d]
      /\ call' = [d \in Calls |-> call'[d]]
  BY DEF Shapes
<1>2. ASSUME NEW d \in Calls
      PROVE  IsCall(call'[d]) /\ Op(d)' \in Ops
  <2>1. CASE d = c
    BY <1>1, <2>1 DEF Op
  <2>2. CASE d # c
    BY <1>1, <2>2 DEF Op, Shapes
  <2>3. QED
    BY <2>1, <2>2
<1>3. QED
  BY <1>1, <1>2 DEF Shapes

Unbroken ==
  /\ chain' \in Seq(Calls)
  /\ work' = [f \in Files |-> work'[f]] /\ committed' = [f \in Files |-> committed'[f]]

\* What OneCall says of the ways in which a step changes a call.
Only(c) == Shapes' /\ \A d \in Calls : d # c => call'[d] = call[d]

LEMMA CallChanges ==
  ASSUME Shapes, Unbroken, NEW c \in Calls, NEW s, NEW i, NEW w, NEW b, Becomes(c, s, i, w, b)
  PROVE  /\ Only(c)
         /\ call'[c].stage = s /\ Op(c)' = Op(c) /\ call'[c].arg = call[c].arg
         /\ call'[c].id = i /\ call'[c].what = w /\ call'[c].before = b
<1> DEFINE r == [stage |-> s, op |-> call[c].op, arg |-> call[c].arg, id |-> i, what |-> w, before |-> b]
<1>1. call' = [call EXCEPT ![c] = r]
  BY DEF Becomes
<1>2. r.op \in Ops /\ IsCall(r)
  BY DEF Shapes, IsCall, Op
<1>3. Only(c) /\ call'[c] = r
  <2> HIDE DEF r
  <2>1. QED
    BY <1>1, <1>2, OneCall DEF Only, Unbroken
<1>4. QED
  BY <1>3 DEF Op

LEMMA CallReturns ==
  ASSUME Shapes, Unbroken, NEW c \in Calls, Returns(c)
  PROVE  Only(c) /\ call'[c] = Idle
<1>1. IsCall(Idle) /\ Idle.op \in Ops
  BY DEF IsCall, Idle, Ops
<1>2. QED
  BY <1>1, OneCall DEF Only, Unbroken, Returns

\* A new call, and the steps before the chain.
LEMMA BeforeChain ==
  ASSUME FilesInv, NEW c \in Calls, Call(c) \/ Open(c) \/ List(c) \/ Sidecar(c) \/ Enqueue(c)
  PROVE  FilesInv' /\ Only(c)
<1>1. UNCHANGED <<work, committed>> /\ Shapes
  BY DEF Call, Begins, Open, List, Sidecar, Enqueue, FilesInv
<1>2. chain' \in Seq(Calls) /\ (chain # <<>> => chain' # <<>> /\ Head(chain') = Head(chain))
  <2>1. chain' = chain \/ chain' = Append(chain, c)
    BY DEF Call, Begins, Open, List, Sidecar, Enqueue
  <2>2. Append(chain, c) \in Seq(Calls) /\ Append(chain, c) # <<>>
    BY <1>1 DEF Shapes
  <2>3. chain # <<>> => Head(Append(chain, c)) = Head(chain)
    BY <1>1 DEF Shapes
  <2>4. QED
    BY <1>1, <2>1, <2>2, <2>3 DEF Shapes
<1>3. Unbroken
  BY <1>1, <1>2 DEF Unbroken, Shapes
<1>4. call[c].stage \notin Past
  BY DEF Call, Begins, Open, List, Sidecar, Enqueue, At, Past
<1>5. Only(c) /\ call'[c].stage \notin Past
  <2>1. CASE Call(c)
    <3>1. \E op \in Ops : \E arg, id, what :
            call' = [call EXCEPT ![c] = [stage |-> "opening", op |-> op, arg |-> arg, id |-> id,
                                         what |-> what, before |-> NoSnapshot]]
      BY <2>1 DEF Call, Begins, Ops
    <3>2. PICK op \in Ops : \E arg, id, what :
            call' = [call EXCEPT ![c] = [stage |-> "opening", op |-> op, arg |-> arg, id |-> id,
                                         what |-> what, before |-> NoSnapshot]]
      BY <3>1
    <3>6. PICK arg, id, what :
            call' = [call EXCEPT ![c] = [stage |-> "opening", op |-> op, arg |-> arg, id |-> id,
                                         what |-> what, before |-> NoSnapshot]]
      BY <3>2
    <3> DEFINE r == [stage |-> "opening", op |-> op, arg |-> arg, id |-> id,
                     what |-> what, before |-> NoSnapshot]
    <3>3. IsCall(r) /\ r.op \in Ops /\ r.stage \notin Past
      BY DEF IsCall, Past
    <3>4. call' = [call EXCEPT ![c] = r]
      BY <3>6
    <3> HIDE DEF r
    <3>5. QED
      BY <1>1, <1>3, <3>3, <3>4, OneCall DEF Only, Unbroken
  <2>2. CASE Returns(c)
    BY <1>1, <1>3, <2>2, CallReturns DEF Past, Idle
  <2>3. ASSUME NEW s, NEW i, NEW w, NEW b, Becomes(c, s, i, w, b), s \notin Past
        PROVE  Only(c) /\ call'[c].stage \notin Past
    BY <1>1, <1>3, <2>3, CallChanges
  <2>4. CASE Open(c)
    BY <2>3, <2>4 DEF Open, Moves, Past
  <2>5. CASE List(c)
    BY <2>2, <2>3, <2>5 DEF List, Gets, Past
  <2>6. CASE Sidecar(c)
    BY <2>2, <2>3, <2>6 DEF Sidecar, Gets, Past
  <2>7. CASE Enqueue(c)
    BY <2>3, <2>7 DEF Enqueue, Moves, Past
  <2>8. QED
    BY <2>1, <2>4, <2>5, <2>6, <2>7
<1>6. FilesInv'
  BY <1>1, <1>2, <1>4, <1>5, OthersMove DEF Only
<1>7. QED
  BY <1>5, <1>6

\* The first call of the chain leaves it: then no call is past its turn.
LEMMA LeavesChain ==
  ASSUME FilesInv, NEW c \in Calls, chain # <<>>, Head(chain) = c, Leaves(c),
         work' = [f \in Files |-> work'[f]], committed' = [f \in Files |-> committed'[f]],
         \A f \in Files : Agrees(f)'
  PROVE  FilesInv' /\ Only(c) /\ call'[c] = Idle
<1>1. Unbroken
  BY DEF Unbroken, Leaves, FilesInv, Shapes
<1>2. Only(c) /\ call'[c] = Idle
  BY <1>1, CallReturns DEF Leaves, FilesInv
<1>3. ASSUME NEW d \in Calls PROVE call'[d].stage \notin Past
  <2>1. CASE d = c
    BY <1>2, <2>1 DEF Idle, Past
  <2>2. CASE d # c
    BY <1>2, <2>2 DEF FilesInv, FirstInChain, Only, Past
  <2>3. QED
    BY <2>1, <2>2
<1>4. FirstInChain' /\ Halves'
  BY <1>3 DEF FirstInChain, Halves, HalfDone, Agrees, Fits, Past
<1>5. QED
  BY <1>2, <1>4 DEF FilesInv, Only

\* Before the first of the chain has had its turn nothing is half done.
LEMMA WholeBefore ==
  ASSUME FilesInv, NEW c \in Calls, chain # <<>>, Head(chain) = c, ~HalfDone(c)
  PROVE  \A f \in Files : Agrees(f)
BY DEF FilesInv, FirstInChain, Halves, HalfDone

LEMMA FileIsFile ==
  ASSUME NEW c
  PROVE  File(c) \in Files
BY DEF File, FileOf, Files

LEMMA InChain ==
  ASSUME FilesInv, CleanFailures, NEW c \in Calls, Rewrite(c) \/ Commit(c) \/ Undo(c) \/ Report(c)
  PROVE  FilesInv' /\ Only(c)
<1>1. chain # <<>> /\ Head(chain) = c /\ Shapes
  BY DEF Rewrite, Commit, Undo, Report, Turn, FilesInv
<1>2. CASE Rewrite(c)
  <2>1. \A f \in Files : Agrees(f)
    BY <1>1, <1>2, WholeBefore DEF Rewrite, Turn, At, HalfDone
  <2>2. CASE Leaves(c) /\ UNCHANGED work
    <3>1. UNCHANGED committed
      BY <1>2 DEF Rewrite
    <3>2. QED
      BY <1>1, <2>1, <2>2, <3>1, LeavesChain DEF Shapes, Agrees, Fits
  <2>3. ASSUME NEW before \in Reads(File(c)),
               /\ Becomes(c, "commit", call[c].id, call[c].what, before)
               /\ work' = [work EXCEPT ![File(c)] = call[c].what]
               /\ UNCHANGED chain
        PROVE  FilesInv' /\ Only(c)
    <3>1. UNCHANGED committed
      BY <1>2 DEF Rewrite
    <3>2. Unbroken
      BY <1>1, <2>3, <3>1 DEF Unbroken, Shapes
    <3>3. /\ Only(c) /\ call'[c].stage = "commit" /\ Op(c)' = Op(c)
          /\ call'[c].what = call[c].what /\ call'[c].before = before
      BY <1>1, <2>3, <3>2, CallChanges
    <3>4. File(c)' = File(c) /\ File(c) \in Files
      BY <3>3, FileIsFile DEF File
    <3>5. /\ work'[File(c)] = call[c].what
          /\ \A f \in Files : f # File(c) => work'[f] = work[f]
      BY <1>1, <2>3, <3>4 DEF Shapes
    <3>6. \A d \in Calls : d # c => call'[d].stage \notin Past
      BY <1>1, <3>3 DEF FilesInv, FirstInChain, Only, Past
    <3>7. FirstInChain'
      BY <1>1, <2>3, <3>6 DEF FirstInChain, Past
    <3>8. Halves'
      <4>1. \A d \in Calls : HalfDone(d)' <=> d = c
        BY <3>3, <3>6 DEF HalfDone, Past
      <4>2. Fits(File(c), call[c].before)'
        BY <2>1, <2>3, <3>1, <3>3, <3>4 DEF Agrees, Fits, Reads
      <4>3. \A f \in Files : f # File(c)' => Agrees(f)'
        BY <2>1, <3>1, <3>4, <3>5 DEF Agrees, Fits
      <4>4. work'[File(c)'] = call'[c].what
        BY <3>3, <3>4, <3>5
      <4>5. QED
        BY <4>1, <4>2, <4>3, <4>4 DEF Halves
    <3>9. QED
      BY <3>3, <3>7, <3>8 DEF FilesInv, Only
  <2>4. QED
    BY <1>2, <2>2, <2>3 DEF Rewrite
<1>3. CASE Commit(c)
  <2>1. call[c].stage = "commit" /\ UNCHANGED <<work, chain>>
    BY <1>3 DEF Commit, Turn, At
  <2>2. \/ Records(c) /\ Moves(c, "report")
        \/ Moves(c, "undo") /\ UNCHANGED committed
    BY <1>3 DEF Commit, CleanFailures, May
  <2>3. committed' = [f \in Files |-> committed'[f]]
    BY <1>1, <2>2 DEF Records, Shapes
  <2>4. Unbroken
    BY <1>1, <2>1, <2>3 DEF Unbroken, Shapes
  <2>5. PICK s \in {"report", "undo"} : Becomes(c, s, call[c].id, call[c].what, call[c].before)
    BY <2>2 DEF Moves
  <2>6. Only(c) /\ call'[c].stage = s /\ Op(c)' = Op(c) /\ call'[c].before = call[c].before
    BY <1>1, <2>4, <2>5, CallChanges
  <2>7. File(c)' = File(c) /\ File(c) \in Files
    BY <2>6, FileIsFile DEF File
  <2>8. \A d \in Calls : d # c => call'[d].stage \notin Past
    BY <1>1, <2>6 DEF FilesInv, FirstInChain, Only, Past
  <2>9. FirstInChain'
    BY <1>1, <2>1, <2>8 DEF FirstInChain, Past
  <2>10. /\ Fits(File(c), call[c].before)
         /\ \A f \in Files : f # File(c) => Agrees(f)
    BY <2>1 DEF FilesInv, Halves, HalfDone
  <2>11. CASE Records(c) /\ Moves(c, "report")
    <3>1. call'[c].stage = "report"
      BY <1>1, <2>4, <2>11, CallChanges DEF Moves
    <3>2. \A d \in Calls : ~HalfDone(d)'
      BY <2>8, <3>1 DEF HalfDone, Past
    <3>3. \A f \in Files : Agrees(f)'
      BY <1>1, <2>1, <2>7, <2>10, <2>11 DEF Records, Agrees, Fits, Shapes
    <3>4. QED
      BY <2>6, <2>9, <3>2, <3>3 DEF FilesInv, Halves, Only
  <2>12. CASE Moves(c, "undo") /\ UNCHANGED committed
    <3>1. call'[c].stage = "undo"
      BY <1>1, <2>4, <2>12, CallChanges DEF Moves
    <3>2. \A d \in Calls : HalfDone(d)' <=> d = c
      BY <2>8, <3>1 DEF HalfDone, Past
    <3>3. Halves'
      BY <2>1, <2>6, <2>7, <2>10, <2>12, <3>1, <3>2 DEF Halves, Agrees, Fits, At
    <3>4. QED
      BY <2>6, <2>9, <3>3 DEF FilesInv, Only
  <2>13. QED
    BY <2>2, <2>11, <2>12
<1>4. CASE Undo(c)
  <2>1. /\ Leaves(c) /\ UNCHANGED committed
        /\ work' = [work EXCEPT ![File(c)] = call[c].before]
    BY <1>4 DEF Undo, CleanFailures, May
  <2>2. /\ Fits(File(c), call[c].before)
        /\ \A f \in Files : f # File(c) => Agrees(f)
    BY <1>4 DEF Undo, Turn, At, FilesInv, Halves, HalfDone
  <2>3. \A f \in Files : Agrees(f)'
    BY <1>1, <2>1, <2>2, FileIsFile DEF Agrees, Fits, Shapes
  <2>4. work' = [f \in Files |-> work'[f]]
    BY <1>1, <2>1 DEF Shapes
  <2>5. QED
    BY <1>1, <2>1, <2>3, <2>4, LeavesChain DEF Shapes
<1>5. CASE Report(c)
  <2>1. \A f \in Files : Agrees(f)
    BY <1>1, <1>5, WholeBefore DEF Report, Turn, At, HalfDone
  <2>2. QED
    BY <1>1, <1>5, <2>1, LeavesChain DEF Report, Shapes, Agrees, Fits
<1>6. QED
  BY <1>2, <1>3, <1>4, <1>5

\* The outcome of the opening, and a death of the program.
LEMMA AllCalls ==
  ASSUME FilesInv, CleanFailures, Initialized \/ Crash \/ UNCHANGED vars
  PROVE  /\ FilesInv' /\ UNCHANGED <<work, committed, log>>
         /\ \A c \in Calls : call'[c] = call[c] \/ call'[c] = Idle
<1>1. UNCHANGED <<work, committed, log>>
  BY DEF Initialized, Crash, vars
<1>2. /\ call' = [c \in Calls |-> call'[c]]
      /\ \A c \in Calls : call'[c] = call[c] \/ call'[c] = Idle
  BY DEF Initialized, Crash, vars, FilesInv, Shapes
<1>3. IsCall(Idle) /\ Idle.op \in Ops
  BY DEF IsCall, Idle, Ops
<1>4. chain' \in Seq(Calls)
  <2>1. chain' = chain \/ chain' = <<>>
    BY DEF Initialized, Crash, vars
  <2>2. <<>> \in Seq(Calls)
    OBVIOUS
  <2>3. QED
    BY <2>1, <2>2 DEF FilesInv, Shapes
<1>5. Shapes'
  BY <1>1, <1>2, <1>3, <1>4 DEF FilesInv, Shapes, Op
<1>6. CASE Crash
  <2>1. \A c \in Calls : ~HalfDone(c)
    BY <1>6 DEF Crash, CleanFailures, May, At, HalfDone
  <2>2. \A c \in Calls : call'[c].stage = "idle"
    BY <1>6 DEF Crash, Idle
  <2>3. FirstInChain' /\ Halves'
    BY <1>1, <2>1, <2>2 DEF FilesInv, FirstInChain, Halves, HalfDone, Agrees, Fits
  <2>4. QED
    BY <1>1, <1>2, <1>5, <2>3 DEF FilesInv
<1>7. CASE Initialized \/ UNCHANGED vars
  <2>1. UNCHANGED chain
    BY <1>7 DEF Initialized, vars
  <2>2. \A c \in Calls : call'[c] = call[c] \/ (call[c].stage \notin Past /\ call'[c].stage \notin Past)
    BY <1>7 DEF Initialized, vars, At, Idle, Past, FilesInv, Shapes
  <2>3. QED
    BY <1>1, <1>2, <1>5, <2>1, <2>2, OthersMove
<1>8. QED
  BY <1>6, <1>7

LEMMA FilesInvHolds == CleanFailures => (Spec => []FilesInv)
<1> SUFFICES ASSUME CleanFailures PROVE Spec => []FilesInv
  OBVIOUS
<1>1. Init => FilesInv
  <2>1. IsCall(Idle) /\ Idle.op \in Ops /\ Idle.stage = "idle"
    BY DEF IsCall, Idle, Ops
  <2>2. QED
    BY <2>1 DEF Init, FilesInv, Shapes, FirstInChain, Halves, HalfDone, Agrees, Fits, Empty, Op
<1>2. FilesInv /\ [Next]_vars => FilesInv'
  BY BeforeChain, InChain, AllCalls DEF Next, Step
<1>3. QED
  BY <1>1, <1>2, PTL DEF Spec

\* When no write is half done the files are what was last committed, unless Git
\* dies after its commit, a file cannot be put back, or the program dies between
\* a file and its commit.
THEOREM FilesAreCommitted == CleanFailures => (Spec => []WorkingIsCommitted)
<1> SUFFICES ASSUME CleanFailures PROVE Spec => []WorkingIsCommitted
  OBVIOUS
<1>1. FilesInv => WorkingIsCommitted
  BY DEF FilesInv, Halves, HalfDone, Agrees, Fits, Shapes, WorkingIsCommitted, At
<1>2. QED
  BY <1>1, FilesInvHolds, PTL

-----------------------------------------------------------------------------
(***************************************************************************)
(* The second invariant: what a call is about to commit is still the       *)
(* change that the journal makes in one step.  It was put together from    *)
(* what was committed then, and nobody has committed to that file since.   *)
(***************************************************************************)
\* Users wait for labels and retention, and the sidecars are never cut.
Careful == CleanFailures /\ "readSidecar" \notin Faults /\ Serial /\ MaxIds >= MaxCalls

Committing(c) == call[c].stage \in {"ready", "queued", "commit"}

LogTypes ==
  /\ log \in Seq([kind : Journal!Kinds, snapshot : Snapshots \cup {NoSnapshot}])
  /\ committed["snapshot"] = Journal!Current(log)
  /\ committed["labels"] \in [Ids -> Labels \cup {NoLabel}]
  /\ committed["pruned"] \subseteq Ids

OneAdministers == \A c, d \in Calls : Administers(c) /\ Administers(d) => c = d

\* The call carries what it was asked for.
AskedFor(c) ==
  call[c].stage # "idle" =>
    /\ Op(c) \in {"append", "force"} => call[c].what \in Snapshots
    /\ Op(c) = "restore" => call[c].id \in Revisions
    /\ Op(c) = "label" => call[c].id \in Revisions /\ call[c].arg \in Labels \cup {NoLabel}
    /\ Op(c) = "prune" => call[c].arg \in Keeps
    /\ At(c, "sidecar") =>
         /\ Op(c) \in {"label", "prune"}
         /\ Op(c) = "prune" => call[c].id \in Nat /\ call[c].id <= Len(log)

\* What it commits is a step of the journal.
Hides(new, keep) ==
  /\ new \subseteq Ids
  /\ \E some \in SUBSET Journal!Older(log, committed["pruned"], keep) : new = committed["pruned"] \cup some

Prepared(c) ==
  Committing(c) =>
    /\ Op(c) = "restore" => call[c].what \in Snapshots
    /\ Op(c) = "label" => call[c].what = [committed["labels"] EXCEPT ![call[c].id] = call[c].arg]
    /\ Op(c) = "prune" => Hides(call[c].what, call[c].arg)

Good(c) == AskedFor(c) /\ Prepared(c)

JournalInv == LogTypes /\ OneAdministers /\ \A c \in Calls : Good(c)

LEMMA IdleIsGood ==
  ASSUME NEW c, call'[c] = Idle
  PROVE  Good(c)' /\ ~Administers(c)'
BY DEF Good, AskedFor, Prepared, Committing, Administers, Idle

LEMMA UnmovedIsGood ==
  ASSUME NEW c, Good(c), call'[c] = call[c], UNCHANGED <<committed, log>>
  PROVE  Good(c)'
BY DEF Good, AskedFor, Prepared, Committing, Hides, Op, At, Revisions

\* A call has moved, and nothing was committed.
LEMMA OneMoved ==
  ASSUME JournalInv, UNCHANGED <<committed, log>>, NEW c \in Calls, Only(c), Good(c)',
         Administers(c)' => Administers(c) \/ \A d \in Calls : ~Administers(d)
  PROVE  JournalInv'
<1>1. \A d \in Calls : d # c => Good(d)' /\ (Administers(d)' <=> Administers(d))
  BY UnmovedIsGood DEF JournalInv, Only, Administers, Op
<1>2. OneAdministers'
  BY <1>1 DEF JournalInv, OneAdministers
<1>3. QED
  BY <1>1, <1>2 DEF JournalInv, LogTypes

-----------------------------------------------------------------------------
(***************************************************************************)
(* Sets of revisions.                                                      *)
(***************************************************************************)
LEMMA IdsAreFinite == IsFiniteSet(Ids) /\ Cardinality(Ids) = MaxCalls
BY FS_Interval DEF Ids

\* A sidecar that may have every revision is never cut.
LEMMA WrittenWhole ==
  ASSUME NEW S, S \subseteq Ids, MaxIds >= MaxCalls
  PROVE  Written(S) = S
<1>1. IsFiniteSet(S) /\ Cardinality(S) <= MaxCalls /\ Cardinality(S) \in Nat
  BY IdsAreFinite, FS_Subset, FS_CardinalityType
<1>2. QED
  BY <1>1 DEF Written

\* The journal counts as the store does.
LEMMA SameCount ==
  ASSUME NEW S
  PROVE  Journal!Cardinality(S) = Cardinality(S)
BY DEF Journal!Cardinality, Cardinality

Newer(S, i) == {j \in S : j > i}
OldIn(S, keep) == {i \in S : Cardinality(Newer(S, i)) >= keep}

\* Retention counts newer states: with more of them no fewer may be hidden.
LEMMA MoreAreOld ==
  ASSUME NEW S, NEW T, IsFiniteSet(T), S \subseteq T, NEW keep \in Nat
  PROVE  OldIn(S, keep) \subseteq OldIn(T, keep)
<1>1. ASSUME NEW i \in S
      PROVE  Cardinality(Newer(S, i)) >= keep => Cardinality(Newer(T, i)) >= keep
  <2>1. IsFiniteSet(Newer(T, i)) /\ Newer(S, i) \subseteq Newer(T, i)
    BY FS_Subset DEF Newer
  <2>2. /\ Cardinality(Newer(S, i)) <= Cardinality(Newer(T, i))
        /\ Cardinality(Newer(S, i)) \in Nat /\ Cardinality(Newer(T, i)) \in Nat
    BY <2>1, FS_Subset, FS_CardinalityType
  <2>3. QED
    BY <2>2
<1>2. QED
  BY <1>1 DEF OldIn

\* The states of the first n commits that are not hidden.
Shown(some, n, hidden) == {i \in 1..n : some[i].kind = "state" /\ i \notin hidden}

LEMMA ShownIsFinite ==
  ASSUME NEW some, NEW n \in Nat, NEW hidden
  PROVE  IsFiniteSet(Shown(some, n, hidden))
<1>1. IsFiniteSet(1..n)
  BY FS_Interval
<1>2. QED
  BY <1>1, FS_Subset DEF Shown

LEMMA OlderIsOld ==
  ASSUME NEW some, NEW hidden, NEW keep
  PROVE  Journal!Older(some, hidden, keep) = OldIn(Shown(some, Len(some), hidden), keep)
BY SameCount DEF Journal!Older, Shown, OldIn, Newer

\* What was a candidate when the log was listed is old enough now.
LEMMA CandidatesAreOlder ==
  ASSUME LogTypes, NEW n \in Nat, n <= Len(log), NEW hidden, NEW keep \in Keeps
  PROVE  Candidates(n, hidden, keep) \subseteq Journal!Older(log, hidden, keep)
<1> DEFINE S == {i \in Ids : i <= n /\ log[i].kind = "state" /\ i \notin hidden}
<1>1. Len(log) \in Nat /\ keep \in Nat
  BY DEF LogTypes
<1>2. S \subseteq Shown(log, Len(log), hidden)
  BY <1>1 DEF Shown, Ids
<1>3. Candidates(n, hidden, keep) = OldIn(S, keep)
  BY DEF Candidates, OldIn, Newer
<1>4. QED
  <2> HIDE DEF S
  <2>1. QED
    BY <1>1, <1>2, <1>3, ShownIsFinite, MoreAreOld, OlderIsOld

\* A log that has grown leaves what was old enough old enough.
LEMMA OlderStays ==
  ASSUME LogTypes, NEW r, NEW hidden, NEW keep \in Keeps
  PROVE  Journal!Older(log, hidden, keep) \subseteq Journal!Older(Append(log, r), hidden, keep)
<1> DEFINE more == Append(log, r)
<1>1. Len(log) \in Nat /\ Len(more) = Len(log) + 1 /\ \A i \in 1..Len(log) : more[i] = log[i]
  BY DEF LogTypes
<1>2. Shown(log, Len(log), hidden) \subseteq Shown(more, Len(more), hidden) /\ keep \in Nat /\ Len(more) \in Nat
  <2> HIDE DEF more
  <2>1. QED
    BY <1>1 DEF Shown
<1>3. QED
  <2> HIDE DEF more
  <2>1. Journal!Older(log, hidden, keep) \subseteq Journal!Older(more, hidden, keep)
    BY <1>1, <1>2, ShownIsFinite, MoreAreOld, OlderIsOld
  <2>2. QED
    BY <2>1 DEF more

-----------------------------------------------------------------------------
(***************************************************************************)
(* The steps before the chain keep the second invariant.                   *)
(***************************************************************************)
\* While a sidecar is read nobody is about to change it.
LEMMA SidecarIsCommitted ==
  ASSUME FilesInv, OneAdministers, NEW c \in Calls, At(c, "sidecar"), Op(c) \in {"label", "prune"}
  PROVE  Agrees("labels") /\ Agrees("pruned")
<1>1. ASSUME NEW d \in Calls, HalfDone(d)
      PROVE  File(d) \notin {"labels", "pruned"}
  <2>1. d # c
    BY <1>1 DEF At, HalfDone
  <2>2. Op(d) \notin {"label", "prune"}
    BY <1>1, <2>1 DEF OneAdministers, Administers, At, HalfDone
  <2>3. QED
    BY <2>2 DEF File, FileOf
<1>2. QED
  BY <1>1 DEF FilesInv, Halves, Files

LEMMA CallIsGood ==
  ASSUME FilesInv, JournalInv, Serial, NEW c \in Calls, Call(c)
  PROVE  JournalInv'
<1>1. UNCHANGED <<committed, log>> /\ Only(c)
  BY BeforeChain DEF Call, Begins
<1>2. Op(c)' \in {"label", "prune"} => \A d \in Calls : ~Administers(d)
  BY DEF Call, Begins, Op, FilesInv, Shapes
<1>3. /\ call'[c].stage = "opening"
      /\ Op(c)' \in {"append", "force"} => call'[c].what \in Snapshots
      /\ Op(c)' = "restore" => call'[c].id \in Revisions
      /\ Op(c)' = "label" => call'[c].id \in Revisions /\ call'[c].arg \in Labels \cup {NoLabel}
      /\ Op(c)' = "prune" => call'[c].arg \in Keeps
  BY DEF Call, Begins, Op, FilesInv, Shapes
<1>4. Good(c)'
  BY <1>1, <1>3 DEF Good, AskedFor, Prepared, Committing, Revisions, At
<1>5. QED
  BY <1>1, <1>2, <1>4, OneMoved DEF Administers

LEMMA OpenIsGood ==
  ASSUME FilesInv, JournalInv, NEW c \in Calls, Open(c)
  PROVE  Good(c)'
<1>1. UNCHANGED <<committed, log>> /\ Only(c) /\ Shapes /\ Good(c) /\ call[c].stage = "opening"
  BY BeforeChain DEF Open, At, FilesInv, JournalInv
<1>2. PICK s \in {"list", "ready"} :
        /\ Becomes(c, s, call[c].id, call[c].what, call[c].before)
        /\ s = "ready" => Op(c) \notin {"restore", "label", "prune"}
  BY DEF Open, Moves
<1>3. Unbroken
  BY <1>1 DEF Open, Unbroken, Shapes
<1>4. /\ call'[c].stage = s /\ Op(c)' = Op(c) /\ call'[c].arg = call[c].arg
      /\ call'[c].id = call[c].id /\ call'[c].what = call[c].what
  BY <1>1, <1>2, <1>3, CallChanges
<1>5. AskedFor(c)'
  BY <1>1, <1>4 DEF Good, AskedFor, Revisions, At
<1>6. Prepared(c)'
  BY <1>2, <1>4 DEF Prepared, Committing
<1>7. QED
  BY <1>5, <1>6 DEF Good

LEMMA ListIsGood ==
  ASSUME FilesInv, JournalInv, NEW c \in Calls, List(c)
  PROVE  Good(c)'
<1>1. /\ UNCHANGED <<committed, log>> /\ Only(c) /\ Shapes /\ Good(c) /\ call[c].stage = "list"
      /\ Len(log) \in Nat
  BY BeforeChain DEF List, At, FilesInv, JournalInv, LogTypes
<1>2. Unbroken
  BY <1>1 DEF List, Unbroken, Shapes
<1>3. CASE Returns(c)
  BY <1>1, <1>2, <1>3, CallReturns, IdleIsGood
<1>4. CASE /\ Op(c) = "restore" /\ log[call[c].id].snapshot # NoSnapshot
           /\ Gets(c, log[call[c].id].snapshot)
  <2>1. call[c].id \in Revisions
    BY <1>1, <1>4 DEF Good, AskedFor
  <2>2. log[call[c].id] \in [kind : Journal!Kinds, snapshot : Snapshots \cup {NoSnapshot}]
    <3> DEFINE R == [kind : Journal!Kinds, snapshot : Snapshots \cup {NoSnapshot}]
    <3>1. call[c].id \in 1..Len(log)
      BY <1>1, <2>1 DEF Revisions, Ids
    <3>2. log \in Seq(R)
      BY DEF JournalInv, LogTypes
    <3>3. QED
      <4> HIDE DEF R
      <4>1. log[call[c].id] \in R
        BY <3>1, <3>2
      <4>2. QED
        BY <4>1 DEF R
  <2>3. log[call[c].id].snapshot \in Snapshots
    BY <1>4, <2>2
  <2>4. /\ call'[c].stage = "ready" /\ Op(c)' = "restore" /\ call'[c].id = call[c].id
        /\ call'[c].what = log[call[c].id].snapshot
    BY <1>1, <1>2, <1>4, CallChanges DEF Gets
  <2>5. AskedFor(c)'
    BY <1>1, <2>1, <2>4 DEF AskedFor, Revisions, At
  <2>6. Prepared(c)'
    BY <2>3, <2>4 DEF Prepared
  <2>7. QED
    BY <2>5, <2>6 DEF Good
<1>5. CASE /\ Op(c) \in {"label", "prune"}
           /\ Becomes(c, "sidecar", IF Op(c) = "prune" THEN Len(log) ELSE call[c].id,
                      call[c].what, call[c].before)
  <2>1. /\ call'[c].stage = "sidecar" /\ Op(c)' = Op(c) /\ call'[c].arg = call[c].arg
        /\ call'[c].id = IF Op(c) = "prune" THEN Len(log) ELSE call[c].id
    BY <1>1, <1>2, <1>5, CallChanges
  <2>2. AskedFor(c)'
    BY <1>1, <1>5, <2>1 DEF Good, AskedFor, Revisions, At
  <2>3. Prepared(c)'
    BY <2>1 DEF Prepared, Committing
  <2>4. QED
    BY <2>2, <2>3 DEF Good
<1>6. QED
  BY <1>3, <1>4, <1>5 DEF List

LEMMA SidecarIsGood ==
  ASSUME FilesInv, JournalInv, Careful, NEW c \in Calls, Sidecar(c)
  PROVE  Good(c)'
<1>1. /\ UNCHANGED <<committed, log>> /\ Only(c) /\ Shapes /\ Good(c) /\ call[c].stage = "sidecar"
      /\ LogTypes /\ Op(c) \in {"label", "prune"}
  BY BeforeChain DEF Sidecar, At, FilesInv, JournalInv, Good, AskedFor
<1>2. Unbroken
  BY <1>1 DEF Sidecar, Unbroken, Shapes
<1>3. work["labels"] = committed["labels"] /\ work["pruned"] = committed["pruned"]
  BY <1>1, SidecarIsCommitted DEF At, JournalInv, Agrees, Fits, Careful, MayMisread, May
<1>4. MaxIds >= MaxCalls
  BY DEF Careful
<1> DEFINE old == Candidates(call[c].id, work["pruned"], call[c].arg)
<1>5. ASSUME NEW new, Gets(c, new),
             Op(c) = "label" => new = [committed["labels"] EXCEPT ![call[c].id] = call[c].arg],
             Op(c) = "prune" => Hides(new, call[c].arg)
      PROVE  Good(c)'
  <2>1. /\ call'[c].stage = "ready" /\ Op(c)' = Op(c) /\ call'[c].arg = call[c].arg
        /\ call'[c].id = call[c].id /\ call'[c].what = new
    BY <1>1, <1>2, <1>5, CallChanges DEF Gets
  <2>2. AskedFor(c)'
    BY <1>1, <2>1 DEF Good, AskedFor, Revisions, At
  <2>3. Prepared(c)'
    BY <1>1, <1>5, <2>1 DEF Prepared, Hides
  <2>4. QED
    BY <2>2, <2>3 DEF Good
<1>6. CASE Op(c) = "label"
  <2> DEFINE new == [work["labels"] EXCEPT ![call[c].id] = call[c].arg]
             set == {i \in Ids : new[i] # NoLabel}
  <2>1. new = [i \in Ids |-> new[i]]
    BY <1>1, <1>3 DEF LogTypes
  <2>2. Written(set) = set
    BY <1>4, WrittenWhole
  <2>3. Relabeled(c) = [i \in Ids |-> IF i \in set THEN new[i] ELSE NoLabel]
    BY <2>2 DEF Relabeled
  <2>4. Relabeled(c) = new
    <3> HIDE DEF new
    <3>1. QED
      BY <2>1, <2>3
  <2>5. Gets(c, Relabeled(c))
    BY <1>6 DEF Sidecar
  <2>6. Relabeled(c) = [committed["labels"] EXCEPT ![call[c].id] = call[c].arg]
    BY <1>3, <2>4
  <2>7. QED
    BY <1>5, <1>6, <2>5, <2>6
<1>7. CASE Op(c) = "prune" /\ old # {}
  <2>1. Gets(c, Written(work["pruned"] \cup old))
    BY <1>7 DEF Sidecar
  <2>2. old \subseteq Ids /\ work["pruned"] \subseteq Ids
    BY <1>1, <1>3 DEF Candidates, LogTypes
  <2>3. Written(work["pruned"] \cup old) = committed["pruned"] \cup old
    <3> HIDE DEF old
    <3>1. QED
      BY <1>3, <1>4, <2>2, WrittenWhole
  <2>4. old \subseteq Journal!Older(log, committed["pruned"], call[c].arg)
    <3>1. call[c].id \in Nat /\ call[c].id <= Len(log) /\ call[c].arg \in Keeps
      BY <1>1, <1>7 DEF Good, AskedFor, At
    <3>2. QED
      BY <1>1, <1>3, <3>1, CandidatesAreOlder
  <2>5. Hides(committed["pruned"] \cup old, call[c].arg)
    <3> HIDE DEF old
    <3>1. QED
      BY <1>3, <2>2, <2>4 DEF Hides
  <2>6. QED
    <3> HIDE DEF old
    <3>1. QED
      BY <1>5, <1>7, <2>1, <2>3, <2>5
<1>8. CASE Op(c) = "prune" /\ old = {}
  <2>1. Returns(c)
    BY <1>8 DEF Sidecar
  <2>2. QED
    BY <1>1, <1>2, <2>1, CallReturns, IdleIsGood
<1>9. QED
  BY <1>1, <1>6, <1>7, <1>8

LEMMA BeforeChainKeepsJournal ==
  ASSUME FilesInv, JournalInv, Careful, NEW c \in Calls,
         Call(c) \/ Open(c) \/ List(c) \/ Sidecar(c) \/ Enqueue(c)
  PROVE  JournalInv' /\ UNCHANGED <<committed, log>>
<1>1. UNCHANGED <<committed, log>> /\ Only(c) /\ Shapes /\ Good(c)
  BY BeforeChain DEF Call, Begins, Open, List, Sidecar, Enqueue, FilesInv, JournalInv
<1>2. CASE Call(c)
  BY <1>1, <1>2, CallIsGood DEF Careful
<1>3. CASE ~Call(c)
  <2>1. Unbroken
    BY <1>1, <1>3, BeforeChain DEF Open, List, Sidecar, Enqueue, Unbroken, FilesInv, Shapes
  <2>2. call[c].stage # "idle"
    BY <1>3 DEF Open, List, Sidecar, Enqueue, At
  <2>3. ASSUME Enqueue(c)
        PROVE  Good(c)'
    <3>1. /\ call[c].stage = "ready" /\ call'[c].stage = "queued" /\ Op(c)' = Op(c)
          /\ call'[c].arg = call[c].arg /\ call'[c].id = call[c].id /\ call'[c].what = call[c].what
      BY <1>1, <2>1, <2>3, CallChanges DEF Enqueue, At, Moves
    <3>2. AskedFor(c)'
      BY <1>1, <3>1 DEF Good, AskedFor, Revisions, At
    <3>3. Prepared(c)'
      BY <1>1, <3>1 DEF Good, Prepared, Committing, Hides
    <3>4. QED
      BY <3>2, <3>3 DEF Good
  <2>4. Good(c)'
    BY <1>3, <2>3, OpenIsGood, ListIsGood, SidecarIsGood
  <2>5. Op(c)' = Op(c) \/ call'[c] = Idle
    <3>1. CASE Returns(c)
      BY <1>1, <2>1, <3>1, CallReturns
    <3>2. ASSUME NEW s, NEW i, NEW w, NEW b, Becomes(c, s, i, w, b)
          PROVE  Op(c)' = Op(c)
      BY <1>1, <2>1, <3>2, CallChanges
    <3>3. QED
      BY <1>3, <3>1, <3>2 DEF Open, List, Sidecar, Enqueue, Moves, Gets
  <2>6. Administers(c)' => Administers(c)
    BY <2>2, <2>5 DEF Administers, Idle
  <2>7. QED
    BY <1>1, <2>4, <2>6, OneMoved
<1>4. QED
  BY <1>1, <1>2, <1>3

-----------------------------------------------------------------------------
(***************************************************************************)
(* The steps of the chain, and the implementation.                         *)
(***************************************************************************)
\* A step of the chain that commits nothing.
LEMMA ChainKeepsJournal ==
  ASSUME FilesInv, JournalInv, CleanFailures, NEW c \in Calls,
         Rewrite(c) \/ Commit(c) \/ Undo(c) \/ Report(c), UNCHANGED <<committed, log>>
  PROVE  JournalInv'
<1>1. Only(c) /\ Shapes /\ Good(c) /\ call[c].stage # "idle"
  BY InChain DEF Rewrite, Commit, Undo, Report, Turn, At, FilesInv, JournalInv
<1>2. Unbroken
  BY <1>1, InChain DEF Unbroken, FilesInv, Shapes
<1>3. ASSUME NEW s, NEW b, Becomes(c, s, call[c].id, call[c].what, b), s # "sidecar",
             s \in {"ready", "queued", "commit"} => Committing(c)
      PROVE  Good(c)' /\ Op(c)' = Op(c)
  <2>1. /\ call'[c].stage = s /\ Op(c)' = Op(c) /\ call'[c].arg = call[c].arg
        /\ call'[c].id = call[c].id /\ call'[c].what = call[c].what
    BY <1>1, <1>2, <1>3, CallChanges
  <2>2. AskedFor(c)'
    BY <1>1, <1>3, <2>1 DEF Good, AskedFor, Revisions, At
  <2>3. Prepared(c)'
    BY <1>1, <1>3, <2>1 DEF Good, Prepared, Committing, Hides
  <2>4. QED
    BY <2>1, <2>2, <2>3 DEF Good
<1>4. CASE Returns(c)
  BY <1>1, <1>2, <1>4, CallReturns, IdleIsGood, OneMoved
<1>5. CASE ~Returns(c)
  <2>1. Good(c)' /\ Op(c)' = Op(c)
    <3>1. CASE Rewrite(c)
      BY <1>3, <1>5, <3>1 DEF Rewrite, Leaves, Turn, At, Committing
    <3>2. CASE Commit(c)
      BY <1>3, <3>2 DEF Commit, Moves
    <3>3. QED
      BY <1>5, <3>1, <3>2 DEF Undo, Report, Leaves
  <2>2. QED
    BY <1>1, <2>1, OneMoved DEF Administers
<1>6. QED
  BY <1>4, <1>5

\* A step of the journal.
Changes ==
  \/ \E s \in Snapshots : Journal!State(s)
  \/ Journal!Named
  \/ \E i \in Ids, l \in Labels \cup {NoLabel} : Journal!Label(i, l)
  \/ \E keep \in Keeps : Journal!Prune(keep)

\* A commit is one of them, the one that was asked for.
LEMMA CommitIsAChange ==
  ASSUME FilesInv, JournalInv, NEW c \in Calls, Turn(c, "commit"), UNCHANGED work, Records(c)
  PROVE  Changes
<1>1. /\ Shapes /\ Good(c) /\ LogTypes /\ call[c].stage = "commit"
      /\ work[File(c)] = call[c].what
  BY DEF FilesInv, JournalInv, Halves, HalfDone, Turn, At
<1>2. /\ AskedFor(c)
      /\ Op(c) = "restore" => call[c].what \in Snapshots
      /\ Op(c) = "label" => call[c].what = [committed["labels"] EXCEPT ![call[c].id] = call[c].arg]
      /\ Op(c) = "prune" => Hides(call[c].what, call[c].arg)
  BY <1>1 DEF Good, Prepared, Committing
<1>3. /\ committed'[File(c)] = call[c].what
      /\ \A f \in Files : f # File(c) => committed'[f] = committed[f]
      /\ log' = Append(log, [kind |-> KindOf(Op(c)), snapshot |-> committed'["snapshot"]])
  BY <1>1, FileIsFile DEF Records, Shapes
<1>4. committed["snapshot"] = Journal!Current(log)
  BY <1>1 DEF LogTypes
<1>5. Op(c) \in Ops
  BY <1>1 DEF Shapes
<1>6. CASE Op(c) \in {"append", "force", "restore"}
  <2>1. File(c) = "snapshot" /\ KindOf(Op(c)) = "state" /\ call[c].what \in Snapshots
    BY <1>1, <1>2, <1>6 DEF File, FileOf, KindOf, AskedFor
  <2>2. Journal!State(call[c].what)
    BY <1>3, <2>1 DEF Journal!State, Journal!Adds, Files
  <2>3. QED
    BY <2>1, <2>2 DEF Changes
<1>7. CASE Op(c) = "name"
  <2>1. File(c) = "name" /\ KindOf(Op(c)) = "named"
    BY <1>7 DEF File, FileOf, KindOf
  <2>2. Journal!Named
    BY <1>3, <1>4, <2>1 DEF Journal!Named, Journal!Adds, Files
  <2>3. QED
    BY <2>2 DEF Changes
<1>8. CASE Op(c) = "label"
  <2>1. /\ File(c) = "labels" /\ KindOf(Op(c)) = "labeled"
        /\ call[c].id \in Revisions /\ call[c].arg \in Labels \cup {NoLabel}
    BY <1>1, <1>2, <1>8 DEF File, FileOf, KindOf, AskedFor
  <2>2. call[c].id \in Ids /\ call[c].id \in 1..Len(log)
    BY <1>1, <2>1 DEF Revisions, Ids, LogTypes
  <2>3. Journal!Label(call[c].id, call[c].arg)
    BY <1>2, <1>3, <1>4, <1>8, <2>1, <2>2 DEF Journal!Label, Journal!Adds, Files
  <2>4. QED
    BY <2>1, <2>2, <2>3 DEF Changes
<1>9. CASE Op(c) = "prune"
  <2>1. File(c) = "pruned" /\ KindOf(Op(c)) = "pruned" /\ call[c].arg \in Keeps
    BY <1>1, <1>2, <1>9 DEF File, FileOf, KindOf, AskedFor
  <2>2. Journal!Prune(call[c].arg)
    BY <1>2, <1>3, <1>4, <1>9, <2>1 DEF Journal!Prune, Journal!Adds, Files, Hides
  <2>3. QED
    BY <2>1, <2>2 DEF Changes
<1>10. QED
  BY <1>5, <1>6, <1>7, <1>8, <1>9 DEF Ops


\* The invariant after a commit.
LEMMA CommitKeepsJournal ==
  ASSUME FilesInv, JournalInv, CleanFailures, NEW c \in Calls, Commit(c), Records(c)
  PROVE  JournalInv'
<1>1. /\ Shapes /\ Shapes' /\ Only(c) /\ Good(c) /\ LogTypes /\ call[c].stage = "commit"
      /\ UNCHANGED work /\ Turn(c, "commit")
  BY InChain DEF Commit, Turn, At, FilesInv, JournalInv
<1>2. Moves(c, "report") /\ Unbroken
  <2>1. log' # log
    BY <1>1 DEF Records, LogTypes
  <2>2. Moves(c, "report")
    BY <2>1 DEF Commit, CleanFailures, May
  <2>3. QED
    BY <1>1, <2>2 DEF Unbroken, Shapes
<1>3. /\ call'[c].stage = "report" /\ Op(c)' = Op(c) /\ call'[c].arg = call[c].arg
      /\ call'[c].id = call[c].id /\ call'[c].what = call[c].what
  BY <1>1, <1>2, CallChanges DEF Moves
<1>4. PICK r : log' = Append(log, r) /\ r = [kind |-> KindOf(Op(c)), snapshot |-> committed'["snapshot"]]
  BY DEF Records
<1>5. Len(log) \in Nat /\ Len(log') = Len(log) + 1
  BY <1>1, <1>4 DEF LogTypes
<1>6. \A d \in Calls : d # c => call'[d] = call[d] /\ (Administers(d)' <=> Administers(d))
  BY <1>1 DEF Only, Administers, Op
<1>7. Administers(c)' => Administers(c)
  BY <1>1, <1>3 DEF Administers
<1>8. OneAdministers'
  BY <1>6, <1>7 DEF JournalInv, OneAdministers
<1>9. ASSUME NEW d \in Calls
      PROVE  AskedFor(d)'
  <2>1. \A i : i \in Revisions => i \in Revisions'
    BY <1>5 DEF Revisions, Ids
  <2>2. AskedFor(d)
    BY DEF JournalInv, Good
  <2>3. CASE d = c
    BY <1>1, <1>3, <2>1, <2>2, <2>3 DEF AskedFor, At
  <2>4. CASE d # c
    <3>1. call'[d] = call[d] /\ Op(d)' = Op(d)
      BY <1>6, <2>4 DEF Op
    <3>2. At(d, "sidecar") /\ Op(d) = "prune" => call[d].id <= Len(log')
      BY <1>5, <2>2 DEF AskedFor, At
    <3>3. QED
      BY <2>1, <2>2, <3>1, <3>2 DEF AskedFor, At
  <2>5. QED
    BY <2>3, <2>4
<1>10. ASSUME NEW d \in Calls
       PROVE  Prepared(d)'
  <2>1. CASE d = c
    BY <1>3, <2>1 DEF Prepared, Committing
  <2>2. CASE d # c
    <3>1. call'[d] = call[d] /\ Op(d)' = Op(d) /\ Prepared(d) /\ AskedFor(d)
      BY <1>6, <2>2 DEF Op, JournalInv, Good
    <3>2. CASE ~Committing(d)
      BY <3>1, <3>2 DEF Prepared, Committing
    <3>3. CASE Committing(d) /\ Op(d) \notin {"label", "prune"}
      BY <3>1, <3>3 DEF Prepared, Committing
    <3>4. CASE Committing(d) /\ Op(d) \in {"label", "prune"}
      <4>1. Op(c) \notin {"label", "prune"}
        BY <1>1, <2>2, <3>4 DEF JournalInv, OneAdministers, Administers, Committing
      <4>2. committed'["labels"] = committed["labels"] /\ committed'["pruned"] = committed["pruned"]
        <5>1. File(c) \notin {"labels", "pruned"}
          BY <4>1 DEF File, FileOf
        <5>2. QED
          BY <1>1, <5>1 DEF Records, Shapes, Files
      <4>3. CASE Op(d) = "label"
        BY <3>1, <3>4, <4>2, <4>3 DEF Prepared, Committing
      <4>4. CASE Op(d) = "prune"
        <5>1. call[d].arg \in Keeps /\ Hides(call[d].what, call[d].arg)
          BY <3>1, <3>4, <4>4 DEF Prepared, AskedFor, Committing
        <5>2. Journal!Older(log, committed["pruned"], call[d].arg)
                \subseteq Journal!Older(log', committed'["pruned"], call[d].arg)
          BY <1>1, <1>4, <4>2, <5>1, OlderStays
        <5>3. PICK some \in SUBSET Journal!Older(log, committed["pruned"], call[d].arg) :
                call[d].what = committed["pruned"] \cup some
          BY <5>1 DEF Hides
        <5>4. some \in SUBSET Journal!Older(log', committed'["pruned"], call[d].arg)
          BY <5>2, <5>3
        <5>5. call[d].what = committed'["pruned"] \cup some
          BY <4>2, <5>3
        <5>6. Hides(call[d].what, call[d].arg)'
          BY <3>1, <5>1, <5>4, <5>5 DEF Hides
        <5>7. QED
          BY <3>1, <4>4, <5>6 DEF Prepared
      <4>5. QED
        BY <3>4, <4>3, <4>4
    <3>5. QED
      BY <3>2, <3>3, <3>4
  <2>3. QED
    BY <2>1, <2>2
<1>11. LogTypes'
  <2> DEFINE R == [kind : Journal!Kinds, snapshot : Snapshots \cup {NoSnapshot}]
             now == committed'["snapshot"]
  <2>1. log \in Seq(R) /\ committed["snapshot"] \in Snapshots \cup {NoSnapshot}
    <3>1. log \in Seq(R) /\ committed["snapshot"] = Journal!Current(log)
      BY <1>1 DEF LogTypes
    <3>2. CASE log = <<>>
      BY <3>1, <3>2 DEF Journal!Current
    <3>3. CASE log # <<>>
      <4>1. log[Len(log)] \in R
        <5> HIDE DEF R
        <5>1. QED
          BY <3>1, <3>3
      <4>2. QED
        BY <3>1, <3>3, <4>1 DEF Journal!Current
    <3>4. QED
      BY <3>1, <3>2, <3>3
  <2>2. Changes
    BY <1>1, CommitIsAChange
  <2>3. /\ log' = Append(log, [kind |-> KindOf(Op(c)), snapshot |-> now])
        /\ KindOf(Op(c)) \in Journal!Kinds
    BY DEF Records, KindOf, Journal!Kinds
  <2>4. now \in Snapshots \cup {NoSnapshot} /\ log' \in Seq(R)
    <3>1. now \in Snapshots \cup {NoSnapshot}
      <4>1. PICK kind \in Journal!Kinds, s \in Snapshots \cup {NoSnapshot} :
              log' = Append(log, [kind |-> kind, snapshot |-> s])
        BY <1>1, <2>1, <2>2 DEF LogTypes, Changes, Journal!State, Journal!Named, Journal!Label, Journal!Prune,
                           Journal!Adds, Journal!Kinds
      <4>2. [kind |-> KindOf(Op(c)), snapshot |-> now] = [kind |-> kind, snapshot |-> s]
        <5> HIDE DEF now, R
        <5>1. QED
          BY <2>1, <2>3, <4>1
      <4>3. QED
        BY <4>2
    <3>2. [kind |-> KindOf(Op(c)), snapshot |-> now] \in R
      BY <2>3, <3>1
    <3>3. QED
      <4> HIDE DEF R, now
      <4>1. QED
        BY <2>1, <2>3, <3>1, <3>2
  <2>5. now = Journal!Current(log')
    <3> HIDE DEF now
    <3>1. log' # <<>> /\ log'[Len(log')] = [kind |-> KindOf(Op(c)), snapshot |-> now]
      <4> HIDE DEF R
      <4>1. QED
        BY <1>5, <2>1, <2>3
    <3>2. QED
      BY <3>1 DEF Journal!Current
  <2>6. committed'["labels"] \in [Ids -> Labels \cup {NoLabel}]
    BY <1>1, <2>2 DEF LogTypes, Changes, Journal!State, Journal!Named, Journal!Label, Journal!Prune
  <2>7. committed'["pruned"] \subseteq Ids
    <3>1. CASE Op(c) = "prune"
      <4>1. File(c) = "pruned" /\ work["pruned"] = call[c].what /\ call[c].what \subseteq Ids
        BY <1>1, <3>1 DEF File, FileOf, FilesInv, Halves, HalfDone, At, Good, Prepared, Committing, Hides
      <4>2. QED
        BY <1>1, <4>1 DEF Records, Shapes, Files
    <3>2. CASE Op(c) # "prune"
      <4>1. File(c) # "pruned"
        BY <3>2 DEF File, FileOf
      <4>2. QED
        BY <1>1, <4>1 DEF Records, Shapes, Files, LogTypes
    <3>3. QED
      BY <3>1, <3>2
  <2>8. QED
    BY <2>4, <2>5, <2>6, <2>7 DEF LogTypes
<1>12. QED
  BY <1>8, <1>9, <1>10, <1>11 DEF JournalInv, Good

LEMMA JournalStep ==
  ASSUME Careful, FilesInv, JournalInv, [Next]_vars
  PROVE  JournalInv' /\ (Changes \/ UNCHANGED <<log, committed["labels"], committed["pruned"]>>)
<1>1. CASE Initialized \/ Crash \/ UNCHANGED vars
  <2>1. /\ UNCHANGED <<committed, log>>
        /\ \A c \in Calls : call'[c] = call[c] \/ call'[c] = Idle
    BY <1>1, AllCalls DEF Careful
  <2>2. \A c \in Calls : Good(c)' /\ (Administers(c)' => Administers(c))
    BY <2>1, UnmovedIsGood, IdleIsGood DEF JournalInv, Administers, Op
  <2>3. QED
    BY <2>1, <2>2 DEF JournalInv, LogTypes, OneAdministers
<1>2. ASSUME NEW c \in Calls, Call(c) \/ Open(c) \/ List(c) \/ Sidecar(c) \/ Enqueue(c)
      PROVE  JournalInv' /\ UNCHANGED <<committed, log>>
  BY <1>2, BeforeChainKeepsJournal
<1>3. ASSUME NEW c \in Calls, Rewrite(c) \/ Commit(c) \/ Undo(c) \/ Report(c)
      PROVE  JournalInv' /\ (Changes \/ UNCHANGED <<log, committed["labels"], committed["pruned"]>>)
  <2>1. CASE UNCHANGED <<committed, log>>
    BY <1>3, <2>1, ChainKeepsJournal DEF Careful
  <2>2. CASE Commit(c) /\ Records(c)
    <3>1. JournalInv'
      BY <2>2, CommitKeepsJournal DEF Careful
    <3>2. Changes
      BY <2>2, CommitIsAChange DEF Commit
    <3>3. QED
      BY <3>1, <3>2
  <2>3. QED
    BY <1>3, <2>1, <2>2 DEF Rewrite, Commit, Undo, Report
<1>4. QED
  BY <1>1, <1>2, <1>3 DEF Next, Step

\* For users who change labels and retention one at a time, and sidecars that
\* are never cut or misread, the store is the journal that the History tab relies on,
\* unless Git dies after its commit, a file cannot be put back, or the program
\* dies between a file and its commit.
THEOREM StoreIsJournal == Careful => (Spec => ImplementsJournal)
<1> SUFFICES ASSUME Careful PROVE Spec => ImplementsJournal
  OBVIOUS
<1>1. Init => JournalInv /\ Journal!Init
  <2> SUFFICES ASSUME Init PROVE JournalInv /\ Journal!Init
    OBVIOUS
  <2>1. /\ committed["snapshot"] = NoSnapshot /\ committed["pruned"] = {}
        /\ committed["labels"] = [i \in Ids |-> NoLabel] /\ log = <<>>
    BY DEF Init, Empty, Files
  <2>2. \A c \in Calls : Good(c) /\ ~Administers(c)
    BY DEF Init, Idle, Good, AskedFor, Prepared, Committing, Administers
  <2>3. LogTypes
    BY <2>1 DEF LogTypes, Journal!Current
  <2>4. QED
    BY <2>1, <2>2, <2>3 DEF JournalInv, OneAdministers, Journal!Init
<1>2. FilesInv /\ JournalInv /\ [Next]_vars => JournalInv'
  BY JournalStep
<1>3. FilesInv /\ JournalInv /\ [Next]_vars => [Journal!Next]_(Journal!vars)
  BY JournalStep DEF Changes, Journal!Next, Journal!vars
<1>4. Spec => []FilesInv
  BY FilesInvHolds DEF Careful
<1>5. QED
  BY <1>1, <1>2, <1>3, <1>4, PTL DEF Spec, ImplementsJournal, Journal!Spec

=============================================================================
