------------------------ MODULE BrowserHandoffProofs ------------------------
(***************************************************************************)
(* Theorems about BrowserHandoff, for any number of downloads and faults:  *)
(* the state is well formed, a paused download is in the journal, nothing  *)
(* cancelled is lost as long as no exchange is cut short, and no download  *)
(* is kept by two programs while its decision lasts.                       *)
(***************************************************************************)
EXTENDS BrowserHandoff, FiniteSetTheorems, TLAPS

-----------------------------------------------------------------------------
(* Types *)

LEMMA TypeInit == Init => TypeOK
  BY HandoffAssumption DEF Init, TypeOK, Phases, WorkerPcs

\* The steps of the worker's coroutines keep every variable in its set.
LEMMA TypeWorker ==
  ASSUME TypeOK, NEW d \in Downloads, WorkerStep(d)
  PROVE  TypeOK'
<1> USE HandoffAssumption DEF TypeOK, Phases, WorkerPcs, Go, Claim, Trouble, NoTrouble, Learn,
        PollLater, PollFails, extension, desktop
<1>1. CASE Reserve(d)
  BY <1>1 DEF Reserve
<1>2. CASE Pause(d)
  BY <1>2 DEF Pause
<1>3. CASE Mark(d)
  BY <1>3 DEF Mark
<1>4. CASE Send(d)
  BY <1>4 DEF Send
<1>5. CASE Answered(d)
  BY <1>5 DEF Answered
<1>6. CASE Note(d)
  BY <1>6 DEF Note
<1>7. CASE Resume(d)
  BY <1>7 DEF Resume, ResumeFails
<1>8. CASE Clear(d)
  BY <1>8 DEF Clear, ResumeFails
<1>9. CASE Look(d)
  BY <1>9 DEF Look
<1>10. CASE Ask(d)
  BY <1>10 DEF Ask
<1>11. CASE Cancel(d)
  BY <1>11 DEF Cancel
<1>12. CASE Undo(d)
  BY <1>12 DEF Undo
<1>13. QED
  BY <1>1, <1>2, <1>3, <1>4, <1>5, <1>6, <1>7, <1>8, <1>9, <1>10, <1>11, <1>12
     DEF WorkerStep

\* So do those of the desktop, of Chrome and of the clock.
LEMMA TypeOthers ==
  ASSUME TypeOK, NEW d \in Downloads, Step(d), ~WorkerStep(d)
  PROVE  TypeOK'
<1> USE HandoffAssumption DEF TypeOK, Phases, WorkerPcs, Go, Trouble, NoTrouble,
        PollLater, extension, desktop
<1>1. CASE Created(d)
  BY <1>1 DEF Created
<1>2. CASE GivesUp(d)
  BY <1>2 DEF GivesUp
<1>3. CASE Fire(d)
  BY <1>3 DEF Fire
<1>4. CASE UndoTimesOut(d)
  BY <1>4 DEF UndoTimesOut
<1>5. CASE Present(d)
  BY <1>5 DEF Present, Reject
<1>6. CASE Approve(d)
  BY <1>6 DEF Approve
<1>7. CASE Added(d)
  BY <1>7 DEF Added
<1>8. CASE Started(d)
  BY <1>8 DEF Started
<1>9. CASE Decline(d)
  BY <1>9 DEF Decline, Reject
<1>10. CASE Removed(d)
  BY <1>10 DEF Removed
<1>11. CASE Forget(d)
  BY <1>11 DEF Forget
<1>12. CASE Ends(d)
  BY <1>12 DEF Ends
<1>13. CASE TakesBack(d)
  BY <1>13 DEF TakesBack
<1>14. CASE Expire(d)
  BY <1>14 DEF Expire
<1>15. QED
  BY <1>1, <1>2, <1>3, <1>4, <1>5, <1>6, <1>7, <1>8, <1>9, <1>10, <1>11, <1>12, <1>13, <1>14
     DEF Step

\* A visit of a snapshot of the journal.
LEMMA TypeVisit ==
  ASSUME TypeOK, NEW claims \in [Downloads -> Phases], Visit(claims)
  PROVE  /\ worker' \in [Downloads -> WorkerPcs] /\ sweep' \in [Downloads -> Phases]
         /\ timer' \subseteq Downloads /\ sweeping' \subseteq Downloads
  BY DEF Visit, TypeOK, Go, Nothing, Phases, WorkerPcs

LEMMA TypeStep == TypeOK /\ [Next]_vars => TypeOK'
<1> SUFFICES ASSUME TypeOK, [Next]_vars PROVE TypeOK'
  OBVIOUS
<1>1. ASSUME NEW d \in Downloads, Step(d) PROVE TypeOK'
  BY <1>1, TypeWorker, TypeOthers
<1>2. CASE SweepStart
  <2>1. Visit(claim) /\ claim \in [Downloads -> Phases]
    BY <1>2 DEF SweepStart, TypeOK
  <2>2. QED
    BY <1>2, <2>1, TypeVisit DEF SweepStart, TypeOK, desktop
<1>3. CASE SweepNext
  <2>1. Visit(sweep) /\ sweep \in [Downloads -> Phases]
    BY <1>3 DEF SweepNext, TypeOK
  <2>2. QED
    BY <1>3, <2>1, TypeVisit DEF SweepNext, TypeOK, desktop
<1>4. CASE Death
  BY <1>4, HandoffAssumption DEF Death, TypeOK, Trouble, Nothing, Phases, WorkerPcs
<1>5. CASE Wake
  BY <1>5 DEF Wake, TypeOK, desktop
<1>6. CASE Restart
  BY <1>6, HandoffAssumption DEF Restart, TypeOK, Trouble, WorkerPcs
<1>7. CASE UNCHANGED vars
  BY <1>7 DEF vars, TypeOK
<1>8. QED
  BY <1>1, <1>2, <1>3, <1>4, <1>5, <1>6, <1>7 DEF Next

\* TypeOK holds of every handoff: the worker, the desktop and Chrome stay in the
\* states of the code, whatever fails and in whatever order.
THEOREM TypeCorrect == Spec => []TypeOK
<1>1. Init => TypeOK
  BY TypeInit
<1>2. TypeOK /\ [Next]_vars => TypeOK'
  BY TypeStep
<1>3. QED
  BY <1>1, <1>2, PTL DEF Spec

-----------------------------------------------------------------------------
(* A paused download is in the journal *)

\* Nobody clears a claim while the download is paused, and a download is paused
\* only by a coroutine that holds a claim.
Owned(d) ==
    /\ chrome[d] = "paused" => claim[d] # "none"
    /\ worker[d] = "pausing" => claim[d] # "none"
    /\ worker[d] \in {"clearing", "dropping"} => chrome[d] # "paused"

OwnedInv == TypeOK /\ \A d \in Downloads : Owned(d)

LEMMA OwnedWorker ==
  ASSUME OwnedInv, NEW d \in Downloads, WorkerStep(d), NEW e \in Downloads
  PROVE  Owned(e)'
<1> USE DEF OwnedInv, Owned, TypeOK, Phases, WorkerPcs, Go, Claim, PollLater, PollFails,
        extension, desktop
<1>1. CASE Reserve(d)
  BY <1>1 DEF Reserve
<1>2. CASE Pause(d)
  BY <1>2 DEF Pause
<1>3. CASE Mark(d)
  BY <1>3 DEF Mark
<1>4. CASE Send(d)
  BY <1>4 DEF Send
<1>5. CASE Answered(d)
  BY <1>5 DEF Answered
<1>6. CASE Note(d)
  BY <1>6 DEF Note
<1>7. CASE Resume(d)
  BY <1>7 DEF Resume, ResumeFails
<1>8. CASE Clear(d)
  BY <1>8 DEF Clear, ResumeFails
<1>9. CASE Look(d)
  BY <1>9 DEF Look
<1>10. CASE Ask(d)
  BY <1>10 DEF Ask
<1>11. CASE Cancel(d)
  BY <1>11 DEF Cancel
<1>12. CASE Undo(d)
  BY <1>12 DEF Undo
<1>13. QED
  BY <1>1, <1>2, <1>3, <1>4, <1>5, <1>6, <1>7, <1>8, <1>9, <1>10, <1>11, <1>12
     DEF WorkerStep

LEMMA OwnedOthers ==
  ASSUME OwnedInv, NEW d \in Downloads, Step(d), ~WorkerStep(d), NEW e \in Downloads
  PROVE  Owned(e)'
<1> USE DEF OwnedInv, Owned, TypeOK, Phases, WorkerPcs, Go, PollLater, extension, desktop
<1>1. CASE Created(d)
  BY <1>1 DEF Created
<1>2. CASE GivesUp(d)
  BY <1>2 DEF GivesUp
<1>3. CASE Fire(d)
  BY <1>3 DEF Fire
<1>4. CASE UndoTimesOut(d)
  BY <1>4 DEF UndoTimesOut
<1>5. CASE Removed(d)
  BY <1>5 DEF Removed
<1>6. CASE Present(d) \/ Approve(d) \/ Added(d) \/ Started(d) \/ Decline(d) \/ Forget(d)
           \/ Expire(d)
  BY <1>6 DEF Present, Approve, Added, Started, Decline, Forget, Expire
<1>7. CASE Ends(d) \/ TakesBack(d)
  BY <1>7 DEF Ends, TakesBack
<1>8. QED
  BY <1>1, <1>2, <1>3, <1>4, <1>5, <1>6, <1>7 DEF Step

\* A recovery starts only coroutines that resume.
LEMMA OwnedVisit ==
  ASSUME OwnedInv, NEW claims, Visit(claims), UNCHANGED <<chrome, claim>>, NEW e \in Downloads
  PROVE  Owned(e)'
  BY DEF OwnedInv, Owned, Visit, Go, TypeOK, WorkerPcs

LEMMA OwnedStep == OwnedInv /\ [Next]_vars => OwnedInv'
<1> SUFFICES ASSUME OwnedInv, [Next]_vars, NEW e \in Downloads PROVE Owned(e)'
  BY TypeStep DEF OwnedInv
<1>1. ASSUME NEW d \in Downloads, Step(d) PROVE Owned(e)'
  BY <1>1, OwnedWorker, OwnedOthers
<1>2. CASE SweepStart
  <2>1. Visit(claim) /\ UNCHANGED <<chrome, claim>>
    BY <1>2 DEF SweepStart
  <2>2. QED
    BY <2>1, OwnedVisit
<1>3. CASE SweepNext
  <2>1. Visit(sweep) /\ UNCHANGED <<chrome, claim>>
    BY <1>3 DEF SweepNext
  <2>2. QED
    BY <2>1, OwnedVisit
<1>4. CASE Death \/ Wake \/ Restart
  BY <1>4 DEF Death, Wake, Restart, OwnedInv, Owned, TypeOK, WorkerPcs
<1>5. CASE UNCHANGED vars
  BY <1>5 DEF vars, OwnedInv, Owned
<1>6. QED
  BY <1>1, <1>2, <1>3, <1>4, <1>5 DEF Next

\* PausedIsOwned holds of every handoff, deaths of the worker at any of its awaits
\* and failed writes of the journal included: whoever starts next finds the claim.
THEOREM PausedHasOwner == Spec => []PausedIsOwned
<1>1. Init => OwnedInv
  BY TypeInit DEF Init, OwnedInv, Owned
<1>2. OwnedInv /\ [Next]_vars => OwnedInv'
  BY OwnedStep
<1>3. OwnedInv => PausedIsOwned
  BY DEF OwnedInv, Owned, PausedIsOwned
<1>4. QED
  BY <1>1, <1>2, <1>3, PTL DEF Spec

-----------------------------------------------------------------------------
(* What Chrome cancelled, the desktop has *)

\* No exchange is cut short, and a removal either succeeds or changes nothing.
Uncut == Faults \cap {"timeout", "death", "removeLate"} = {}

\* Nothing has been offered to the desktop.
Early == {"claiming", "pausing", "marking", "sending"}
Unoffered(d) ==
    /\ rec[d] = "none" /\ op[d] = "none" /\ post[d] = "none" /\ d \notin window

Shown(d) == post[d] \in {"delivered", "refused"}

\* The desktop has the transfer and no operation can take it away.
Settled(d) == rec[d] \in {"accepted", "gone"} /\ op[d] = "none" /\ transfer[d] = "live"

\* NeverLost holds because a worker cancels only what it has seen settled; what is
\* settled is undone only by a rollback, and the worker that asks for one waits for
\* its end, with Chrome's download still there.
Safe(d) ==
    /\ chrome[d] = "new" => Unoffered(d) /\ worker[d] \notin Early
    /\ worker[d] \in Early => Unoffered(d)
    /\ d \in window => Shown(d)
    /\ op[d] \in {"adding", "starting"} => rec[d] = "pending" /\ Shown(d)
    /\ op[d] = "starting" => transfer[d] = "live"
    /\ op[d] = "removing" => worker[d] = "waiting"
    /\ rec[d] = "accepted" => transfer[d] = "live" /\ Shown(d)
    /\ worker[d] = "cancelling" => Settled(d)
    /\ worker[d] \in {"undoing", "waiting"} => chrome[d] # "cancelled"
    /\ chrome[d] = "cancelled" => Settled(d)

SafeInv == TypeOK /\ \A d \in Downloads : Safe(d)

LEMMA SafeWorker ==
  ASSUME Uncut, SafeInv, NEW d \in Downloads, WorkerStep(d), NEW e \in Downloads
  PROVE  Safe(e)'
<1> USE DEF Uncut, SafeInv, Safe, Early, Unoffered, Shown, Settled, TypeOK, WorkerPcs, Go,
        Trouble, PollLater, PollFails, extension, desktop
<1>1. CASE Reserve(d)
  BY <1>1 DEF Reserve
<1>2. CASE Pause(d)
  BY <1>2 DEF Pause
<1>3. CASE Mark(d)
  BY <1>3 DEF Mark
<1>4. CASE Send(d)
  <2>1. Unoffered(d) /\ chrome[d] # "new" /\ chrome[d] # "cancelled"
    BY <1>4 DEF Send
  <2>2. CASE e = d
    BY <1>4, <2>1, <2>2 DEF Send
  <2>3. CASE e # d
    BY <1>4, <2>3 DEF Send
  <2>4. QED
    BY <2>2, <2>3
<1>5. CASE Answered(d)
  BY <1>5 DEF Answered
<1>6. CASE Note(d)
  BY <1>6 DEF Note
<1>7. CASE Resume(d)
  BY <1>7 DEF Resume, ResumeFails
<1>8. CASE Clear(d)
  BY <1>8 DEF Clear, ResumeFails
<1>9. CASE Look(d)
  BY <1>9 DEF Look
<1>10. CASE Ask(d)
  BY <1>10 DEF Ask, State, Resolving
<1>11. CASE Cancel(d)
  BY <1>11 DEF Cancel
<1>12. CASE Undo(d)
  BY <1>12 DEF Undo, MayRollBack, Resolving
<1>13. QED
  BY <1>1, <1>2, <1>3, <1>4, <1>5, <1>6, <1>7, <1>8, <1>9, <1>10, <1>11, <1>12
     DEF WorkerStep

LEMMA SafeOthers ==
  ASSUME Uncut, SafeInv, NEW d \in Downloads, Step(d), ~WorkerStep(d), NEW e \in Downloads
  PROVE  Safe(e)'
<1> USE DEF Uncut, SafeInv, Safe, Early, Unoffered, Shown, Settled, TypeOK, WorkerPcs, Go,
        Trouble, PollLater, extension, desktop
<1>1. CASE Created(d)
  BY <1>1 DEF Created
<1>2. CASE Fire(d)
  BY <1>2 DEF Fire
<1>3. CASE Present(d)
  BY <1>3 DEF Present, Reject, State, Resolving
<1>4. CASE Approve(d)
  BY <1>4 DEF Approve, State, Resolving
<1>5. CASE Added(d)
  BY <1>5 DEF Added
<1>6. CASE Started(d)
  BY <1>6 DEF Started
<1>7. CASE Decline(d)
  BY <1>7 DEF Decline, Reject, State, Resolving
<1>8. CASE Removed(d)
  BY <1>8 DEF Removed
<1>9. CASE Forget(d)
  BY <1>9 DEF Forget, State, Resolving
<1>10. CASE Ends(d)
  BY <1>10 DEF Ends
<1>11. CASE TakesBack(d)
  BY <1>11 DEF TakesBack
<1>12. CASE Expire(d)
  BY <1>12 DEF Expire
<1>13. CASE GivesUp(d) \/ UndoTimesOut(d)
  BY <1>13 DEF GivesUp, UndoTimesOut
<1>14. QED
  BY <1>1, <1>2, <1>3, <1>4, <1>5, <1>6, <1>7, <1>8, <1>9, <1>10, <1>11, <1>12, <1>13
     DEF Step

\* A recovery starts coroutines on downloads that no other has.
LEMMA SafeVisit ==
  ASSUME SafeInv, NEW claims, Visit(claims), UNCHANGED <<chrome, desktop>>, NEW e \in Downloads
  PROVE  Safe(e)'
  BY DEF SafeInv, Safe, Early, Unoffered, Shown, Settled, TypeOK, WorkerPcs, Visit, Go, desktop

LEMMA SafeStep ==
  ASSUME Uncut
  PROVE  SafeInv /\ [Next]_vars => SafeInv'
<1> SUFFICES ASSUME SafeInv, [Next]_vars, NEW e \in Downloads PROVE Safe(e)'
  BY TypeStep DEF SafeInv
<1>1. ASSUME NEW d \in Downloads, Step(d) PROVE Safe(e)'
  BY <1>1, SafeWorker, SafeOthers
<1>2. CASE SweepStart
  <2>1. Visit(claim) /\ UNCHANGED <<chrome, desktop>>
    BY <1>2 DEF SweepStart
  <2>2. QED
    BY <2>1, SafeVisit
<1>3. CASE SweepNext
  <2>1. Visit(sweep) /\ UNCHANGED <<chrome, desktop>>
    BY <1>3 DEF SweepNext
  <2>2. QED
    BY <2>1, SafeVisit
<1>4. CASE Death
  BY <1>4 DEF Death, Trouble, Uncut
<1>5. CASE Wake
  BY <1>5 DEF Wake, SafeInv, Safe, Early, Unoffered, Shown, Settled, desktop
<1>6. CASE Restart
  BY <1>6 DEF Restart, SafeInv, Safe, Early, Unoffered, Shown, Settled, TypeOK, WorkerPcs
<1>7. CASE UNCHANGED vars
  BY <1>7 DEF vars, SafeInv, Safe, Early, Unoffered, Shown, Settled
<1>8. QED
  BY <1>1, <1>2, <1>3, <1>4, <1>5, <1>6, <1>7 DEF Next

\* NeverLost, for any number of downloads and every other fault, restarts of the
\* desktop and failed cancellations and rollbacks included.  Each fault that Uncut
\* excludes loses a download.
THEOREM CancelledIsKept ==
  ASSUME Uncut
  PROVE  Spec => []NeverLost
<1>1. Init => SafeInv
  BY TypeInit DEF Init, SafeInv, Safe, Early, Unoffered, Shown, Settled
<1>2. SafeInv /\ [Next]_vars => SafeInv'
  BY SafeStep
<1>3. SafeInv => NeverLost
  BY DEF SafeInv, Safe, Settled, NeverLost
<1>4. QED
  BY <1>1, <1>2, <1>3, PTL DEF Spec

-----------------------------------------------------------------------------
(* One copy until the decision expires *)

\* Everybody answers in time, the worker lives and its journal can be written, and
\* no transfer is left behind.
Prompt == Faults \cap {"timeout", "death", "storage", "resume", "stranded"} = {}

\* The desktop has no copy and can no longer get one.
Free(d) ==
    rec[d] \in {"none", "rejected", "gone"} /\ op[d] = "none" /\ transfer[d] # "live"

Busy == {"pausing", "marking", "sending", "posted", "noting", "resuming", "clearing"}

\* While a decision lasts and the user has not taken the download back, it is held
\* in Chrome, or the desktop is out of the game; only then is it resumed.
Held(d) ==
    /\ chrome[d] \in {"paused", "cancelled"} \/ Free(d)
    /\ worker[d] = "resuming" => Free(d)
    /\ post[d] = "refused" => Free(d)
    /\ worker[d] \in {"marking", "sending"} => chrome[d] = "paused"
    /\ op[d] = "removing" => rec[d] = "accepted"

\* A claim without a decision belongs to a coroutine, so that no recovery finds one
\* to resume (the conjunct on Busy); the others say where a record can be.
Single(d) ==
    /\ chrome[d] = "new" => rec[d] = "none" /\ worker[d] \notin Early
    /\ worker[d] \in Early => rec[d] = "none"
    /\ rec[d] = "none" =>
          op[d] = "none" /\ transfer[d] # "live" /\ d \notin window /\ post[d] = "none"
    /\ rec[d] = "rejected" => op[d] = "none" /\ transfer[d] # "live"
    /\ rec[d] = "pending" /\ op[d] # "starting" => transfer[d] # "live"
    /\ op[d] \in {"adding", "starting"} => rec[d] = "pending"
    /\ post[d] # "dropped"
    /\ post[d] = "presenting" =>
          rec[d] # "accepted" /\ op[d] = "none" /\ d \notin window /\ transfer[d] # "live"
    /\ claim[d] \in {"intent", "paused"} => worker[d] \in Busy
    /\ d \notin late /\ told[d] # "user" => Held(d)

SingleInv == TypeOK /\ sweeping = {} /\ \A d \in Downloads : Single(d)

LEMMA SingleWorker ==
  ASSUME Prompt, SingleInv, NEW d \in Downloads, WorkerStep(d), NEW e \in Downloads
  PROVE  Single(e)'
<1> USE DEF Prompt, SingleInv, Single, Held, Free, Busy, Early, TypeOK, Phases, WorkerPcs,
        Go, Claim, Trouble, PollLater, PollFails, extension, desktop
<1>1. CASE Reserve(d)
  BY <1>1 DEF Reserve
<1>2. CASE Pause(d)
  BY <1>2 DEF Pause
<1>3. CASE Mark(d)
  BY <1>3 DEF Mark
<1>4. CASE Send(d)
  BY <1>4 DEF Send
<1>5. CASE Answered(d)
  BY <1>5 DEF Answered
<1>6. CASE Note(d)
  BY <1>6 DEF Note, Learn
<1>7. CASE Resume(d)
  BY <1>7 DEF Resume, ResumeFails
<1>8. CASE Clear(d)
  BY <1>8 DEF Clear, ResumeFails
<1>9. CASE Look(d)
  BY <1>9 DEF Look
<1>10. CASE Ask(d)
  BY <1>10 DEF Ask, Learn, State, Resolving
<1>11. CASE Cancel(d)
  BY <1>11 DEF Cancel
<1>12. CASE Undo(d)
  BY <1>12 DEF Undo, MayRollBack, Resolving
<1>13. QED
  BY <1>1, <1>2, <1>3, <1>4, <1>5, <1>6, <1>7, <1>8, <1>9, <1>10, <1>11, <1>12
     DEF WorkerStep

LEMMA SingleOthers ==
  ASSUME Prompt, SingleInv, NEW d \in Downloads, Step(d), ~WorkerStep(d), NEW e \in Downloads
  PROVE  Single(e)'
<1> USE DEF Prompt, SingleInv, Single, Held, Free, Busy, Early, TypeOK, Phases, WorkerPcs,
        Go, Trouble, PollLater, extension, desktop
<1>1. CASE Created(d)
  BY <1>1 DEF Created
<1>2. CASE Fire(d)
  BY <1>2 DEF Fire
<1>3. CASE Present(d)
  BY <1>3 DEF Present, Reject, State, Resolving
<1>4. CASE Approve(d)
  BY <1>4 DEF Approve, State, Resolving
<1>5. CASE Added(d)
  BY <1>5 DEF Added
<1>6. CASE Started(d)
  BY <1>6 DEF Started
<1>7. CASE Decline(d)
  BY <1>7 DEF Decline, Reject, State, Resolving
<1>8. CASE Removed(d)
  BY <1>8 DEF Removed
<1>9. CASE Forget(d)
  BY <1>9 DEF Forget, State, Resolving
<1>10. CASE Ends(d)
  BY <1>10 DEF Ends
<1>11. CASE TakesBack(d)
  BY <1>11 DEF TakesBack
<1>12. CASE Expire(d)
  BY <1>12 DEF Expire
<1>13. CASE GivesUp(d) \/ UndoTimesOut(d)
  BY <1>13 DEF GivesUp, UndoTimesOut
<1>14. QED
  BY <1>1, <1>2, <1>3, <1>4, <1>5, <1>6, <1>7, <1>8, <1>9, <1>10, <1>11, <1>12, <1>13
     DEF Step

\* No step of a download starts a recovery.
LEMMA StepKeepsSweeping ==
  ASSUME NEW d \in Downloads, Step(d)
  PROVE  sweeping' = sweeping
<1>1. CASE WorkerStep(d)
  BY <1>1 DEF WorkerStep, Reserve, Pause, Mark, Send, Answered, Note, Resume, Clear, Look, Ask,
              Cancel, Undo
<1>2. CASE ~WorkerStep(d)
  BY <1>2 DEF Step, Created, GivesUp, Fire, UndoTimesOut, Present, Approve, Added, Started,
              Decline, Removed, Forget, Ends, TakesBack, Expire, extension
<1>3. QED
  BY <1>1, <1>2

LEMMA SingleStep ==
  ASSUME Prompt
  PROVE  SingleInv /\ [Next]_vars => SingleInv'
<1> SUFFICES ASSUME SingleInv, [Next]_vars
             PROVE  sweeping' = {} /\ \A e \in Downloads : Single(e)'
  BY TypeStep DEF SingleInv
<1>1. ASSUME NEW d \in Downloads, Step(d)
      PROVE  sweeping' = {} /\ \A e \in Downloads : Single(e)'
  BY <1>1, SingleWorker, SingleOthers, StepKeepsSweeping DEF SingleInv
<1>2. CASE SweepStart
  <2>1. \A d \in Downloads : claim[d] \in {"intent", "paused"} => worker[d] # "idle"
    BY DEF SingleInv, Single, Busy
  <2>2. sweeping' = {} /\ UNCHANGED worker
    BY <1>2, <2>1 DEF SweepStart, Visit
  <2>3. UNCHANGED <<chrome, claim, desktop, late, told>>
    BY <1>2 DEF SweepStart
  <2>4. QED
    BY <2>2, <2>3 DEF SingleInv, Single, Held, Free, desktop
<1>3. CASE SweepNext
  BY <1>3 DEF SweepNext, SingleInv
<1>4. CASE Death
  BY <1>4 DEF Death, Trouble, Prompt
<1>5. CASE Wake
  BY <1>5 DEF Wake, SingleInv, Single, Held, Free, desktop
<1>6. CASE Restart
  BY <1>6 DEF Restart, SingleInv, Single, Held, Free, Busy, Early, TypeOK, WorkerPcs
<1>7. CASE UNCHANGED vars
  BY <1>7 DEF vars, SingleInv, Single, Held, Free
<1>8. QED
  BY <1>1, <1>2, <1>3, <1>4, <1>5, <1>6, <1>7 DEF Next

\* OneCopy, for any number of downloads and every other fault: until a decision has
\* expired, whatever the desktop fails at and however often it restarts.  Each fault
\* that Prompt excludes duplicates a download.
THEOREM NeverTwoCopies ==
  ASSUME Prompt
  PROVE  Spec => []OneCopy
<1>1. Init => SingleInv
  BY TypeInit DEF Init, SingleInv, Single, Held, Free, Early, Busy
<1>2. SingleInv /\ [Next]_vars => SingleInv'
  BY SingleStep
<1>3. SingleInv => OneCopy
  BY DEF SingleInv, Single, Held, Free, OneCopy, Duplicated, KeptInChrome
<1>4. QED
  BY <1>1, <1>2, <1>3, PTL DEF Spec

-----------------------------------------------------------------------------
(* One copy once the decision is noted *)

\* Either there is one claim at a time, or no fault leaves one without its coroutine:
\* otherwise a recovery that resumes such a claim comes to the others with a copy of
\* the journal that may be older than their decisions.
Undisturbed == Faults \cap {"death", "storage", "resume"} = {}
NoStaleCopy == "stranded" \notin Faults /\ (MaxClaims <= 1 \/ Undisturbed)

\* A coroutine before the decision is noted.
Capturing == Early \cup {"posted", "noting"}

Noted(d) == told[d] \in {"pending", "accepted"}

\* The download is paused when its decision is noted and stays so until the desktop
\* is out of the game; what is noted is never offered again.
Trusted(d) ==
    /\ chrome[d] = "new" => rec[d] = "none" /\ worker[d] \notin Early
    /\ worker[d] \in Early => rec[d] = "none"
    /\ rec[d] = "none" => op[d] = "none" /\ transfer[d] # "live"
    /\ rec[d] = "rejected" => op[d] = "none" /\ transfer[d] # "live"
    /\ rec[d] = "pending" /\ op[d] # "starting" => transfer[d] # "live"
    /\ op[d] \in {"adding", "starting"} => rec[d] = "pending"
    /\ op[d] = "removing" => rec[d] = "accepted" \/ d \in late
    /\ worker[d] \in Capturing \ {"claiming", "pausing"} /\ told[d] # "user" =>
          chrome[d] = "paused"
    /\ worker[d] \in Capturing \ {"claiming"} => claim[d] # "none"
    /\ claim[d] = "pending" \/ worker[d] \in {"asking", "cancelling", "undoing", "waiting"} =>
          told[d] # "nothing"
    /\ Noted(d) => /\ chrome[d] # "new" /\ claim[d] \in {"none", "pending"}
                   /\ worker[d] \notin Capturing
    /\ Noted(d) /\ d \notin late => /\ chrome[d] \in {"paused", "cancelled"} \/ Free(d)
                                    /\ worker[d] = "resuming" => Free(d)

\* A recovery that waits has nothing left to visit,
Swept == \A d \in Downloads : sweep[d] = "none"

\* since there is one claim, or none that it would visit.
OneClaim == \A d, e \in Claims : d = e
Attended ==
    /\ sweeping = {}
    /\ \A d \in Downloads : claim[d] \in {"intent", "paused"} => worker[d] \in Busy

NotedInv ==
    /\ TypeOK /\ Swept /\ \A d \in Downloads : Trusted(d)
    /\ \/ MaxClaims <= 1 /\ OneClaim
       \/ Undisturbed /\ Attended

\* The steps of a coroutine,
LEMMA TrustedWorker ==
  ASSUME TypeOK, \A e \in Downloads : Trusted(e), NEW d \in Downloads, WorkerStep(d),
         NEW e \in Downloads
  PROVE  Trusted(e)'
<1> USE DEF Trusted, Noted, Capturing, Free, Early, TypeOK, Phases, WorkerPcs,
        Go, Claim, PollLater, PollFails, extension, desktop
<1>1. CASE Reserve(d)
  BY <1>1 DEF Reserve
<1>2. CASE Pause(d)
  BY <1>2 DEF Pause
<1>3. CASE Mark(d)
  BY <1>3 DEF Mark
<1>4. CASE Send(d)
  BY <1>4 DEF Send
<1>5. CASE Answered(d)
  BY <1>5 DEF Answered
<1>6. CASE Note(d)
  BY <1>6 DEF Note, Learn
<1>7. CASE Resume(d)
  BY <1>7 DEF Resume, ResumeFails
<1>8. CASE Clear(d)
  BY <1>8 DEF Clear, ResumeFails
<1>9. CASE Look(d)
  BY <1>9 DEF Look
<1>10. CASE Ask(d)
  BY <1>10 DEF Ask, Learn, State, Resolving
<1>11. CASE Cancel(d)
  BY <1>11 DEF Cancel
<1>12. CASE Undo(d)
  BY <1>12 DEF Undo, MayRollBack, Resolving
<1>13. QED
  BY <1>1, <1>2, <1>3, <1>4, <1>5, <1>6, <1>7, <1>8, <1>9, <1>10, <1>11, <1>12
     DEF WorkerStep

\* of the desktop, of Chrome and of the clock,
LEMMA TrustedOthers ==
  ASSUME "stranded" \notin Faults, TypeOK, \A e \in Downloads : Trusted(e),
         NEW d \in Downloads, Step(d), ~WorkerStep(d), NEW e \in Downloads
  PROVE  Trusted(e)'
<1> USE DEF Trusted, Noted, Capturing, Free, Early, TypeOK, Phases, WorkerPcs,
        Go, PollLater, extension, desktop
<1>1. CASE Created(d)
  BY <1>1 DEF Created
<1>2. CASE Fire(d)
  BY <1>2 DEF Fire
<1>3. CASE Present(d)
  BY <1>3 DEF Present, Reject, State, Resolving
<1>4. CASE Approve(d)
  BY <1>4 DEF Approve, State, Resolving
<1>5. CASE Added(d)
  BY <1>5 DEF Added
<1>6. CASE Started(d)
  BY <1>6 DEF Started, Trouble
<1>7. CASE Decline(d)
  BY <1>7 DEF Decline, Reject, State, Resolving
<1>8. CASE Removed(d)
  BY <1>8 DEF Removed
<1>9. CASE Forget(d)
  BY <1>9 DEF Forget, State, Resolving
<1>10. CASE Ends(d)
  BY <1>10 DEF Ends
<1>11. CASE TakesBack(d)
  BY <1>11 DEF TakesBack
<1>12. CASE Expire(d)
  BY <1>12 DEF Expire
<1>13. CASE GivesUp(d) \/ UndoTimesOut(d)
  BY <1>13 DEF GivesUp, UndoTimesOut
<1>14. QED
  BY <1>1, <1>2, <1>3, <1>4, <1>5, <1>6, <1>7, <1>8, <1>9, <1>10, <1>11, <1>12, <1>13
     DEF Step

\* and of a recovery that sees the journal as it is.
LEMMA TrustedVisit ==
  ASSUME TypeOK, \A d \in Downloads : Trusted(d), NEW claims, Visit(claims),
         \A d \in Downloads : claims[d] \in {claim[d], "none"},
         UNCHANGED <<chrome, claim, desktop, late, told>>, NEW e \in Downloads
  PROVE  Trusted(e)'
<1>1. /\ \/ worker'[e] = worker[e]
         \/ claim[e] \in {"intent", "paused"} /\ worker'[e] = "resuming"
      /\ UNCHANGED <<rec, op, transfer>>
  BY DEF Visit, Go, TypeOK, desktop
<1> QED
  BY <1>1 DEF Trusted, Noted, Capturing, Early, Free

\* Together:
LEMMA TrustedStep ==
  ASSUME "stranded" \notin Faults, TypeOK, Swept, \A d \in Downloads : Trusted(d), [Next]_vars, NEW e \in Downloads
  PROVE  Trusted(e)'
<1>1. ASSUME NEW d \in Downloads, Step(d) PROVE Trusted(e)'
  BY <1>1, TrustedWorker, TrustedOthers
<1>2. CASE SweepStart
  BY <1>2, TrustedVisit DEF SweepStart
<1>3. CASE SweepNext
  BY <1>3, TrustedVisit DEF SweepNext, Swept
<1>4. CASE Death
  BY <1>4 DEF Death, Trusted, Noted, Capturing, Free, Early, TypeOK
<1>5. CASE Wake
  BY <1>5 DEF Wake, Trusted, Noted, Capturing, Free, Early, desktop
<1>6. CASE Restart
  BY <1>6 DEF Restart, Trusted, Noted, Capturing, Free, Early, TypeOK
<1>7. CASE UNCHANGED vars
  BY <1>7 DEF vars, Trusted, Noted, Free
<1>8. QED
  BY <1>1, <1>2, <1>3, <1>4, <1>5, <1>6, <1>7 DEF Next

\* What a step of a download does to the journal: a claim is made only where there is room.
LEMMA StepClaims ==
  ASSUME TypeOK, NEW d \in Downloads, Trusted(d), Step(d)
  PROVE  /\ sweep' = sweep /\ \A e \in Downloads : e # d => claim'[e] = claim[e]
         /\ claim[d] = "none" /\ claim'[d] # "none" => Cardinality(Claims) < MaxClaims
<1> USE DEF Claim, Go, PollLater, PollFails, TypeOK, extension, desktop
<1>1. CASE Reserve(d)
  BY <1>1 DEF Reserve
<1>2. CASE Mark(d)
  BY <1>2 DEF Mark, Trusted, Capturing, Early
<1>3. CASE Note(d)
  BY <1>3 DEF Note, Trusted, Capturing, Early
<1>4. CASE Clear(d)
  BY <1>4 DEF Clear
<1>5. CASE UNCHANGED <<claim, sweep>>
  BY <1>5
<1>6. CASE Pause(d) \/ Send(d) \/ Answered(d) \/ Resume(d) \/ Look(d) \/ Ask(d) \/ Cancel(d)
           \/ Undo(d)
  BY <1>5, <1>6 DEF Pause, Send, Answered, Resume, Look, Ask, Cancel, Undo
<1>7. CASE ~WorkerStep(d)
  BY <1>5, <1>7 DEF Step, Created, GivesUp, Fire, UndoTimesOut, Present, Approve, Added, Started,
                    Decline, Removed, Forget, Ends, TakesBack, Expire
<1>8. QED
  BY <1>1, <1>2, <1>3, <1>4, <1>6, <1>7 DEF WorkerStep

\* One claim at a time,
LEMMA OneClaimStep ==
  ASSUME TypeOK, \A d \in Downloads : Trusted(d), MaxClaims <= 1, OneClaim, [Next]_vars
  PROVE  OneClaim'
<1>1. ASSUME NEW d \in Downloads, Step(d) PROVE OneClaim'
  <2>1. /\ \A e \in Downloads : e # d => claim'[e] = claim[e]
        /\ claim[d] = "none" /\ claim'[d] # "none" => Cardinality(Claims) < MaxClaims
    BY <1>1, StepClaims
  <2>2. CASE claim[d] # "none" \/ claim'[d] = "none"
    BY <2>1, <2>2 DEF OneClaim, Claims
  <2>3. CASE claim[d] = "none" /\ claim'[d] # "none"
    <3>1. IsFiniteSet(Claims)
      BY HandoffAssumption, FS_Subset DEF Claims
    <3>2. Cardinality(Claims) = 0
      BY <2>1, <2>3, <3>1, HandoffAssumption, FS_CardinalityType
    <3>3. Claims = {}
      BY <3>1, <3>2, FS_EmptySet
    <3>4. QED
      BY <2>1, <3>3 DEF OneClaim, Claims
  <2>4. QED
    BY <2>2, <2>3
<1>2. CASE UNCHANGED claim
  BY <1>2 DEF OneClaim, Claims
<1>3. QED
  BY <1>1, <1>2 DEF Next, SweepStart, SweepNext, Death, Wake, Restart, vars

\* or none without its coroutine,
LEMMA AttendedStep ==
  ASSUME TypeOK, Undisturbed, Swept, Attended, [Next]_vars
  PROVE  Attended'
<1> USE DEF Undisturbed, Attended, Busy, TypeOK, Phases, WorkerPcs, Go, Claim, Trouble, PollLater,
        PollFails, extension, desktop
<1>1. ASSUME NEW d \in Downloads, Step(d), NEW e \in Downloads
      PROVE  sweeping' = {} /\ (claim'[e] \in {"intent", "paused"} => worker'[e] \in Busy)
  <2>1. sweeping' = {}
    BY <1>1, StepKeepsSweeping
  <2>2. CASE Reserve(d) \/ Pause(d) \/ Mark(d)
    BY <1>1, <2>1, <2>2 DEF Reserve, Pause, Mark
  <2>3. CASE Send(d) \/ Answered(d) \/ Note(d)
    BY <1>1, <2>1, <2>3 DEF Send, Answered, Note
  <2>4. CASE Resume(d) \/ Clear(d)
    BY <1>1, <2>1, <2>4 DEF Resume, Clear, ResumeFails
  <2>5. CASE Look(d) \/ Ask(d) \/ Cancel(d) \/ Undo(d)
    BY <1>1, <2>1, <2>5 DEF Look, Ask, Cancel, Undo
  <2>6. CASE Created(d) \/ GivesUp(d) \/ Fire(d) \/ UndoTimesOut(d) \/ Removed(d)
    BY <1>1, <2>1, <2>6 DEF Created, GivesUp, Fire, UndoTimesOut, Removed
  <2>7. CASE Present(d) \/ Approve(d) \/ Added(d) \/ Started(d) \/ Decline(d) \/ Forget(d)
             \/ Ends(d) \/ TakesBack(d) \/ Expire(d)
    BY <1>1, <2>1, <2>7 DEF Present, Approve, Added, Started, Decline, Forget, Ends, TakesBack, Expire
  <2>8. QED
    BY <1>1, <2>2, <2>3, <2>4, <2>5, <2>6, <2>7 DEF Step, WorkerStep
<1>2. CASE SweepStart
  BY <1>2 DEF SweepStart, Visit
<1>3. CASE SweepNext
  BY <1>3 DEF SweepNext
<1>4. CASE Death
  BY <1>4 DEF Death
<1>5. CASE Wake \/ UNCHANGED vars
  BY <1>5 DEF Wake, vars
<1>6. CASE Restart
  BY <1>6 DEF Restart
<1>7. QED
  BY <1>1, <1>2, <1>3, <1>4, <1>5, <1>6 DEF Next

\* a recovery leaves nothing for later.
LEMMA SweptStep ==
  ASSUME TypeOK, Swept, \A d \in Downloads : Trusted(d), OneClaim \/ Attended, [Next]_vars
  PROVE  Swept'
<1>1. ASSUME NEW d \in Downloads, Step(d) PROVE Swept'
  BY <1>1, StepClaims DEF Swept
<1>2. CASE SweepStart
  <2>1. Visit(claim)
    BY <1>2 DEF SweepStart
  <2>2. CASE OneClaim
    BY <2>1, <2>2 DEF Visit, OneClaim, Claims, Nothing, Swept
  <2>3. CASE Attended
    BY <2>1, <2>3 DEF Visit, Attended, Busy, Nothing, Swept
  <2>4. QED
    BY <2>2, <2>3
<1>3. CASE SweepNext
  BY <1>3 DEF SweepNext, Visit, Swept, Nothing
<1>4. CASE Death
  BY <1>4 DEF Death, Swept, Nothing
<1>5. CASE UNCHANGED sweep
  BY <1>5 DEF Swept
<1>6. QED
  BY <1>1, <1>2, <1>3, <1>4, <1>5 DEF Next, Wake, Restart, vars

\* NotedOneCopy, for any number of downloads: once the worker has written the pending
\* decision down, requests may time out and the desktop restart and still one program
\* keeps the download until the decision expires; with one claim at a time the worker
\* may also die at any await, lose a write or fail to resume.
THEOREM NotedHasOneCopy ==
  ASSUME NoStaleCopy
  PROVE  Spec => []NotedOneCopy
<1>1. Init => NotedInv
  <2>1. Init => TypeOK /\ Swept /\ OneClaim /\ Attended
    BY TypeInit DEF Init, Swept, OneClaim, Claims, Attended
  <2>2. Init => \A d \in Downloads : Trusted(d)
    BY DEF Init, Trusted, Noted, Capturing, Early, Free
  <2>3. QED
    BY <2>1, <2>2 DEF NotedInv, NoStaleCopy
<1>2. NotedInv /\ [Next]_vars => NotedInv'
  <2> SUFFICES ASSUME NotedInv, [Next]_vars PROVE NotedInv'
    OBVIOUS
  <2>1. /\ TypeOK /\ Swept /\ \A d \in Downloads : Trusted(d)
        /\ (MaxClaims <= 1 /\ OneClaim) \/ (Undisturbed /\ Attended)
    BY DEF NotedInv
  <2>2. TypeOK' /\ Swept' /\ \A d \in Downloads : Trusted(d)'
    BY <2>1, TypeStep, SweptStep, TrustedStep DEF NoStaleCopy
  <2>3. CASE MaxClaims <= 1 /\ OneClaim
    BY <2>1, <2>2, <2>3, OneClaimStep DEF NotedInv
  <2>4. CASE Undisturbed /\ Attended
    BY <2>1, <2>2, <2>4, AttendedStep DEF NotedInv
  <2>5. QED
    BY <2>1, <2>3, <2>4
<1>3. NotedInv => NotedOneCopy
  BY DEF NotedInv, Trusted, Noted, Free, NotedOneCopy, Duplicated, KeptInChrome
<1>4. QED
  BY <1>1, <1>2, <1>3, PTL DEF Spec

=============================================================================
