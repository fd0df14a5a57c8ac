------------------------- MODULE UpdateServiceProofs -------------------------
(***************************************************************************)
(* UpdateService for any number of releases and checks: types, stop(), and *)
(* what is offered for installation when Squirrel refuses a second request *)
(* and names what it has downloaded.                                       *)
(***************************************************************************)
EXTENDS UpdateService, TLAPS

USE UpdateAssumption

-----------------------------------------------------------------------------
(* stop() *)

StopInv == stopped => download = NoVersion /\ check # "open"

StopMoves ==
    stopped => /\ stopped' /\ download' = download /\ check' # "open"
               /\ (status' = status \/ status' \in Failures)

LEMMA StopStep == StopInv /\ [Next]_vars => StopInv' /\ StopMoves
<1> SUFFICES ASSUME StopInv, [Next]_vars PROVE StopInv' /\ StopMoves
  OBVIOUS
<1>1. CASE CheckNow \/ ScheduledCheck
  BY <1>1 DEF CheckNow, ScheduledCheck, MayCheck, StopInv, StopMoves
<1>2. CASE CheckTimesOut
  BY <1>2 DEF CheckTimesOut, FailsOnce, Fails, StopInv, StopMoves
<1>3. ASSUME NEW n \in Ops, UpdateAvailable(n) PROVE StopInv' /\ StopMoves
  <2>1. PICK told \in {NoVersion, feed} : HandleAvailable(told)
    BY <1>3 DEF UpdateAvailable
  <2>2. stopped' = stopped
    BY <1>3 DEF UpdateAvailable
  <2>3. QED
    BY <2>1, <2>2 DEF HandleAvailable, StopInv, StopMoves, state, leases
<1>4. ASSUME NEW n \in Ops, UpdateNotAvailable(n) PROVE StopInv' /\ StopMoves
  BY <1>4 DEF UpdateNotAvailable, StopInv, StopMoves, state, leases
<1>5. ASSUME NEW n \in Ops, UpdateDownloaded(n) PROVE StopInv' /\ StopMoves
  BY <1>5 DEF UpdateDownloaded, HandleDownloaded, StopInv, StopMoves, state, leases
<1>6. ASSUME NEW n \in Ops, UpdateError(n) PROVE StopInv' /\ StopMoves
  BY <1>6 DEF UpdateError, HandleError, StopInv, StopMoves, state, leases
<1>7. CASE FeedVerified
  BY <1>7 DEF FeedVerified, StopInv, StopMoves, state
<1>8. CASE FeedNotVerified
  BY <1>8 DEF FeedNotVerified, Fails, StopInv, StopMoves
<1>9. CASE DownloadTimesOut
  BY <1>9 DEF DownloadTimesOut, StopInv, StopMoves
<1>10. CASE Stop
  BY <1>10 DEF Stop, StopInv, StopMoves, NoCheck
<1>11. CASE Publish
  BY <1>11 DEF Publish, state, leases, StopInv, StopMoves
<1>12. CASE UNCHANGED vars
  BY <1>12 DEF vars, state, leases, StopInv, StopMoves
<1>13. QED
  BY <1>1, <1>2, <1>3, <1>4, <1>5, <1>6, <1>7, <1>8, <1>9, <1>10, <1>11, <1>12
  DEF Next, Event, VerifyEnds

\* After stop() no verification, event or timer takes a lease again.
THEOREM StopIsFinal == Spec => StopHolds
<1>1. Init => StopInv
  BY DEF Init, StopInv
<1>2. StopInv /\ [Next]_vars => StopInv'
  BY StopStep
<1>3. StopInv /\ [Next]_vars => [StopMoves]_vars
  BY StopStep
<1>4. QED
  BY <1>1, <1>2, <1>3, PTL DEF Spec, StopHolds, StopMoves

-----------------------------------------------------------------------------
(* What is ready *)

\* The types without those of the truth values.
Types ==
    /\ feed \in Versions /\ staged \subseteq Versions
    /\ squirrel \in [Ops -> [at : {"unused", "refused", "checking", "found", "over"},
                             version : Versions \cup {NoVersion}]]

Works(n) == squirrel[n].at \in {"checking", "found"}

\* One request at a time.
OneWorks == \A m, n \in Ops : Works(m) /\ Works(n) => m = n

\* What has been staged is no newer than what is on its way, and that no newer
\* than the feed.
InOrder ==
    /\ \A v \in staged : v <= feed
    /\ \A n \in Ops : squirrel[n].at = "found" =>
         /\ squirrel[n].version \in Versions /\ squirrel[n].version <= feed
         /\ \A v \in staged : v <= squirrel[n].version

\* Nothing is on its way any more when an update is ready.
ReadyAlone == status = "ready" => ~Working

ReadyInv == Types /\ OneWorks /\ InOrder /\ ReadyAlone /\ ReadyIsStaged

Orderly == "overlap" \notin Faults /\ "unnamed" \notin Faults

\* Steps that are not Squirrel's.
OwnStep ==
    /\ UNCHANGED <<squirrel, staged>> /\ feed' \in Versions /\ feed <= feed'
    /\ \/ UNCHANGED state
       \/ status # "ready" /\ status' # "ready"

LEMMA OwnKeeps == ReadyInv /\ OwnStep => ReadyInv'
<1> SUFFICES ASSUME ReadyInv, OwnStep PROVE ReadyInv'
  OBVIOUS
<1>1. Types' /\ OneWorks'
  BY DEF ReadyInv, OwnStep, Types, OneWorks, Works
<1>2. InOrder'
  BY DEF ReadyInv, OwnStep, Types, InOrder, Versions
<1>3. ReadyAlone' /\ ReadyIsStaged'
  BY DEF ReadyInv, OwnStep, ReadyAlone, ReadyIsStaged, Working, state
<1>4. QED
  BY <1>1, <1>2, <1>3 DEF ReadyInv

\* An event of Squirrel's: the operation ends or finds an update, and an update
\* that it stages is as new as any.
LEMMA AnswerKeeps ==
  ASSUME ReadyInv, NEW n \in Ops, NEW from \in {"refused", "checking", "found"},
         NEW to \in {"found", "over"}, NEW v \in Versions \cup {NoVersion},
         Answers(n, from, to, v), to = "found" => from = "checking" /\ v = feed
  PROVE  /\ Types /\ OneWorks' /\ squirrel' \in [Ops -> [at : {"unused", "refused", "checking", "found", "over"},
                             version : Versions \cup {NoVersion}]]
         /\ \A m \in Ops : m # n => squirrel'[m] = squirrel[m]
         /\ squirrel'[n].at = to /\ squirrel'[n].version = v
         /\ squirrel[n].at = from
         /\ ~Working => ~Working'
<1>1. /\ Types /\ squirrel[n].at = from
      /\ squirrel' = [squirrel EXCEPT ![n] = [at |-> to, version |-> v]]
  BY DEF ReadyInv, Answers
<1>2. /\ \A m \in Ops : m # n => squirrel'[m] = squirrel[m]
      /\ squirrel'[n].at = to /\ squirrel'[n].version = v
  BY <1>1 DEF Types
<1>3. squirrel' \in [Ops -> [at : {"unused", "refused", "checking", "found", "over"},
                             version : Versions \cup {NoVersion}]]
  BY <1>1 DEF Types
<1>4. \A m \in Ops : Works(m)' => Works(m)
  BY <1>1, <1>2 DEF Works
<1>5. OneWorks'
  BY <1>4 DEF ReadyInv, OneWorks
<1>6. ~Working => ~Working'
  BY <1>4 DEF Working, Works
<1>7. QED
  BY <1>1, <1>2, <1>3, <1>5, <1>6

\* An event that stages nothing and offers nothing.
LEMMA EventKeeps ==
  ASSUME ReadyInv, NEW n \in Ops, NEW from \in {"refused", "checking", "found"},
         NEW to \in {"found", "over"}, NEW v \in Versions \cup {NoVersion},
         Answers(n, from, to, v), to = "found" => from = "checking" /\ v = feed,
         UNCHANGED <<feed, staged>>,
         UNCHANGED <<status, version, integrity>> \/ (status # "ready" /\ status' # "ready")
  PROVE  ReadyInv'
<1>1. /\ Types /\ OneWorks'
      /\ squirrel' \in [Ops -> [at : {"unused", "refused", "checking", "found", "over"},
                                version : Versions \cup {NoVersion}]]
      /\ \A m \in Ops : m # n => squirrel'[m] = squirrel[m]
      /\ squirrel'[n].at = to /\ squirrel'[n].version = v
      /\ ~Working => ~Working'
  BY AnswerKeeps
<1>2. Types'
  BY <1>1 DEF Types
<1>3. InOrder'
  <2>1. feed \in Versions /\ feed <= feed
    BY <1>1 DEF Types, Versions
  <2>2. ASSUME NEW m \in Ops, squirrel'[m].at = "found"
        PROVE  /\ squirrel'[m].version \in Versions /\ squirrel'[m].version <= feed
               /\ \A w \in staged : w <= squirrel'[m].version
    <3>1. CASE m = n
      BY <1>1, <2>1, <2>2, <3>1 DEF ReadyInv, InOrder
    <3>2. CASE m # n
      BY <1>1, <2>2, <3>2 DEF ReadyInv, InOrder
    <3>3. QED
      BY <3>1, <3>2
  <2>3. QED
    BY <2>2 DEF ReadyInv, InOrder
<1>4. ReadyAlone' /\ ReadyIsStaged'
  BY <1>1 DEF ReadyInv, ReadyAlone, ReadyIsStaged
<1>5. QED
  BY <1>1, <1>2, <1>3, <1>4 DEF ReadyInv

\* An update that is staged is as new as any, and nothing follows it.
LEMMA DownloadedKeeps ==
  ASSUME ReadyInv, Orderly, NEW n \in Ops, UpdateDownloaded(n)
  PROVE  ReadyInv'
<1> DEFINE v == squirrel[n].version
<1>1. /\ Answers(n, "found", "over", v) /\ staged' = staged \cup {v} /\ HandleDownloaded(v)
      /\ feed' = feed
  BY DEF UpdateDownloaded, Orderly
<1>2. v \in Versions /\ (\A w \in staged : w <= v) /\ v \in Nat
  BY <1>1 DEF Answers, ReadyInv, InOrder, Versions
<1>3. /\ Types /\ OneWorks' /\ squirrel[n].at = "found"
      /\ squirrel' \in [Ops -> [at : {"unused", "refused", "checking", "found", "over"},
                                version : Versions \cup {NoVersion}]]
      /\ \A m \in Ops : m # n => squirrel'[m] = squirrel[m]
      /\ squirrel'[n].at = "over"
  BY <1>1, <1>2, AnswerKeeps
<1>4. \A m \in Ops : ~Works(m)'
  <2>1. \A m \in Ops : m # n => ~Works(m)
    BY <1>3 DEF ReadyInv, OneWorks, Works
  <2>2. QED
    BY <1>3, <2>1 DEF Works
<1>5. ~Working'
  BY <1>4 DEF Working, Works
<1>6. Types'
  BY <1>1, <1>2, <1>3 DEF Types
<1>7. InOrder'
  <2>1. v <= feed
    BY <1>3 DEF ReadyInv, InOrder
  <2>2. QED
    BY <1>1, <1>4, <2>1 DEF ReadyInv, InOrder, Works
<1>8. ReadyIsStaged'
  <2>1. status # "ready"
    BY <1>3 DEF ReadyInv, ReadyAlone, Working
  <2>2. status' = "ready" => version' = v /\ integrity' = v
    <3>1. Fails => status' # "ready"
      BY <2>1 DEF Fails, Failures
    <3>2. SetReady(v) /\ UNCHANGED integrity /\ status' = "ready" => version' = v /\ integrity' = v
      BY <3>1 DEF SetReady, Verified
    <3>3. v # NoVersion
      BY <1>2 DEF Versions, NoVersion
    <3>4. UNCHANGED state \/ (UNCHANGED integrity /\ (SetReady(v) \/ Fails))
      BY <1>1, <3>3 DEF HandleDownloaded
    <3>5. QED
      BY <2>1, <3>1, <3>2, <3>4 DEF state
  <2>3. \A w \in staged' : w <= v
    BY <1>1, <1>2
  <2>4. QED
    BY <1>1, <2>2, <2>3 DEF ReadyIsStaged
<1>9. QED
  BY <1>3, <1>5, <1>6, <1>7, <1>8 DEF ReadyInv, ReadyAlone

LEMMA ReadyStep == Orderly /\ ReadyInv /\ [Next]_vars => ReadyInv'
<1> SUFFICES ASSUME Orderly, ReadyInv, [Next]_vars PROVE ReadyInv'
  OBVIOUS
<1>0. feed \in Versions /\ feed \in Nat
  BY DEF ReadyInv, Types, Versions
<1>1. ASSUME MayCheck, BeginCheck, UNCHANGED <<feed, staged, integrity>> PROVE ReadyInv'
  <2>1. status # "ready"
    BY <1>1 DEF MayCheck
  <2>2. CASE FailsOnce /\ UNCHANGED squirrel
    BY <1>0, <1>1, <2>1, <2>2, OwnKeeps DEF FailsOnce, Fails, Failures, OwnStep
  <2>3. ASSUME NEW n \in Ops,
               squirrel' = [squirrel EXCEPT ![n].at =
                              IF Working /\ "overlap" \notin Faults THEN "refused" ELSE "checking"],
               UNCHANGED <<status, version>>
        PROVE  ReadyInv'
    <3>1. squirrel' = [squirrel EXCEPT ![n].at = IF Working THEN "refused" ELSE "checking"]
      BY <2>3 DEF Orderly
    <3>2. Types'
      BY <1>1, <3>1 DEF ReadyInv, Types
    <3>3. \A m \in Ops : m # n => squirrel'[m] = squirrel[m]
      BY <3>1 DEF ReadyInv, Types
    <3>4. squirrel'[n].at = IF Working THEN "refused" ELSE "checking"
      BY <3>1 DEF ReadyInv, Types
    <3>5. OneWorks'
      <4>1. CASE Working
        BY <3>3, <3>4, <4>1 DEF ReadyInv, OneWorks, Works
      <4>2. CASE ~Working
        BY <3>3, <3>4, <4>2 DEF OneWorks, Works, Working
      <4>3. QED
        BY <4>1, <4>2
    <3>6. InOrder'
      BY <1>1, <3>3, <3>4 DEF ReadyInv, InOrder
    <3>7. ReadyAlone' /\ ReadyIsStaged'
      BY <2>1, <2>3 DEF ReadyAlone, ReadyIsStaged
    <3>8. QED
      BY <3>2, <3>5, <3>6, <3>7 DEF ReadyInv
  <2>4. QED
    BY <1>1, <2>2, <2>3 DEF BeginCheck
<1>2. CASE CheckNow
  BY <1>1, <1>2 DEF CheckNow
<1>3. CASE ScheduledCheck
  BY <1>1, <1>3 DEF ScheduledCheck
<1>4. ASSUME OwnStep PROVE ReadyInv'
  BY <1>4, OwnKeeps
<1>5. CASE CheckTimesOut
  BY <1>0, <1>4, <1>5 DEF CheckTimesOut, FailsOnce, Fails, Failures, OwnStep, external, state
<1>6. ASSUME NEW n \in Ops, UpdateAvailable(n) PROVE ReadyInv'
  <2>1. Answers(n, "checking", "found", feed) /\ UNCHANGED <<feed, staged>>
    BY <1>6 DEF UpdateAvailable
  <2>2. PICK told \in {NoVersion, feed} : HandleAvailable(told)
    BY <1>6 DEF UpdateAvailable
  <2>3. UNCHANGED <<status, version, integrity>> \/ (status # "ready" /\ status' # "ready")
    BY <2>2 DEF HandleAvailable, SetCurrent, SetAvailable, state
  <2>4. QED
    BY <1>0, <2>1, <2>3, EventKeeps
<1>7. ASSUME NEW n \in Ops, UpdateNotAvailable(n) PROVE ReadyInv'
  <2>1. Answers(n, "checking", "over", NoVersion) /\ UNCHANGED <<feed, staged>>
    BY <1>7 DEF UpdateNotAvailable
  <2>2. UNCHANGED <<status, version, integrity>> \/ (status # "ready" /\ status' # "ready")
    BY <1>7 DEF UpdateNotAvailable, SetCurrent, state
  <2>3. QED
    BY <2>1, <2>2, EventKeeps
<1>8. ASSUME NEW n \in Ops, UpdateDownloaded(n) PROVE ReadyInv'
  BY <1>8, DownloadedKeeps
<1>9. ASSUME NEW n \in Ops, UpdateError(n) PROVE ReadyInv'
  <2>1. PICK from \in {"refused", "checking", "found"} : Answers(n, from, "over", squirrel[n].version)
    BY <1>9 DEF UpdateError
  <2>2. squirrel[n].version \in Versions \cup {NoVersion} /\ UNCHANGED <<feed, staged>>
    BY <1>9 DEF UpdateError, ReadyInv, Types
  <2>3. UNCHANGED <<status, version, integrity>> \/ (status # "ready" /\ status' # "ready")
    BY <1>9 DEF UpdateError, HandleError, Fails, Failures, state
  <2>4. QED
    BY <2>1, <2>2, <2>3, EventKeeps
<1>10. CASE FeedVerified
  <2>1. UNCHANGED <<squirrel, staged, feed>>
    BY <1>10 DEF FeedVerified, external
  <2>2. UNCHANGED state \/ (status # "ready" /\ status' # "ready")
    BY <1>10 DEF FeedVerified, Fails, Failures
  <2>3. QED
    BY <1>0, <1>4, <2>1, <2>2 DEF OwnStep
<1>11. CASE FeedNotVerified \/ DownloadTimesOut
  BY <1>0, <1>4, <1>11 DEF FeedNotVerified, DownloadTimesOut, FailsOnce, Fails, Failures, OwnStep, external, state
<1>12. CASE Stop
  BY <1>0, <1>4, <1>12 DEF Stop, OwnStep, external
<1>13. CASE Publish
  BY <1>0, <1>4, <1>13 DEF Publish, OwnStep, Versions
<1>14. CASE UNCHANGED vars
  BY <1>0, <1>4, <1>14 DEF vars, external, OwnStep
<1>15. QED
  BY <1>2, <1>3, <1>5, <1>6, <1>7, <1>8, <1>9, <1>10, <1>11, <1>12, <1>13, <1>14
  DEF Next, Event, VerifyEnds

\* As long as Squirrel refuses a second request and names what it downloaded,
\* what is offered is the verified version, staged, and the newest that is.
THEOREM ReadyHolds == Orderly => (Spec => []ReadyIsStaged)
<1> SUFFICES ASSUME Orderly PROVE Spec => []ReadyIsStaged
  OBVIOUS
<1>1. Init => ReadyInv
  BY DEF Init, ReadyInv, Types, OneWorks, Works, InOrder, ReadyAlone, ReadyIsStaged,
         Versions, Installed, NoVersion
<1>2. ReadyInv /\ [Next]_vars => ReadyInv'
  BY ReadyStep
<1>3. ReadyInv => ReadyIsStaged
  BY DEF ReadyInv
<1>4. QED
  BY <1>1, <1>2, <1>3, PTL DEF Spec

=============================================================================
