---------------------------- MODULE UpdateService ----------------------------
(***************************************************************************)
(* The updater of the main process (UpdateService) over Electron's native  *)
(* autoUpdater: a check, the verification of the feed's RELEASES file, and *)
(* the download that Squirrel makes by itself, known only by its events.   *)
(*                                                                         *)
(* A version is a number; 1 is installed.  The feed may publish a newer    *)
(* one at any time.  Squirrel's operations go on whatever the service      *)
(* thinks of them: they may answer late, or never.  Progress events change *)
(* only a percentage and are left out.                                     *)
(***************************************************************************)
EXTENDS Naturals

CONSTANTS
    Newest,   \* the newest version ever published
    MaxOps,   \* checks that Squirrel is asked for (bound)
    Faults    \* what Squirrel may do besides failing

\* "overlap": it works on two requests at once, where it would refuse the second;
\* "unnamed": "update-downloaded" comes without a release name.
FaultKinds == {"overlap", "unnamed"}

ASSUME UpdateAssumption ==
    Newest \in Nat \ {0} /\ MaxOps \in Nat /\ Faults \subseteq FaultKinds

Versions == 1..Newest
Installed == 1       \* currentVersion
NoVersion == 0
Ops == 1..MaxOps

VARIABLES
    feed,        \* the newest version of the feed
    squirrel,    \* Squirrel's operations, in the order they were asked for
    staged,      \* the versions it has staged
    status,      \* state.status
    version,     \* state.version, of an update
    check,       \* checkInFlight
    awaited,     \* checkForUpdates still waits for that lease
    verifying,   \* downloadAvailableUpdate awaits the integrity of this version
    integrity,   \* availableIntegrity.version
    download,    \* downloadInFlight.version
    timer,       \* the next scheduled check
    stopped

external == <<feed, squirrel, staged>>
state == <<status, version, integrity>>
leases == <<check, awaited, verifying, download>>
vars == <<external, state, leases, timer, stopped>>

Idle == [on |-> FALSE, version |-> NoVersion]
NoCheck == "none"

TypeOK ==
    /\ feed \in Versions /\ staged \subseteq Versions
    /\ squirrel \in [Ops -> [at : {"unused", "refused", "checking", "found", "over"},
                             version : Versions \cup {NoVersion}]]
    /\ status \in {"current", "available", "downloading", "ready", "failed", "offline"}
    /\ version \in Versions \cup {NoVersion}
    /\ check \in {NoCheck, "open", "timedOut"} /\ awaited \in BOOLEAN
    /\ verifying \in [on : BOOLEAN, version : Versions \cup {NoVersion}]
    /\ integrity \in Versions \cup {NoVersion}
    /\ download \in Versions \cup {NoVersion}
    /\ timer \in {"armed", "checking", "off"} /\ stopped \in BOOLEAN

\* start() on a packaged build with a feed.
Init ==
    /\ feed = Installed /\ staged = {}
    /\ squirrel = [n \in Ops |-> [at |-> "unused", version |-> NoVersion]]
    /\ status = "current" /\ version = Installed /\ integrity = NoVersion
    /\ check = NoCheck /\ awaited = FALSE /\ verifying = Idle /\ download = NoVersion
    /\ timer = "armed" /\ stopped = FALSE

-----------------------------------------------------------------------------
(* What is published.  Nothing is published over "ready". *)

Failures == {"failed", "offline"}

SetCurrent ==
    IF status = "ready" THEN UNCHANGED state
    ELSE status' = "current" /\ version' = Installed /\ integrity' = NoVersion

SetAvailable(v) ==
    status' = "available" /\ version' = v /\ integrity' = NoVersion

\* fail() or offline(), by what networkFailure makes of the error.
Fails ==
    IF status = "ready" THEN UNCHANGED <<status, version>>
    ELSE status' \in Failures /\ UNCHANGED version

\* The same where a failure already shown is kept.
FailsOnce == IF status \in Failures THEN UNCHANGED <<status, version>> ELSE Fails

\* The bug of a selected version that is not compared with the verified one.
VerifiedAny(v, i) == i # NoVersion

\* createReadyState: the verified version is the one selected.
Verified(v, i) == i # NoVersion /\ i = v

SetReady(v) ==
    IF Verified(v, integrity) THEN status' = "ready" /\ version' = v ELSE Fails

-----------------------------------------------------------------------------
(* Checks *)

Busy == status \in {"available", "downloading"}

MayCheck ==
    /\ ~stopped
    /\ check = NoCheck /\ download = NoVersion
    /\ ~Busy /\ status # "ready"

\* The lease is settled, and checkForUpdates and runScheduledCheck go on.
SettleCheck ==
    /\ check' = NoCheck /\ awaited' = FALSE
    /\ timer' = IF awaited /\ timer = "checking" /\ ~stopped THEN "armed" ELSE timer

Working == \E n \in Ops : squirrel[n].at \in {"checking", "found"}

\* beginCheck: autoUpdater.checkForUpdates returns nothing, or throws.
BeginCheck ==
    \/ \E n \in Ops :
         /\ squirrel[n].at = "unused" /\ \A m \in 1..(n - 1) : squirrel[m].at # "unused"
         /\ squirrel' = [squirrel EXCEPT ![n].at =
                IF Working /\ "overlap" \notin Faults THEN "refused" ELSE "checking"]
         /\ check' = "open" /\ awaited' = TRUE
         /\ UNCHANGED <<status, version>>
    \/ /\ FailsOnce
       /\ UNCHANGED <<squirrel, check, awaited>>

\* The renderer asks for a check (IPC.UPDATE_CHECK).
CheckNow ==
    /\ MayCheck /\ BeginCheck
    /\ UNCHANGED <<feed, staged, integrity, verifying, download, timer, stopped>>

\* The timer of the next check fires.
ScheduledCheck ==
    /\ timer = "armed"
    /\ MayCheck /\ BeginCheck
    /\ timer' = IF check' = "open" THEN "checking" ELSE "armed"
    /\ UNCHANGED <<feed, staged, integrity, verifying, download, stopped>>

\* withTimeout gives up on the lease: it stays in flight, marked.
CheckTimesOut ==
    /\ awaited
    /\ awaited' = FALSE /\ check' = "timedOut"
    /\ timer' = IF timer = "checking" /\ ~stopped THEN "armed" ELSE timer
    /\ IF download = NoVersion THEN FailsOnce ELSE UNCHANGED <<status, version>>
    /\ UNCHANGED <<external, integrity, verifying, download, stopped>>

-----------------------------------------------------------------------------
(* Squirrel's events.  stop() takes the listeners off. *)

Answers(n, from, to, v) ==
    /\ squirrel[n].at = from
    /\ squirrel' = [squirrel EXCEPT ![n] = [at |-> to, version |-> v]]

\* handleUpdateAvailable, with the version that is announced, if one is.
HandleAvailable(told) ==
    IF stopped \/ check = NoCheck \/ status = "ready"
    THEN UNCHANGED <<state, leases, timer>>
    ELSE /\ SettleCheck
         /\ UNCHANGED download
         /\ \/ /\ check = "timedOut"
               /\ UNCHANGED <<state, verifying>>
            \/ /\ check = "open" /\ told # NoVersion /\ told <= Installed
               /\ SetCurrent
               /\ UNCHANGED verifying
            \/ /\ check = "open" /\ (told = NoVersion \/ told > Installed)
               /\ SetAvailable(told)
               /\ verifying' = IF download = NoVersion
                               THEN [on |-> TRUE, version |-> told] ELSE verifying

\* Squirrel finds an update and starts to download it.
UpdateAvailable(n) ==
    /\ Answers(n, "checking", "found", feed)
    /\ \E told \in {NoVersion, feed} : HandleAvailable(told)
    /\ UNCHANGED <<feed, staged, stopped>>

\* handleUpdateNotAvailable
UpdateNotAvailable(n) ==
    /\ Answers(n, "checking", "over", NoVersion)
    /\ IF stopped \/ check = NoCheck THEN UNCHANGED <<state, leases, timer>>
       ELSE /\ SettleCheck
            /\ IF check = "open" /\ download = NoVersion THEN SetCurrent ELSE UNCHANGED state
            /\ UNCHANGED <<verifying, download>>
    /\ UNCHANGED <<feed, staged, stopped>>

\* handleUpdateDownloaded: the version is the event's, or else the lease's.
HandleDownloaded(name) ==
    IF stopped \/ download = NoVersion THEN UNCHANGED <<state, leases>>
    ELSE LET v == IF name # NoVersion THEN name ELSE download
         IN  /\ IF v > Installed THEN SetReady(v) ELSE Fails
             /\ download' = NoVersion
             /\ UNCHANGED <<integrity, check, awaited, verifying>>

\* Squirrel has staged what it found.
UpdateDownloaded(n) ==
    /\ Answers(n, "found", "over", squirrel[n].version)
    /\ staged' = staged \cup {squirrel[n].version}
    /\ \E name \in {squirrel[n].version} \cup (IF "unnamed" \in Faults THEN {NoVersion} ELSE {}) :
         HandleDownloaded(name)
    /\ UNCHANGED <<feed, timer, stopped>>

\* handleError: of the download if there is one, else of the check.
HandleError ==
    IF stopped \/ status = "ready" \/ (download = NoVersion /\ check = NoCheck)
    THEN UNCHANGED <<state, leases, timer>>
    ELSE /\ UNCHANGED <<integrity, verifying>>
         /\ IF download # NoVersion
            THEN /\ Fails /\ download' = NoVersion
                 /\ UNCHANGED <<check, awaited, timer>>
            ELSE /\ IF check = "open" THEN Fails ELSE UNCHANGED <<status, version>>
                 /\ SettleCheck
                 /\ UNCHANGED download

\* An operation of Squirrel fails, or was refused.
UpdateError(n) ==
    /\ \E from \in {"refused", "checking", "found"} : Answers(n, from, "over", squirrel[n].version)
    /\ HandleError
    /\ UNCHANGED <<feed, staged, stopped>>

-----------------------------------------------------------------------------
(* downloadAvailableUpdate after its await *)

\* verifyFeedIntegrity: the entry of the requested version, or the newest one.
FeedEntry == IF verifying.version # NoVersion THEN verifying.version ELSE feed

\* RELEASES was read: Squirrel's download, already on its way, gets a lease.
FeedVerified ==
    /\ verifying.on
    /\ verifying' = Idle
    /\ IF stopped \/ status = "ready" THEN UNCHANGED <<state, download>>
       ELSE /\ integrity' = FeedEntry
            /\ IF FeedEntry > Installed
               THEN /\ download' = FeedEntry
                    /\ status' = "downloading" /\ version' = FeedEntry
               ELSE Fails /\ UNCHANGED download
    /\ UNCHANGED <<external, check, awaited, timer, stopped>>

\* It could not be read in time, or at all: published even after stop().
FeedNotVerified ==
    /\ verifying.on
    /\ verifying' = Idle
    /\ Fails
    /\ UNCHANGED <<external, integrity, check, awaited, download, timer, stopped>>

\* The bug of a timeout that settles the lease and publishes nothing.
SettlesSilently ==
    /\ download # NoVersion
    /\ download' = NoVersion
    /\ UNCHANGED <<external, state, check, awaited, verifying, timer, stopped>>

\* handleNativeDownloadTimeout
DownloadTimesOut ==
    /\ download # NoVersion
    /\ FailsOnce
    /\ download' = NoVersion
    /\ UNCHANGED <<external, integrity, check, awaited, verifying, timer, stopped>>

\* stop(): leases are marked, and the native download's is settled with its timer.
Stop ==
    /\ ~stopped
    /\ stopped' = TRUE /\ timer' = "off"
    /\ check' = IF check = NoCheck THEN NoCheck ELSE "timedOut"
    /\ download' = NoVersion
    /\ UNCHANGED <<external, state, awaited, verifying>>

\* A release is published.
Publish ==
    /\ feed < Newest
    /\ feed' = feed + 1
    /\ UNCHANGED <<squirrel, staged, state, leases, timer, stopped>>

-----------------------------------------------------------------------------
VerifyEnds == FeedVerified \/ FeedNotVerified

Event(n) ==
    \/ UpdateAvailable(n)
    \/ UpdateNotAvailable(n)
    \/ UpdateDownloaded(n)
    \/ UpdateError(n)

Next ==
    \/ CheckNow
    \/ ScheduledCheck
    \/ CheckTimesOut
    \/ \E n \in Ops : Event(n)
    \/ VerifyEnds
    \/ DownloadTimesOut
    \/ Stop
    \/ Publish

\* The service's own timers fire and its one await is bounded by one.  Squirrel
\* owes it nothing.
Spec ==
    /\ Init /\ [][Next]_vars
    /\ WF_vars(CheckTimesOut) /\ WF_vars(VerifyEnds) /\ WF_vars(DownloadTimesOut)

-----------------------------------------------------------------------------
(* Properties *)

\* What is offered for installation is what the feed was verified for and what
\* quitAndInstall will start, the newest that Squirrel has staged: late and
\* overlapping downloads, and releases published meanwhile, do not come between.
ReadyIsStaged ==
    status = "ready" => /\ version \in staged /\ version = integrity
                        /\ \A v \in staged : v <= version

\* An update that is announced or downloading comes to an end whether or not
\* Squirrel ever says another word.
BusyEnds == Busy /\ ~stopped ~> ~Busy \/ stopped

\* A verification or an event that arrives after stop() takes no lease and asks
\* Squirrel for nothing: only a failure may still be shown.
StopHolds ==
    [][stopped => /\ stopped' /\ download' = download /\ check' # "open"
                  /\ (status' = status \/ status' \in Failures)]_vars

=============================================================================
