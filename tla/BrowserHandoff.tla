--------------------------- MODULE BrowserHandoff ---------------------------
(***************************************************************************)
(* A Chrome download handed to the desktop program: the service worker of  *)
(* the extension (extension/src/service-worker.js), which pauses the       *)
(* download and keeps a journal of claims; the desktop's pending decisions *)
(* (extension/HandoffServer.ts), which the user settles in a window; and,  *)
(* external, Chrome's own downloads.  They talk over loopback HTTP.        *)
(*                                                                         *)
(* Each coroutine of the worker and each request of the server is a        *)
(* sequence of steps between its awaits.  The worker may die at any of     *)
(* them and lose all but its journal; the desktop may restart and lose all *)
(* its decisions but not its transfers.  A download is captured once, so   *)
(* what belongs to one handoff is a function of the download.              *)
(***************************************************************************)
EXTENDS Integers, FiniteSets

CONSTANTS
    Downloads,   \* downloads that Chrome may create
    MaxClaims,   \* MAX_DOWNLOAD_CLAIMS
    MaxPending,  \* MAX_ACTIVE_HANDOFFS
    Faults,      \* what may go wrong
    Users,       \* what the user may do to a paused download in Chrome itself
    Alarms,      \* the browser has alarms
    MaxTrouble   \* faults that happen (bound)

FaultKinds == {"storage", "pause", "resume", "cancel",        \* a Chrome API rejects
               "unreachable", "timeout", "death", "restart",  \* an exchange is cut
               "present", "source", "start", "stranded",      \* the desktop fails
               "removeEarly", "removeLate"}

ASSUME HandoffAssumption ==
    /\ IsFiniteSet(Downloads)
    /\ MaxClaims \in Nat /\ MaxPending \in Nat /\ MaxTrouble \in Nat
    /\ Faults \subseteq FaultKinds /\ Users \subseteq {"resume", "cancel"}
    /\ Alarms \in BOOLEAN

VARIABLES
    chrome,    \* the download in Chrome
    claim,     \* the phase of its entry in the journal (chrome.storage.local)
    worker,    \* the coroutine that has it in automaticDownloadsInFlight
    timer,     \* automaticDecisionTimers
    sweep,     \* recoverAutomaticDownloads: the claims it read and has still to visit
    sweeping,  \* the download that it is resuming
    awake,     \* the service worker
    rec,       \* pendingHandoffs; gone: known once and forgotten
    op,        \* approval or rollback of the record (resolving)
    post,      \* the POST that offered the download
    window,    \* Start download windows on the screen
    transfer,  \* the desktop's transfer
    late,      \* past expiresAt
    told,      \* what the worker knew at most (history, not program state)
    trouble    \* faults so far

extension == <<claim, worker, timer, sweep, sweeping, awake>>
desktop == <<rec, op, post, window, transfer>>
vars == <<chrome, claim, worker, timer, sweep, sweeping, awake,
          rec, op, post, window, transfer, late, told, trouble>>

Phases == {"none", "intent", "paused", "pending"}
WorkerPcs == {"idle", "claiming", "pausing", "marking", "sending", "posted", "noting",
              "resuming", "clearing", "looking", "asking", "cancelling", "undoing",
              "waiting", "dropping"}

TypeOK ==
    /\ chrome \in [Downloads -> {"new", "running", "paused", "cancelled", "over"}]
    /\ claim \in [Downloads -> Phases] /\ sweep \in [Downloads -> Phases]
    /\ worker \in [Downloads -> WorkerPcs]
    /\ timer \subseteq Downloads /\ sweeping \subseteq Downloads
    /\ awake \in {"down", "starting", "up"}
    /\ rec \in [Downloads -> {"none", "pending", "accepted", "rejected", "gone"}]
    /\ op \in [Downloads -> {"none", "adding", "starting", "removing"}]
    /\ post \in [Downloads -> {"none", "presenting", "dropped", "delivered", "refused"}]
    /\ window \subseteq Downloads /\ late \subseteq Downloads
    /\ transfer \in [Downloads -> {"none", "live", "removed"}]
    /\ told \in [Downloads -> {"nothing", "pending", "accepted", "user"}]
    /\ trouble \in 0..MaxTrouble

Init ==
    /\ chrome = [d \in Downloads |-> "new"]
    /\ claim = [d \in Downloads |-> "none"]
    /\ worker = [d \in Downloads |-> "idle"]
    /\ timer = {} /\ sweeping = {} /\ awake = "starting"
    /\ sweep = [d \in Downloads |-> "none"]
    /\ rec = [d \in Downloads |-> "none"] /\ op = [d \in Downloads |-> "none"]
    /\ post = [d \in Downloads |-> "none"] /\ window = {}
    /\ transfer = [d \in Downloads |-> "none"]
    /\ late = {} /\ told = [d \in Downloads |-> "nothing"] /\ trouble = 0

-----------------------------------------------------------------------------
(* Steps of the worker's coroutines *)

Trouble(f) == f \in Faults /\ trouble < MaxTrouble /\ trouble' = trouble + 1
NoTrouble == trouble' = trouble

Go(d, pc) == worker' = [worker EXCEPT ![d] = pc]
Claim(d, phase) == claim' = [claim EXCEPT ![d] = phase]

\* The poll of the decision is scheduled again and the coroutine ends.
PollLater(d) == Go(d, "idle") /\ timer' = timer \cup {d}

\* The catch of pollPendingBrowserHandoff.
PollFails(d) ==
    IF d \in late THEN Go(d, "resuming") /\ timer' = timer ELSE PollLater(d)

\* What the user took back is no longer the worker's business.
Learn(d, what) ==
    told' = IF told[d] = "user" THEN told ELSE [told EXCEPT ![d] = what]

Claims == {d \in Downloads : claim[d] # "none"}

(* captureAutomaticDownload *)

\* Chrome creates a download, which wakes the worker if need be.
Created(d) ==
    /\ chrome[d] = "new" /\ worker[d] = "idle"
    /\ chrome' = [chrome EXCEPT ![d] = "running"]
    /\ Go(d, "claiming")
    /\ awake' = IF awake = "down" THEN "starting" ELSE awake
    /\ UNCHANGED <<claim, timer, sweep, sweeping, desktop, late, told, trouble>>

\* reserveDownloadClaim
Reserve(d) ==
    /\ worker[d] = "claiming"
    /\ \/ Cardinality(Claims) < MaxClaims /\ Claim(d, "intent") /\ Go(d, "pausing") /\ NoTrouble
       \/ Cardinality(Claims) >= MaxClaims /\ Go(d, "idle") /\ UNCHANGED claim /\ NoTrouble
       \/ Trouble("storage") /\ Go(d, "idle") /\ UNCHANGED claim
    /\ UNCHANGED <<chrome, timer, sweep, sweeping, awake, desktop, late, told>>

\* chrome.downloads.pause, which rejects a download that has ended.
Pause(d) ==
    /\ worker[d] = "pausing"
    /\ \/ /\ chrome[d] = "running" /\ NoTrouble
          /\ chrome' = [chrome EXCEPT ![d] = "paused"] /\ Go(d, "marking")
       \/ /\ chrome[d] # "running" /\ NoTrouble /\ UNCHANGED chrome /\ Go(d, "resuming")
       \/ Trouble("pause") /\ UNCHANGED chrome /\ Go(d, "resuming")
    /\ UNCHANGED <<claim, timer, sweep, sweeping, awake, desktop, late, told>>

Mark(d) ==
    /\ worker[d] = "marking"
    /\ \/ Claim(d, "paused") /\ Go(d, "sending") /\ NoTrouble
       \/ Trouble("storage") /\ Go(d, "resuming") /\ UNCHANGED claim
    /\ UNCHANGED <<chrome, timer, sweep, sweeping, awake, desktop, late, told>>

Resolving(d) == op[d] # "none"

\* prunePendingHandoffs runs before a record is looked at.
State(d) ==
    IF rec[d] = "pending" /\ ~Resolving(d) /\ d \in late THEN "expired" ELSE rec[d]

ActivePending == {d \in Downloads : State(d) = "pending"}
ActivePosts == {d \in Downloads : post[d] \in {"presenting", "dropped"}}

Admits == Cardinality(ActivePosts) < MaxPending /\ Cardinality(ActivePending) < MaxPending

\* handoffUrl: challenge and POST, up to createPendingHandoff on the desktop.
Send(d) ==
    /\ worker[d] = "sending"
    /\ \/ /\ Admits /\ NoTrouble
          /\ rec' = [rec EXCEPT ![d] = "pending"] /\ post' = [post EXCEPT ![d] = "presenting"]
          /\ Go(d, "posted")
       \/ ~Admits /\ NoTrouble /\ Go(d, "resuming") /\ UNCHANGED <<rec, post>>
       \/ Trouble("unreachable") /\ Go(d, "resuming") /\ UNCHANGED <<rec, post>>
    /\ UNCHANGED <<chrome, claim, timer, sweep, sweeping, awake, op, window, transfer, late, told>>

\* The answer arrives; one that promises a decision already expired is refused.
Answered(d) ==
    /\ worker[d] = "posted" /\ post[d] \in {"delivered", "refused"}
    /\ Go(d, IF post[d] = "delivered" /\ d \notin late THEN "noting" ELSE "resuming")
    /\ UNCHANGED <<chrome, claim, timer, sweep, sweeping, awake, desktop, late, told, trouble>>

\* HANDOFF_TIMEOUT_MS: the connection is closed.
GivesUp(d) ==
    /\ worker[d] = "posted" /\ Trouble("timeout")
    /\ Go(d, "resuming")
    /\ post' = IF post[d] = "presenting" THEN [post EXCEPT ![d] = "dropped"] ELSE post
    /\ UNCHANGED <<chrome, claim, timer, sweep, sweeping, awake, rec, op, window, transfer,
                   late, told>>

\* The decision to come is written down.
Note(d) ==
    /\ worker[d] = "noting"
    /\ \/ Claim(d, "pending") /\ PollLater(d) /\ Learn(d, "pending") /\ NoTrouble
       \/ Trouble("storage") /\ Go(d, "resuming") /\ UNCHANGED <<claim, timer, told>>
    /\ UNCHANGED <<chrome, sweep, sweeping, awake, desktop, late>>

(* resumeOwnedDownload, clearDownloadClaim *)

\* (mutant) The claim is given up before the download is resumed.
ResumeUnowned(d) ==
    /\ worker[d] = "resuming" /\ Claim(d, "none")
    /\ \/ /\ NoTrouble /\ Go(d, "clearing")
          /\ chrome' = IF chrome[d] = "paused" THEN [chrome EXCEPT ![d] = "running"] ELSE chrome
       \/ Trouble("resume") /\ Go(d, "idle") /\ UNCHANGED chrome
    /\ UNCHANGED <<timer, sweep, sweeping, awake, desktop, late, told>>

\* A resumption that fails after a rollback is tried again by another poll, any
\* other by the next recovery (after an approval the model allows either).
ResumeFails(d) == told[d] = "accepted" /\ PollLater(d)

\* A download that is not paused is left as it is; one that cannot be resumed
\* keeps its claim.
Resume(d) ==
    /\ worker[d] = "resuming"
    /\ \/ /\ NoTrouble /\ Go(d, "clearing")
          /\ chrome' = IF chrome[d] = "paused" THEN [chrome EXCEPT ![d] = "running"] ELSE chrome
          /\ UNCHANGED timer
       \/ /\ Trouble("resume") /\ UNCHANGED chrome
          /\ ResumeFails(d) \/ (Go(d, "idle") /\ UNCHANGED timer)
    /\ UNCHANGED <<claim, sweep, sweeping, awake, desktop, late, told>>

\* The end of resumeOwnedDownload (clearing), of a poll that found the download
\* out of its hands, or of a cancellation (dropping).
Clear(d) ==
    /\ worker[d] \in {"clearing", "dropping"}
    /\ \/ Claim(d, "none") /\ timer' = timer \ {d} /\ Go(d, "idle") /\ NoTrouble
       \/ /\ Trouble("storage") /\ UNCHANGED claim
          /\ \/ worker[d] = "dropping" /\ claim[d] = "pending" /\ PollFails(d)
             \/ worker[d] = "clearing" /\ ResumeFails(d)
             \/ /\ worker[d] = "clearing" \/ claim[d] # "pending"
                /\ Go(d, "idle") /\ timer' = timer \ {d}
    /\ UNCHANGED <<chrome, sweep, sweeping, awake, desktop, late, told>>

(* pollPendingBrowserHandoff, finishAcceptedDownload *)

\* A poll of a download that is in flight is dropped.
Fire(d) ==
    /\ d \in timer /\ timer' = timer \ {d}
    /\ IF worker[d] = "idle" THEN Go(d, "looking") ELSE UNCHANGED worker
    /\ UNCHANGED <<chrome, claim, sweep, sweeping, awake, desktop, late, told, trouble>>

Look(d) ==
    /\ worker[d] = "looking"
    /\ Go(d, CASE claim[d] # "pending" -> "idle"
               [] claim[d] = "pending" /\ chrome[d] # "paused" -> "dropping"
               [] claim[d] = "pending" /\ chrome[d] = "paused" ->
                    IF d \in late THEN "resuming" ELSE "asking")
    /\ UNCHANGED <<chrome, claim, timer, sweep, sweeping, awake, desktop, late, told, trouble>>

\* (mutant) An unknown handoff is taken for one that was refused.
AskAndTrust(d) ==
    /\ worker[d] = "asking"
    /\ \/ Trouble("unreachable") /\ PollFails(d) /\ UNCHANGED told
       \/ NoTrouble /\ State(d) = "pending" /\ PollLater(d) /\ UNCHANGED told
       \/ /\ NoTrouble /\ State(d) = "accepted"
          /\ Go(d, "cancelling") /\ Learn(d, "accepted") /\ UNCHANGED timer
       \/ /\ NoTrouble /\ State(d) \in {"rejected", "expired", "none", "gone"}
          /\ Go(d, "resuming") /\ UNCHANGED <<timer, told>>
    /\ UNCHANGED <<chrome, claim, sweep, sweeping, awake, desktop, late>>

\* GET of the decision: 404 for a record the desktop does not have.
Ask(d) ==
    /\ worker[d] = "asking"
    /\ \/ Trouble("unreachable") /\ PollFails(d) /\ UNCHANGED told
       \/ NoTrouble /\ State(d) \in {"none", "gone"} /\ PollFails(d) /\ UNCHANGED told
       \/ NoTrouble /\ State(d) = "pending" /\ PollLater(d) /\ UNCHANGED told
       \/ /\ NoTrouble /\ State(d) = "accepted"
          /\ Go(d, "cancelling") /\ Learn(d, "accepted") /\ UNCHANGED timer
       \/ /\ NoTrouble /\ State(d) \in {"rejected", "expired"}
          /\ Go(d, "resuming") /\ UNCHANGED <<timer, told>>
    /\ UNCHANGED <<chrome, claim, sweep, sweeping, awake, desktop, late>>

\* finishAcceptedDownload: a download that was paused when it was looked up is
\* cancelled, although the user may have resumed it since.
Cancel(d) ==
    /\ worker[d] = "cancelling"
    /\ \/ /\ chrome[d] \in {"paused", "running"} /\ NoTrouble /\ Go(d, "dropping")
          /\ chrome' = [chrome EXCEPT ![d] = "cancelled"]
       \/ chrome[d] # "paused" /\ NoTrouble /\ Go(d, "dropping") /\ UNCHANGED chrome
       \/ /\ chrome[d] \in {"paused", "running"} /\ Trouble("cancel") /\ Go(d, "undoing")
          /\ UNCHANGED chrome
    /\ UNCHANGED <<claim, timer, sweep, sweeping, awake, desktop, late, told>>

MayRollBack(d) == rec[d] = "accepted" /\ ~Resolving(d)

\* (mutant) Chrome goes on whether or not the desktop could roll back.
UndoOrResume(d) ==
    /\ worker[d] = "undoing"
    /\ \/ /\ MayRollBack(d) /\ NoTrouble
          /\ op' = [op EXCEPT ![d] = "removing"] /\ Go(d, "waiting") /\ UNCHANGED timer
       \/ ~MayRollBack(d) /\ NoTrouble /\ Go(d, "resuming") /\ UNCHANGED <<op, timer>>
       \/ Trouble("unreachable") /\ Go(d, "resuming") /\ UNCHANGED <<op, timer>>
    /\ UNCHANGED <<chrome, claim, sweep, sweeping, awake, rec, post, window, transfer, late, told>>

\* rollbackAcceptedBrowserHandoff, up to the removal on the desktop.
Undo(d) ==
    /\ worker[d] = "undoing"
    /\ \/ /\ MayRollBack(d) /\ NoTrouble
          /\ op' = [op EXCEPT ![d] = "removing"] /\ Go(d, "waiting") /\ UNCHANGED timer
       \/ ~MayRollBack(d) /\ NoTrouble /\ PollLater(d) /\ UNCHANGED op
       \/ Trouble("unreachable") /\ PollLater(d) /\ UNCHANGED op
    /\ UNCHANGED <<chrome, claim, sweep, sweeping, awake, rec, post, window, transfer, late, told>>

\* STATUS_TIMEOUT_MS: the desktop goes on with the removal.
UndoTimesOut(d) ==
    /\ worker[d] = "waiting" /\ Trouble("timeout")
    /\ PollLater(d)
    /\ UNCHANGED <<chrome, claim, sweep, sweeping, awake, desktop, late, told>>

(* recoverAutomaticDownloads *)

Nothing == [d \in Downloads |-> "none"]

\* (mutant) Only the claims without a pending decision are recovered.
VisitUnsent(claims) ==
    LET owned == {d \in Downloads : claims[d] \in {"intent", "paused"} /\ worker[d] = "idle"} IN
    \/ /\ owned = {}
       /\ timer' = timer /\ sweep' = Nothing /\ sweeping' = {} /\ UNCHANGED worker
    \/ \E d \in owned, passed \in SUBSET (Downloads \ owned) :
         /\ Go(d, "resuming") /\ sweeping' = {d} /\ timer' = timer
         /\ sweep' = [e \in Downloads |-> IF e \in passed \cup {d} THEN "none" ELSE claims[e]]

\* The loop up to its next await, the resumption of the first download that is
\* not in flight; without one it ends.  The polls of pending decisions that it
\* passed are scheduled, and what else it passed is not visited again (claims are
\* visited in the order of their ids, here in any order).
Visit(claims) ==
    LET owned == {d \in Downloads : claims[d] \in {"intent", "paused"} /\ worker[d] = "idle"}
        pending == {d \in Downloads : claims[d] = "pending"} IN
    \/ /\ owned = {}
       /\ timer' = timer \cup pending
       /\ sweep' = Nothing /\ sweeping' = {} /\ UNCHANGED worker
    \/ \E d \in owned, passed \in SUBSET (Downloads \ owned) :
         /\ Go(d, "resuming") /\ sweeping' = {d} /\ timer' = timer \cup (passed \cap pending)
         /\ sweep' = [e \in Downloads |-> IF e \in passed \cup {d} THEN "none" ELSE claims[e]]

\* On start, and on each alarm (one recovery at a time).
SweepStart ==
    /\ sweeping = {} /\ (awake = "starting" \/ (awake = "up" /\ Alarms))
    /\ awake' = "up"
    /\ Visit(claim)
    /\ UNCHANGED <<chrome, claim, desktop, late, told, trouble>>

SweepNext ==
    /\ sweeping # {} /\ \A d \in sweeping : worker[d] = "idle"
    /\ Visit(sweep)
    /\ UNCHANGED <<chrome, claim, awake, desktop, late, told, trouble>>

\* The browser stops the worker: its coroutines, timers and connections end.
Death ==
    /\ awake # "down" /\ Trouble("death")
    /\ awake' = "down" /\ timer' = {} /\ sweeping' = {} /\ sweep' = Nothing
    /\ worker' = [d \in Downloads |-> "idle"]
    /\ post' = [d \in Downloads |-> IF post[d] = "presenting" THEN "dropped" ELSE post[d]]
    /\ UNCHANGED <<chrome, claim, rec, op, window, transfer, late, told>>

\* The alarm wakes it.
Wake ==
    /\ awake = "down" /\ Alarms /\ awake' = "starting"
    /\ UNCHANGED <<chrome, claim, worker, timer, sweep, sweeping, desktop, late, told, trouble>>

-----------------------------------------------------------------------------
(* Steps of the desktop *)

\* rejectBrowserHandoff: without effect on a record that is settled or being approved.
Reject(d) ==
    rec' = IF State(d) = "pending" /\ ~Resolving(d) THEN [rec EXCEPT ![d] = "rejected"] ELSE rec

\* The Start download window is ready, or its page fails; a client that hung up
\* by then is noticed, or is sent an answer that goes nowhere.
Present(d) ==
    /\ post[d] \in {"presenting", "dropped"}
    /\ \/ /\ NoTrouble /\ window' = window \cup {d} /\ UNCHANGED rec
          /\ post' = [post EXCEPT ![d] = "delivered"]
       \/ /\ NoTrouble /\ post[d] = "dropped" /\ window' = window \cup {d}
          /\ Reject(d) /\ post' = [post EXCEPT ![d] = "refused"]
       \/ /\ Trouble("present") /\ UNCHANGED window
          /\ Reject(d) /\ post' = [post EXCEPT ![d] = "refused"]
    /\ UNCHANGED <<chrome, extension, op, transfer, late, told>>

\* (mutant) The decision is announced before the transfer exists.
ApproveAtOnce(d) ==
    /\ d \in window /\ State(d) = "pending" /\ ~Resolving(d)
    /\ op' = [op EXCEPT ![d] = "adding"] /\ rec' = [rec EXCEPT ![d] = "accepted"]
    /\ UNCHANGED <<chrome, extension, post, window, transfer, late, told, trouble>>

\* approveBrowserHandoff, up to addBrowserHandoff's proof of the source.
Approve(d) ==
    /\ d \in window /\ State(d) = "pending" /\ ~Resolving(d)
    /\ op' = [op EXCEPT ![d] = "adding"]
    /\ UNCHANGED <<chrome, extension, rec, post, window, transfer, late, told, trouble>>

\* addDownload and resume: the transfer may run before resume() returns.
Added(d) ==
    /\ op[d] = "adding"
    /\ \/ /\ NoTrouble /\ op' = [op EXCEPT ![d] = "starting"]
          /\ transfer' = [transfer EXCEPT ![d] = "live"]
       \/ Trouble("source") /\ op' = [op EXCEPT ![d] = "none"] /\ UNCHANGED transfer
    /\ UNCHANGED <<chrome, extension, rec, post, window, late, told>>

\* The record is accepted, or the transfer is removed and the record still
\* pending.  That removal may fail as well, and nobody is told.
Started(d) ==
    /\ op[d] = "starting" /\ op' = [op EXCEPT ![d] = "none"]
    /\ \/ /\ NoTrouble /\ window' = window \ {d} /\ UNCHANGED transfer
          /\ rec' = [rec EXCEPT ![d] = "accepted"]
       \/ /\ Trouble("start") /\ UNCHANGED <<rec, window>>
          /\ transfer' = [transfer EXCEPT ![d] = "removed"]
       \/ Trouble("stranded") /\ UNCHANGED <<rec, window, transfer>>
    /\ UNCHANGED <<chrome, extension, post, late, told>>

\* The user keeps the download in the browser, or closes the window.
Decline(d) ==
    /\ d \in window /\ window' = window \ {d} /\ Reject(d)
    /\ UNCHANGED <<chrome, extension, op, post, transfer, late, told, trouble>>

\* The end of rollbackBrowserHandoff, and its answer if it is still awaited.  A
\* removal may fail before it changes anything or when the item is already gone.
Removed(d) ==
    /\ op[d] = "removing" /\ op' = [op EXCEPT ![d] = "none"]
    /\ \/ /\ NoTrouble /\ transfer' = [transfer EXCEPT ![d] = "removed"]
          /\ rec' = IF rec[d] = "accepted" THEN [rec EXCEPT ![d] = "rejected"] ELSE rec
          /\ IF worker[d] = "waiting" THEN Go(d, "resuming") ELSE UNCHANGED worker
          /\ UNCHANGED timer
       \/ /\ \/ Trouble("removeEarly") /\ UNCHANGED transfer
             \/ Trouble("removeLate") /\ transfer' = [transfer EXCEPT ![d] = "removed"]
          /\ IF worker[d] = "waiting" THEN PollLater(d) ELSE UNCHANGED <<worker, timer>>
          /\ UNCHANGED rec
    /\ UNCHANGED <<chrome, claim, sweep, sweeping, awake, post, window, late, told>>

\* The tombstone of a settled record is pruned, ten minutes after it settled.
Forget(d) ==
    /\ d \in late /\ State(d) \in {"accepted", "rejected", "expired"}
    /\ rec' = [rec EXCEPT ![d] = "gone"]
    /\ UNCHANGED <<chrome, extension, op, post, window, transfer, late, told, trouble>>

\* The desktop program is quit or dies, and starts again.
Restart ==
    /\ Trouble("restart")
    /\ rec' = [d \in Downloads |-> IF rec[d] = "none" THEN "none" ELSE "gone"]
    /\ post' = [d \in Downloads |->
                  IF post[d] \in {"presenting", "dropped"} THEN "refused" ELSE post[d]]
    /\ op' = [d \in Downloads |-> "none"] /\ window' = {}
    /\ \E undone \in SUBSET {d \in Downloads : op[d] = "removing"} :
         transfer' = [d \in Downloads |-> IF d \in undone THEN "removed" ELSE transfer[d]]
    /\ LET cut == {d \in Downloads : worker[d] = "waiting"} IN
         /\ worker' = [d \in Downloads |-> IF d \in cut THEN "idle" ELSE worker[d]]
         /\ timer' = timer \cup cut
    /\ UNCHANGED <<chrome, claim, sweep, sweeping, awake, late, told>>

-----------------------------------------------------------------------------
(* The world: Chrome, its user and the clock *)

\* A running download completes or is interrupted.
Ends(d) ==
    /\ chrome[d] = "running" /\ chrome' = [chrome EXCEPT ![d] = "over"]
    /\ UNCHANGED <<extension, desktop, late, told, trouble>>

\* The user resumes or cancels the paused download in Chrome.
TakesBack(d) ==
    /\ chrome[d] = "paused"
    /\ \/ "resume" \in Users /\ chrome' = [chrome EXCEPT ![d] = "running"]
       \/ "cancel" \in Users /\ chrome' = [chrome EXCEPT ![d] = "over"]
    /\ told' = [told EXCEPT ![d] = "user"]
    /\ UNCHANGED <<extension, desktop, late, trouble>>

\* expiresAt passes.
Expire(d) ==
    /\ rec[d] # "none" /\ d \notin late /\ late' = late \cup {d}
    /\ UNCHANGED <<chrome, extension, desktop, told, trouble>>

-----------------------------------------------------------------------------
WorkerStep(d) ==
    \/ Reserve(d) \/ Pause(d) \/ Mark(d) \/ Send(d) \/ Answered(d) \/ Note(d) \/ Resume(d)
    \/ Clear(d) \/ Look(d) \/ Ask(d) \/ Cancel(d) \/ Undo(d)

Step(d) ==
    \/ Created(d) \/ WorkerStep(d) \/ GivesUp(d) \/ Fire(d) \/ UndoTimesOut(d)
    \/ Present(d) \/ Approve(d) \/ Added(d) \/ Started(d) \/ Decline(d) \/ Removed(d)
    \/ Forget(d) \/ Ends(d) \/ TakesBack(d) \/ Expire(d)

Next ==
    \/ \E d \in Downloads : Step(d)
    \/ SweepStart \/ SweepNext \/ Death \/ Wake \/ Restart

Spec == Init /\ [][Next]_vars

\* Promises of the worker and of the desktop resolve, timers and alarms fire and
\* time passes; nobody need decide anything.  Faults end with MaxTrouble.
FairSpec ==
    /\ Spec
    /\ \A d \in Downloads :
         /\ WF_vars(WorkerStep(d)) /\ WF_vars(Fire(d)) /\ WF_vars(Expire(d))
         /\ WF_vars(Present(d)) /\ WF_vars(Added(d) \/ Started(d) \/ Removed(d))
    /\ WF_vars(SweepStart) /\ WF_vars(SweepNext) /\ WF_vars(Wake)

-----------------------------------------------------------------------------
(* What is promised *)

\* Chrome has, or had, its own copy to itself.
KeptInChrome(d) == chrome[d] \in {"running", "over"} /\ told[d] # "user"
Duplicated(d) == KeptInChrome(d) /\ transfer[d] = "live"

\* A paused download is in the journal, so that whatever dies, somebody will
\* resume or cancel it (the order of reserve, pause, resume and clear).
PausedIsOwned == \A d \in Downloads : chrome[d] = "paused" => claim[d] # "none"

\* Until a decision expires, Chrome's copy and the desktop's are never both kept.
OneCopy == \A d \in Downloads \ late : ~Duplicated(d)

\* The same, worker deaths and lost writes included, from the moment the worker
\* has noted the pending decision in its journal.
NotedOneCopy ==
    \A d \in Downloads \ late : told[d] \in {"pending", "accepted"} => ~Duplicated(d)

\* Chrome's copy is cancelled only for one that the desktop has and keeps.
NeverLost == \A d \in Downloads : chrome[d] = "cancelled" => transfer[d] = "live"

\* A worker that has learnt of the desktop's transfer resumes Chrome only after
\* a rollback (finishAcceptedDownload).
RollbackFirst == \A d \in Downloads : told[d] = "accepted" => ~Duplicated(d)

\* No download stays paused for ever, whatever failed and whoever never decides.
PauseEnds == \A d \in Downloads : chrome[d] = "paused" ~> chrome[d] # "paused"

=============================================================================
