---------------------------- MODULE Provisioning ----------------------------
(***************************************************************************)
(* The worker on an SSH host: SshProvisioningService runs provision.py     *)
(* there to apply a specification, finalize it, roll it back or remove it. *)
(*                                                                         *)
(* The script keeps the worker's directory, the one it replaces, a state   *)
(* file and a journal, each changed by a rename or a removal of its own;   *)
(* it may die between any two, docker may fail, and the answer may be lost *)
(* while the script goes on.  The lock of the host makes scripts follow    *)
(* one another.  A specification stands for the bundle, the port and the   *)
(* keys that its hash covers.                                              *)
(***************************************************************************)
EXTENDS Naturals, FiniteSets

CONSTANTS
    Specs,       \* specifications that may be asked for
    Faults,      \* what may fail
    MaxCalls,    \* calls of provision() and remove() (bound)
    MaxTrouble   \* deaths and lost answers (bound)

FaultKinds == {"preflight", "stage", "up", "down", "verify", "check", "lost", "crash",
               "torn", "window", "tornPrevious", "halfRemoved"}

ASSUME ProvisioningAssumption ==
    /\ Specs \cap {"none", "torn"} = {} /\ Faults \subseteq FaultKinds
    /\ MaxCalls \in Nat /\ MaxTrouble \in Nat

\* A directory: absent, of a specification, or what a removal left of one.
Dirs == Specs \cup {"none", "torn"}
Marks == Specs \cup {"none"}

VARIABLES
    current, previous,      \* the directories current/ and previous/
    state, previousState,   \* the specHash in state.json and previous-state.json
    journal,                \* transaction.json, <<>> for none
    up,                     \* the specification of the running container
    relay,                  \* the specification authorized_keys was last written for
    volume,                 \* the volume with the worker's host key exists
    at,                     \* where the script is; "idle" when none runs
    op,                     \* its action
    old,                    \* its previous_existed
    listening,              \* its answer will be heard
    client,                 \* where provisionLocked or removeLocked is
    applied,                \* its appliedTransaction
    spec,                   \* its request.specHash
    listed,                 \* the inventory holds the host key of a provisioned worker
    pinned,                 \* and nobody has asked for its removal
    calls, trouble

dirs == <<current, previous>>
marks == <<state, previousState>>
live == <<up, relay, volume>>
talk == <<listening, client, applied, listed, pinned>>
call == <<op, spec, calls, trouble>>
vars == <<dirs, marks, journal, live, at, old, talk, call>>

Journals == {<<>>} \cup [spec : Specs, phase : {"prepared", "swapped", "applied"}, old : BOOLEAN]
Labels == {"idle", "apply", "resume", "resumeRelay", "resumeNote", "resumeSay",
           "match", "matchRelay", "matchSay",
           "stage", "clearPrevious", "clearSaved", "save", "swapOut", "swapIn", "note",
           "build", "relay", "record", "verify", "finish", "say",
           "undo", "undoDrop", "undoBack", "undoState", "undoUp", "undoEnd",
           "recover", "recDown", "recDrop", "recBack", "recState", "recUp", "recEnd",
           "outDown", "outDrop", "outRelay", "outState",
           "rollback", "finalize", "finPrevious", "finSaved", "finEnd", "finSay",
           "remove", "removeRelay", "removeRoot"}
Clients == {"free", "applying", "checking", "finalize", "finalizing", "again", "retrying",
            "roll", "rolling", "removing", "succeeded"}

TypeOK ==
    /\ current \in Dirs /\ previous \in Dirs /\ state \in Marks /\ previousState \in Marks
    /\ journal \in Journals /\ up \in Marks /\ relay \in Marks /\ volume \in BOOLEAN
    /\ at \in Labels /\ op \in {"apply", "finalize", "rollback", "remove"} /\ old \in BOOLEAN
    /\ listening \in BOOLEAN /\ client \in Clients /\ applied \in BOOLEAN
    /\ spec \in Specs /\ listed \in BOOLEAN /\ pinned \in BOOLEAN
    /\ calls \in 0..MaxCalls /\ trouble \in 0..MaxTrouble

Init ==
    /\ current = "none" /\ previous = "none" /\ state = "none" /\ previousState = "none"
    /\ journal = <<>> /\ up = "none" /\ relay = "none" /\ volume = FALSE
    /\ at = "idle" /\ op = "apply" /\ old = FALSE /\ listening = FALSE
    /\ client = "free" /\ applied = FALSE /\ spec \in Specs /\ listed = FALSE /\ pinned = FALSE
    /\ calls = 0 /\ trouble = 0

May(fault) == fault \in Faults
Goto(from, to) == at = from /\ at' = to

-----------------------------------------------------------------------------
(***************************************************************************)
(* What the desktop does with an answer.  A failed finalize is asked for   *)
(* once more, and only then rolled back.                                   *)
(***************************************************************************)
Hear(answer) ==
    /\ client' = CASE answer \in {"applied", "unchanged"} -> "checking"
                   [] answer = "finalized" -> "succeeded"
                   [] answer = "failed" /\ client = "finalizing" -> "again"
                   [] answer = "failed" /\ client = "retrying" -> "roll"
                   [] OTHER -> "free"
    /\ applied' = (applied \/ answer = "applied")
    /\ listed' = ((listed \/ answer = "finalized") /\ answer # "removed")
    /\ pinned' = (pinned \/ answer = "finalized")

Answers(answer) ==
    /\ at' = "idle" /\ listening' = FALSE
    /\ IF listening THEN Hear(answer) ELSE UNCHANGED <<client, applied, listed, pinned>>

\* Printing into a broken pipe raises; what is buffered goes nowhere.
Say(from, answer, raised) ==
    /\ at = from
    /\ \/ Answers(answer)
       \/ ~listening /\ at' = raised /\ UNCHANGED talk
    /\ UNCHANGED <<dirs, marks, journal, live, old, call>>

Gives(from) == at = from /\ Answers("failed")
Turn(from, to) == Goto(from, to) /\ UNCHANGED <<dirs, marks, journal, live, old, talk, call>>
Quits(from) == Gives(from) /\ UNCHANGED <<dirs, marks, journal, live, old, call>>

-----------------------------------------------------------------------------
(***************************************************************************)
(* Docker.  A failed "up" leaves the old container, the new one or none.  A  *)
(* "down" in what a removal left may find no compose.yaml.                  *)
(***************************************************************************)
Starts == current \in Specs /\ up' = current /\ volume' = TRUE
StartsNot ==
    /\ May("up") \/ current \notin Specs
    /\ up' \in {up, "none"} \cup ({current} \cap Specs)
    /\ volume' \in {volume, TRUE} /\ (up' # "none" => volume')
Stops(volumes) == up' = "none" /\ volume' = (volume /\ ~volumes)
StopsNot == (May("down") \/ current = "torn") /\ UNCHANGED <<up, volume>>

\* verify(): the state file names the request and one container runs.
Verifies == current # "none" /\ state = spec /\ up # "none"
VerifiesNot == ~Verifies \/ May("verify")

Up(from, ok, failed) ==
    /\ (Starts /\ Goto(from, ok)) \/ (StartsNot /\ Goto(from, failed))
    /\ UNCHANGED <<dirs, marks, journal, relay, old, talk, call>>

Down(from, to, volumes) ==
    /\ Goto(from, to)
    /\ Stops(volumes) \/ StopsNot
    /\ UNCHANGED <<dirs, marks, journal, relay, old, talk, call>>

\* rmtree(current), which may stop half way.
Drop(from, to) ==
    /\ \/ Goto(from, to) /\ current' = "none" /\ UNCHANGED talk
       \/ May("torn") /\ current # "none" /\ Gives(from) /\ current' = "torn"
    /\ UNCHANGED <<previous, marks, journal, live, old, call>>

\* The directory that was replaced comes back, and then its state file.
Back(from, to) ==
    /\ Goto(from, to)
    /\ current' = previous /\ previous' = "none"
    /\ UNCHANGED <<marks, journal, live, old, talk, call>>

\* The bug of a state file that keeps naming what was rolled back.
BackAlone(from, to) == Turn(from, to)

BackState(from, to) ==
    /\ Goto(from, to)
    /\ IF previousState # "none" THEN state' = previousState /\ previousState' = "none"
       ELSE UNCHANGED marks
    /\ UNCHANGED <<dirs, journal, live, old, talk, call>>

Relay(from, to, for) ==
    /\ Goto(from, to) /\ relay' = for
    /\ UNCHANGED <<dirs, marks, journal, up, volume, old, talk, call>>

SetState(from, to, hash) ==
    /\ Goto(from, to) /\ state' = hash
    /\ UNCHANGED <<dirs, previousState, journal, live, old, talk, call>>

Journal(from, to, phase) ==
    /\ Goto(from, to) /\ journal' = [spec |-> spec, phase |-> phase, old |-> old]
    /\ UNCHANGED <<dirs, marks, live, old, talk, call>>

-----------------------------------------------------------------------------
(***************************************************************************)
(* apply                                                                   *)
(***************************************************************************)
ApplyBegins ==
    \/ Turn("apply", IF journal = <<>> THEN "match"
                     ELSE IF journal.spec = spec /\ current # "none" /\ state # "none"
                          THEN "resume" ELSE "recover")
    \/ May("preflight") /\ Quits("apply")

\* The interrupted operation was this one, and its worker is healthy.
Resume ==
    \/ Verifies /\ Goto("resume", "resumeRelay") /\ old' = journal.old
       /\ UNCHANGED <<dirs, marks, journal, live, talk, call>>
    \/ VerifiesNot /\ Turn("resume", "recover")
    \/ Relay("resumeRelay", "resumeNote", spec)
    \/ Journal("resumeNote", "resumeSay", "applied")
    \/ Say("resumeSay", "applied", "recover")

\* The state file already names the request.
Match ==
    \/ Verifies /\ Turn("match", "matchRelay")
    \/ VerifiesNot /\ Turn("match", "stage")
    \/ Relay("matchRelay", "matchSay", spec)
    \/ Say("matchSay", "unchanged", "stage")

\* The bug of a journal that begins with the swap.
StageUnwritten ==
    \/ Goto("stage", "clearPrevious") /\ old' = (current # "none")
       /\ UNCHANGED <<dirs, marks, journal, live, talk, call>>
    \/ May("stage") /\ Quits("stage")

Stage ==
    \/ /\ Goto("stage", "clearPrevious")
       /\ old' = (current # "none")
       /\ journal' = [spec |-> spec, phase |-> "prepared", old |-> current # "none"]
       /\ UNCHANGED <<dirs, marks, live, talk, call>>
    \/ May("stage") /\ Quits("stage")

Swap ==
    \/ Goto("clearPrevious", "clearSaved") /\ previous' = "none"
       /\ UNCHANGED <<current, marks, journal, live, old, talk, call>>
    \/ Goto("clearSaved", IF old THEN "save" ELSE "swapIn") /\ previousState' = "none"
       /\ UNCHANGED <<dirs, state, journal, live, old, talk, call>>
    \/ Goto("save", "swapOut") /\ previousState' = state
       /\ UNCHANGED <<dirs, state, journal, live, old, talk, call>>
    \/ Goto("swapOut", "swapIn") /\ previous' = current /\ current' = "none"
       /\ UNCHANGED <<marks, journal, live, old, talk, call>>
    \/ Goto("swapIn", "note") /\ current' = spec
       /\ UNCHANGED <<previous, marks, journal, live, old, talk, call>>
    \/ Journal("note", "build", "swapped")

Build ==
    \/ Up("build", "relay", "undo")
    \/ ~listening /\ Turn("build", "undo")
    \/ Relay("relay", "record", spec)
    \/ SetState("record", "verify", spec)
    \/ Verifies /\ Turn("verify", "finish")
    \/ VerifiesNot /\ Turn("verify", "undo")
    \/ Journal("finish", "say", "applied")
    \/ Say("say", "applied", "undo")

\* The bug of removing the volumes whether or not there was a worker before.
UndoWithVolumes ==
    \/ Down("undo", "undoDrop", TRUE)
    \/ Drop("undoDrop", "undoBack")
    \/ previous # "none" /\ Back("undoBack", "undoState")
    \/ previous = "none" /\ SetState("undoBack", "undoEnd", "none")
    \/ BackState("undoState", "undoUp")
    \/ Up("undoUp", "undoEnd", "undoEnd")
    \/ Gives("undoEnd") /\ journal' = <<>> /\ UNCHANGED <<dirs, marks, live, old, call>>

\* The handler of a failed build.
Undo ==
    \/ Down("undo", "undoDrop", ~old)
    \/ Drop("undoDrop", "undoBack")
    \/ previous # "none" /\ Back("undoBack", "undoState")
    \/ previous = "none" /\ SetState("undoBack", "undoEnd", "none")
    \/ BackState("undoState", "undoUp")
    \/ Up("undoUp", "undoEnd", "undoEnd")
    \/ Gives("undoEnd") /\ journal' = <<>> /\ UNCHANGED <<dirs, marks, live, old, call>>

-----------------------------------------------------------------------------
(***************************************************************************)
(* recover_transaction, from apply and from rollback.                      *)
(***************************************************************************)
\* The bug of a journal without a directory to restore taken for a first installation.
RecoverOut ==
    Turn("recover", IF previous # "none"
                    THEN IF current # "none" THEN "recDown" ELSE "recBack"
                    ELSE IF current # "none" THEN "outDown" ELSE "outRelay")

Recover ==
    Turn("recover", IF journal.phase = "prepared" /\ previous = "none" THEN "recEnd"
                    ELSE IF previous # "none"
                         THEN IF current # "none" THEN "recDown" ELSE "recBack"
                    ELSE IF ~journal.old
                         THEN IF current # "none" THEN "outDown" ELSE "outRelay"
                    ELSE "recEnd")

Restore ==
    \/ Down("recDown", "recDrop", FALSE)
    \/ Drop("recDrop", "recBack")
    \/ Back("recBack", "recState")
    \/ BackState("recState", "recUp")
    \/ Starts /\ Goto("recUp", "recEnd")
       /\ UNCHANGED <<dirs, marks, journal, relay, old, talk, call>>
    \/ StartsNot /\ Gives("recUp")
       /\ UNCHANGED <<dirs, marks, journal, relay, old, call>>

\* Nothing to restore: the first installation goes, with its volumes.  A rollback
\* without a journal raises, and leaves the rest, when docker does not take it down.
Out ==
    \/ /\ at = "outDown"
       /\ \/ Stops(TRUE) /\ at' = "outDrop" /\ UNCHANGED <<current, talk>>
          \/ StopsNot /\ journal # <<>> /\ at' = "outDrop" /\ UNCHANGED <<current, talk>>
          \/ StopsNot /\ journal = <<>> /\ Answers("failed") /\ current' = "none"
       /\ UNCHANGED <<previous, marks, journal, relay, old, call>>
    \/ Drop("outDrop", "outRelay")
    \/ Relay("outRelay", "outState", "none")
    \/ SetState("outState", "recEnd", "none")

\* clear_transaction
RecoverEnds ==
    /\ at = "recEnd" /\ journal' = <<>>
    /\ IF op = "apply" THEN at' = "match" /\ UNCHANGED talk ELSE Answers("rolledBack")
    /\ UNCHANGED <<dirs, marks, live, old, call>>

Applied == current # "none" /\ state = spec

\* rollback: the journal, a finalized worker, or a first installation.
RollbackBegins ==
    /\ at = "rollback"
    /\ \/ journal # <<>> /\ at' = "recover" /\ UNCHANGED talk
       \/ journal = <<>> /\ Applied /\ Answers("rolledBack")
       \/ /\ journal = <<>> /\ ~Applied
          /\ at' = (IF current # "none" THEN "outDown" ELSE "outRelay") /\ UNCHANGED talk
    /\ UNCHANGED <<dirs, marks, journal, live, old, call>>

-----------------------------------------------------------------------------
(***************************************************************************)
(* finalize and remove                                                     *)
(***************************************************************************)
Finalize ==
    \/ /\ \/ Applied /\ Goto("finalize", "finPrevious") /\ UNCHANGED talk
          \/ ~Applied /\ Gives("finalize")
       /\ UNCHANGED <<dirs, marks, journal, live, old, call>>
    \/ /\ \/ Goto("finPrevious", "finSaved") /\ previous' = "none" /\ UNCHANGED talk
          \/ May("tornPrevious") /\ previous # "none" /\ Gives("finPrevious") /\ previous' = "torn"
       /\ UNCHANGED <<current, marks, journal, live, old, call>>
    \/ Goto("finSaved", "finEnd") /\ previousState' = "none"
       /\ UNCHANGED <<dirs, state, journal, live, old, talk, call>>
    \/ Goto("finEnd", "finSay") /\ journal' = <<>>
       /\ UNCHANGED <<dirs, marks, live, old, talk, call>>
    \/ Say("finSay", "finalized", "idle")

RemoveBegins ==
    \/ current = "none" /\ Turn("remove", "removeRelay")
    \/ /\ current # "none"
       /\ \/ Stops(TRUE) /\ Goto("remove", "removeRelay") /\ UNCHANGED talk
          \/ StopsNot /\ Gives("remove")
       /\ UNCHANGED <<dirs, marks, journal, relay, old, call>>
    \/ Relay("removeRelay", "removeRoot", "none")

\* rmtree(root), in any order.
RemoveRoot ==
    /\ at = "removeRoot"
    /\ \/ current # "none" /\ current' = "none"
          /\ UNCHANGED <<previous, marks, journal, at, talk>>
       \/ previous # "none" /\ previous' = "none"
          /\ UNCHANGED <<current, marks, journal, at, talk>>
       \/ state # "none" /\ state' = "none"
          /\ UNCHANGED <<dirs, previousState, journal, at, talk>>
       \/ previousState # "none" /\ previousState' = "none"
          /\ UNCHANGED <<dirs, state, journal, at, talk>>
       \/ journal # <<>> /\ journal' = <<>> /\ UNCHANGED <<dirs, marks, at, talk>>
       \/ /\ current = "none" /\ previous = "none" /\ state = "none"
          /\ previousState = "none" /\ journal = <<>>
          /\ Answers("removed") /\ UNCHANGED <<dirs, marks, journal>>
    /\ UNCHANGED <<live, old, call>>

-----------------------------------------------------------------------------
(***************************************************************************)
(* The desktop.                                                            *)
(***************************************************************************)
Runs(action, as) ==
    /\ at = "idle" /\ at' = action /\ op' = action /\ listening' = TRUE /\ client' = as
    /\ UNCHANGED <<dirs, marks, journal, live, old>>

Provision(s) ==
    /\ client \in {"free", "succeeded"} /\ calls < MaxCalls /\ calls' = calls + 1
    /\ spec' = s /\ applied' = FALSE
    /\ Runs("apply", "applying")
    /\ UNCHANGED <<listed, pinned, trouble>>

\* The host key is scanned and the worker tried, through the relay.
Check ==
    /\ client = "checking"
    /\ \/ /\ up # "none" /\ relay # "none"
          /\ client' = (IF applied THEN "finalize" ELSE "succeeded")
          /\ listed' = (listed \/ ~applied) /\ pinned' = (pinned \/ ~applied)
       \/ /\ up = "none" \/ relay # up \/ May("check")
          /\ client' = (IF applied THEN "roll" ELSE "free")
          /\ UNCHANGED <<listed, pinned>>
    /\ UNCHANGED <<dirs, marks, journal, live, at, old, listening, applied, call>>

AskFinalize ==
    /\ \/ client = "finalize" /\ Runs("finalize", "finalizing")
       \/ client = "again" /\ Runs("finalize", "retrying")
    /\ UNCHANGED <<applied, spec, listed, pinned, calls, trouble>>

AskRollback ==
    /\ client = "roll" /\ Runs("rollback", "rolling")
    /\ UNCHANGED <<applied, spec, listed, pinned, calls, trouble>>

\* A removal that failed may be asked for again: the inventory is told by its answer.
Remove ==
    /\ client \in {"free", "succeeded"} /\ listed /\ calls < MaxCalls /\ calls' = calls + 1
    /\ pinned' = FALSE
    /\ Runs("remove", "removing")
    /\ UNCHANGED <<applied, spec, listed, trouble>>

\* The command times out, and the next one is sent when the lock is free; or
\* the connection or the desktop is gone.
Lost ==
    /\ May("lost") /\ at # "idle" /\ listening /\ trouble < MaxTrouble /\ trouble' = trouble + 1
    /\ listening' = FALSE
    /\ \/ Hear("failed")
       \/ client' = "free" /\ UNCHANGED <<applied, listed, pinned>>
    /\ UNCHANGED <<dirs, marks, journal, live, at, old, op, spec, calls>>

\* Deaths that leave a directory without the record that goes with it.
InWindow ==
    \/ at = "note" /\ ~old
    \/ at \in {"recState", "undoState"}

\* The script dies; what docker runs stays up.
Crash ==
    /\ at # "idle" /\ trouble < MaxTrouble /\ trouble' = trouble + 1
    /\ May("crash")
    /\ InWindow => May("window")
    /\ at = "removeRoot" => May("halfRemoved")
    /\ Answers("failed")
    /\ UNCHANGED <<dirs, marks, journal, live, old, op, spec, calls>>

-----------------------------------------------------------------------------
Next ==
    \/ ApplyBegins \/ Resume \/ Match \/ Stage \/ Swap \/ Build \/ Undo
    \/ Recover \/ Restore \/ Out \/ RecoverEnds
    \/ RollbackBegins \/ Finalize \/ RemoveBegins \/ RemoveRoot
    \/ \E s \in Specs : Provision(s)
    \/ Check \/ AskFinalize \/ AskRollback \/ Remove \/ Lost \/ Crash

Spec == Init /\ [][Next]_vars

-----------------------------------------------------------------------------
\* A provisioning that is reported to have succeeded left exactly what was
\* asked for: directory, state file, container and relay, and no transaction.
SuccessIsReal ==
    client = "succeeded" /\ at = "idle" =>
        /\ current = spec /\ state = spec /\ up = spec /\ relay = spec
        /\ journal = <<>> /\ previous = "none"

\* Once a worker was provisioned a whole one remains, in its place or where the
\* next operation restores it from, until it is removed.
SomeWorkerSurvives == pinned => {current, previous} \cap Specs # {}

\* The key that the inventory has pinned is not thrown away by a failed upgrade.
KeyIsKept == pinned => volume

\* The directory that was replaced is never left without the journal that says
\* so, until the whole root goes.
PreviousIsJournaled == previous # "none" /\ at # "removeRoot" => journal # <<>>

\* What was removed runs no more.
RemovedIsDown ==
    at = "removeRoot" /\ {current, previous, state, previousState} = {"none"} => up = "none" /\ ~volume

\* Without a transaction the relay leads to the worker that is there.
RelayFollows ==
    at = "idle" /\ journal = <<>> /\ current # "none" /\ state # "none" => relay = current

=============================================================================
