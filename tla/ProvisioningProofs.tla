------------------------- MODULE ProvisioningProofs -------------------------
(***************************************************************************)
(* What a provisioning host keeps, for any specifications, any number of   *)
(* calls, deaths and lost answers.                                         *)
(*                                                                         *)
(* HostInv relates the directories, the journal and the volume to the step *)
(* the script is at, whatever fails.  WorkerInv, RestInv and StepInv add   *)
(* what holds as long as some of the faults do not happen: a theorem names *)
(* the faults it leaves out.  Restorable is the part that a death keeps:   *)
(* what the next script finds is enough to go back or forward from.        *)
(***************************************************************************)
EXTENDS Provisioning, TLAPS

\* The steps of the script, by what it is about.
Starting == {"apply", "resume", "match", "matchRelay", "matchSay", "stage"}
Resuming == {"resumeRelay", "resumeNote", "resumeSay"}
Preparing == {"clearPrevious", "clearSaved", "save", "swapOut"}
Building == {"note", "build", "relay", "record", "verify", "finish", "say"}
Undoing == {"undo", "undoDrop", "undoBack"}
Undone == {"undoState", "undoUp", "undoEnd"}
Transacting == Preparing \cup {"swapIn"} \cup Building \cup Undoing \cup Undone
Restoring == {"recDown", "recDrop", "recBack"}
Restored == {"recState", "recUp"}
Outing == {"outDown", "outDrop", "outRelay", "outState"}
Recovering == {"recover", "recEnd"} \cup Restoring \cup Restored \cup Outing
Finalizing == {"finalize", "finPrevious", "finSaved", "finEnd", "finSay"}
Removing == {"remove", "removeRelay", "removeRoot"}

-----------------------------------------------------------------------------
(* The parts of TypeOK *)

TypeDirs == current \in Dirs /\ previous \in Dirs
TypeMarks == state \in Marks /\ previousState \in Marks
TypeLive == up \in Marks /\ relay \in Marks /\ spec \in Specs
TypeJournal == journal \in Journals /\ old \in BOOLEAN
TypeFlags == listening \in BOOLEAN /\ applied \in BOOLEAN /\ listed \in BOOLEAN /\ pinned \in BOOLEAN
TypeVolume == volume \in BOOLEAN
TypeClient == client \in Clients
TypeScript == at \in Labels /\ op \in {"apply", "finalize", "rollback", "remove"}
TypeCounts == calls \in 0..MaxCalls /\ trouble \in 0..MaxTrouble

-----------------------------------------------------------------------------
(* What holds whatever fails *)

ScriptInv ==
    at # "idle" =>
        \/ op = "apply" /\ at \in Starting \cup Resuming \cup Transacting \cup Recovering
        \/ op = "rollback" /\ at \in {"rollback"} \cup Recovering
        \/ op = "finalize" /\ at \in Finalizing
        \/ op = "remove" /\ at \in Removing

\* The client waits for the answer to what it asked for.
Awaiting ==
    \/ op = "apply" /\ client = "applying"
    \/ op = "rollback" /\ client = "rolling"
    \/ op = "finalize" /\ client \in {"finalizing", "retrying"}
    \/ op = "remove" /\ client = "removing"

\* A client that has given up asks for nothing before the script ends.
ClientInv ==
    /\ at = "idle" => ~listening
          /\ client \in {"free", "checking", "finalize", "again", "roll", "succeeded"}
    /\ at # "idle" /\ listening => Awaiting
    /\ at # "idle" /\ ~listening =>
          client \in {"free"} \cup (IF op = "finalize" THEN {"again", "roll"} ELSE {})
    /\ at # "idle" /\ op = "apply" => ~applied
    /\ at \in Removing => ~pinned

\* Where there is a journal, and that the script's local copy agrees with it.
JournalInv ==
    /\ at \in {"match", "matchRelay", "matchSay", "stage", "finSay"} => journal = <<>>
    /\ at \in {"resume"} \cup Resuming \cup Transacting \cup Recovering => journal # <<>>
    /\ at \in Resuming \cup Transacting => old = journal.old
    /\ client = "checking" /\ ~applied => journal = <<>>

\* Finalize and rollback are asked for after an apply that did its work: a
\* rollback without a journal finds it done.
AppliedInv ==
    /\ client \in {"checking", "finalize", "again", "roll"} => Applied
    /\ at \in Resuming \cup Finalizing \cup {"matchRelay", "matchSay", "finish", "say", "rollback"}
          => Applied

\* Which of the two directories exist at each step.
PlaceInv ==
    /\ at \in {"save", "swapOut"} => old
    /\ at \in Preparing /\ old => current # "none"
    /\ at \in {"swapIn"} \cup Building \cup Undoing /\ old => previous # "none"
    /\ at \in Building \cup {"undo", "undoState", "undoUp"} \cup Restored => current # "none"
    /\ at = "undoEnd" /\ old => current # "none"
    /\ at \in Restoring => previous # "none"
    /\ at \in Undone \cup Restored \cup Outing \cup {"recEnd", "finSaved", "finEnd", "finSay"}
          => previous = "none"
    /\ at \in {"removeRelay", "removeRoot"} => current = "none" \/ up = "none"
    /\ journal = <<>> /\ previous # "none" => ~pinned /\ (current = "none" \/ up = "none")

\* A transaction over a provisioned worker knows that there was one: none of
\* its ends goes the way of a failed first installation, which takes the key.
KeyInv ==
    /\ up # "none" => volume
    /\ client \in {"finalize", "again"} \/ at \in Finalizing => volume
    /\ pinned => /\ volume
                 /\ current # "none" \/ previous # "none"
                 /\ IF journal = <<>> THEN current # "none" ELSE journal.old
                 /\ at \notin Outing

\* No container runs from what is left of a directory.
TornInv ==
    /\ at = "recBack" => current = "none"
    /\ "down" \notin Faults /\ current = "torn" => up = "none"
    /\ "down" \notin Faults /\ current = "none" /\ previous = "torn" => up = "none"
    /\ "down" \notin Faults /\ at \in {"undoDrop", "undoBack", "undoState", "undoUp",
                                        "recDrop", "outDrop"} => up = "none"
    /\ {"torn", "tornPrevious"} \cap Faults = {} => "torn" \notin {current, previous}

HostInv ==
    /\ TypeDirs /\ TypeMarks /\ TypeLive /\ TypeJournal /\ TypeFlags /\ TypeVolume
    /\ TypeClient /\ TypeScript /\ TypeCounts
    /\ ScriptInv /\ ClientInv /\ JournalInv /\ AppliedInv /\ PlaceInv /\ KeyInv /\ TornInv

-----------------------------------------------------------------------------
(* What holds when the directory that was replaced goes whole *)

WholePrevious == "tornPrevious" \notin Faults /\ ~({"down", "torn"} \subseteq Faults)

WorkerInv ==
    /\ client \in {"finalize", "again"} \/ at \in Finalizing => current \in Specs
    /\ pinned => /\ previous # "torn"
                 /\ previous = "none" => current \in Specs
                 /\ at \in Preparing => current \in Specs

-----------------------------------------------------------------------------
(* What holds when docker takes down what it is told to, and the script is *)
(* not killed between a directory and its record or in the removal         *)

Recoverable == {"down", "window", "halfRemoved"} \cap Faults = {}

\* The state file is that of the directory, and so is what runs.
InPlace ==
    /\ current = "none" <=> state = "none"
    /\ current \in {state, "torn"}
    /\ current # "none" => up \in {"none", current}

\* Without a journal nothing is to be done; with one, what it replaced can be
\* put back, and what looks complete is what it asked for.
Restorable ==
    /\ journal = <<>> => previous = "none" /\ InPlace
    /\ journal # <<>> =>
          /\ previous # "none" => /\ previousState # "none" /\ previous \in {previousState, "torn"}
                                  /\ current = "none" => up \in {"none", previous}
          /\ previous = "none" /\ (journal.phase = "prepared" \/ journal.old) => InPlace
          /\ state = journal.spec /\ current # "none" /\ up # "none" => current = state /\ up = state

\* It holds wherever the script may die.
RestInv == at # "removeRoot" /\ ~InWindow => Restorable

Real == current = spec /\ state = spec /\ up = spec /\ relay = spec

StepInv ==
    /\ at \in {"resume"} \cup Resuming \cup Transacting => journal.spec = spec
    /\ at \in Preparing \cup {"swapIn", "note"} => journal.phase = "prepared"
    /\ at \in (Building \ {"note"}) \cup Undoing \cup Undone => journal.phase # "prepared"
    /\ at \in Preparing => previous = "none" /\ (old <=> current # "none")
    /\ at = "swapOut" => previousState = state
    /\ at \in {"swapIn", "note", "build", "relay", "record"} =>
          IF old THEN previousState = state ELSE previous = "none" /\ state = "none"
    /\ at \in {"swapIn", "note", "build"} /\ old => up \in {"none", previous}
    /\ at \in {"swapIn", "undoBack", "recBack", "outRelay", "outState"} => current = "none"
    /\ at \in {"note", "build", "relay", "record"} => current = spec
    /\ at \in {"relay", "record"} => up = spec
    /\ at = "record" => relay = spec
    /\ at \in {"undoState", "recState"} => /\ previousState # "none"
                                           /\ current \in {previousState, "torn"}
                                           /\ up \in {"none", current}
    /\ at \in {"undoUp", "undoEnd", "recUp", "recEnd"} => InPlace
    /\ at \in Outing => ~journal.old /\ journal.phase # "prepared"
    /\ at \in {"resumeRelay", "matchRelay"} => current = spec /\ state = spec /\ up = spec
    /\ at \in {"resumeNote", "resumeSay", "matchSay", "verify", "finish", "say"} \cup Finalizing
          => Real
    /\ client \in {"checking", "finalize", "again"} => Real
    /\ client = "succeeded" => Real /\ journal = <<>>

-----------------------------------------------------------------------------
(* Answers *)

Replies == {"applied", "unchanged", "failed", "finalized", "rolledBack", "removed"}

\* What an answer makes of a client that hears it.
Heard(a) ==
    /\ applied' = (applied \/ a = "applied")
    /\ listed' = ((listed \/ a = "finalized") /\ a # "removed")
    /\ pinned' = (pinned \/ a = "finalized")
    /\ a \in {"applied", "unchanged"} => client' = "checking"
    /\ a = "finalized" => client' = "succeeded"
    /\ a = "failed" => client' = IF client = "finalizing" THEN "again"
                                 ELSE IF client = "retrying" THEN "roll" ELSE "free"
    /\ a \in {"rolledBack", "removed"} => client' = "free"

Told(a) ==
    /\ at' = "idle" /\ listening' = FALSE
    /\ listening => Heard(a)
    /\ ~listening => UNCHANGED <<client, applied, listed, pinned>>

LEMMA HearEffect == \A a \in Replies : Hear(a) => Heard(a)
BY Zenon DEF Hear, Heard, Replies

LEMMA AnswersEffect == \A a \in Replies : Answers(a) => Told(a)
BY HearEffect DEF Answers, Told

-----------------------------------------------------------------------------
(* One lemma per part of the invariant: every step preserves it. *)

USE ProvisioningAssumption, HearEffect, AnswersEffect
USE DEF ProvisioningAssumption, Heard, Told, Replies, Goto, Turn, Quits, Gives, Say, Runs, May,
        Up, Down, Drop, Back, BackState, Relay, SetState, Journal, Starts, StartsNot, Stops,
        StopsNot, Verifies, VerifiesNot, Applied, dirs, marks, live, talk, call, Dirs, Marks, Journals,
        Starting, Resuming, Preparing, Building, Undoing, Undone, Transacting, Restoring,
        Restored, Outing, Recovering, Finalizing, Removing

\* The directories are absent, of a specification or torn.
LEMMA TypeDirsStep ==
  ASSUME TypeDirs, TypeLive, [Next]_vars
  PROVE  TypeDirs'
<1> USE DEF TypeDirs, TypeLive
<1>1. CASE ApplyBegins \/ Resume \/ Match \/ Stage
  BY <1>1 DEF ApplyBegins, Resume, Match, Stage
<1>2. CASE Swap \/ Build \/ Undo
  BY <1>2 DEF Swap, Build, Undo
<1>3. CASE Recover \/ Restore \/ Out \/ RecoverEnds
  BY <1>3 DEF Recover, Restore, Out, RecoverEnds
<1>4. CASE RollbackBegins \/ Finalize \/ RemoveBegins \/ RemoveRoot
  BY <1>4 DEF RollbackBegins, Finalize, RemoveBegins, RemoveRoot
<1>5. ASSUME NEW s \in Specs, Provision(s) PROVE TypeDirs'
  BY <1>5 DEF Provision
<1>6. CASE Check \/ AskFinalize \/ AskRollback \/ Remove
  BY <1>6 DEF Check, AskFinalize, AskRollback, Remove
<1>7. CASE Lost \/ Crash
  BY <1>7 DEF Lost, Crash
<1>8. CASE UNCHANGED vars
  BY <1>8 DEF vars
<1>9. QED
  BY <1>1, <1>2, <1>3, <1>4, <1>5, <1>6, <1>7, <1>8 DEF Next

\* A journal is none or that of a specification.
LEMMA TypeJournalStep ==
  ASSUME TypeJournal, TypeLive, TypeDirs, TypeFlags, JournalInv, [Next]_vars
  PROVE  TypeJournal'
<1> USE DEF TypeJournal, TypeLive, TypeFlags, JournalInv
<1>1. CASE ApplyBegins
  BY <1>1 DEF ApplyBegins
<1>2. CASE Resume
  BY <1>2 DEF Resume
<1>3. CASE Match
  BY <1>3 DEF Match
<1>4. CASE Stage
  <2>1. CASE /\ Goto("stage", "clearPrevious")
             /\ old' = (current # "none")
             /\ journal' = [spec |-> spec, phase |-> "prepared", old |-> current # "none"]
             /\ UNCHANGED <<dirs, marks, live, talk, call>>
    BY <2>1
  <2>2. CASE May("stage") /\ Quits("stage")
    BY <2>2
  <2>3. QED
    BY <1>4, <2>1, <2>2 DEF Stage
<1>5. CASE Swap
  BY <1>5 DEF Swap
<1>6. CASE Build
  <2>1. CASE Up("build", "relay", "undo")
    BY <2>1
  <2>2. CASE ~listening /\ Turn("build", "undo")
    BY <2>2
  <2>3. CASE Relay("relay", "record", spec)
    BY <2>3
  <2>4. CASE SetState("record", "verify", spec)
    BY <2>4
  <2>5. CASE Verifies /\ Turn("verify", "finish")
    BY <2>5
  <2>6. CASE VerifiesNot /\ Turn("verify", "undo")
    BY <2>6
  <2>7. CASE Journal("finish", "say", "applied")
    BY <2>7
  <2>8. CASE Say("say", "applied", "undo")
    BY <2>8
  <2>9. QED
    BY <1>6, <2>1, <2>2, <2>3, <2>4, <2>5, <2>6, <2>7, <2>8 DEF Build
<1>7. CASE Undo
  BY <1>7 DEF Undo
<1>8. CASE Recover \/ Restore \/ Out \/ RecoverEnds
  BY <1>8 DEF Recover, Restore, Out, RecoverEnds
<1>9. CASE RollbackBegins \/ Finalize \/ RemoveBegins \/ RemoveRoot
  BY <1>9 DEF RollbackBegins, Finalize, RemoveBegins, RemoveRoot
<1>10. ASSUME NEW s \in Specs, Provision(s) PROVE TypeJournal'
  BY <1>10 DEF Provision
<1>11. CASE Check \/ AskFinalize \/ AskRollback \/ Remove
  BY <1>11 DEF Check, AskFinalize, AskRollback, Remove
<1>12. CASE Lost \/ Crash
  BY <1>12 DEF Lost, Crash
<1>13. CASE UNCHANGED vars
  BY <1>13 DEF vars
<1>14. QED
  BY <1>1, <1>2, <1>3, <1>4, <1>5, <1>6, <1>7, <1>8, <1>9, <1>10, <1>11, <1>12, <1>13 DEF Next

\* The bounds are kept.
LEMMA TypeCountsStep ==
  ASSUME TypeCounts, [Next]_vars
  PROVE  TypeCounts'
<1> USE DEF TypeCounts
<1>1. CASE ApplyBegins \/ Resume \/ Match \/ Stage
  BY <1>1 DEF ApplyBegins, Resume, Match, Stage
<1>2. CASE Swap \/ Build \/ Undo
  BY <1>2 DEF Swap, Build, Undo
<1>3. CASE Recover \/ Restore \/ Out \/ RecoverEnds
  BY <1>3 DEF Recover, Restore, Out, RecoverEnds
<1>4. CASE RollbackBegins \/ Finalize \/ RemoveBegins \/ RemoveRoot
  BY <1>4 DEF RollbackBegins, Finalize, RemoveBegins, RemoveRoot
<1>5. ASSUME NEW s \in Specs, Provision(s) PROVE TypeCounts'
  BY <1>5 DEF Provision
<1>6. CASE Check \/ AskFinalize \/ AskRollback \/ Remove
  BY <1>6 DEF Check, AskFinalize, AskRollback, Remove
<1>7. CASE Lost \/ Crash
  BY <1>7 DEF Lost, Crash
<1>8. CASE UNCHANGED vars
  BY <1>8 DEF vars
<1>9. QED
  BY <1>1, <1>2, <1>3, <1>4, <1>5, <1>6, <1>7, <1>8 DEF Next

\* The other variables stay in their types.
LEMMA TypeStep ==
  ASSUME TypeDirs, TypeMarks, TypeLive, TypeFlags, TypeVolume, TypeClient, TypeScript,
         [Next]_vars
  PROVE  TypeMarks' /\ TypeLive' /\ TypeFlags' /\ TypeVolume' /\ TypeClient' /\ TypeScript'
<1> USE DEF Next, vars, ApplyBegins, Resume, Match, Stage, Swap, Build, Undo, Recover, Restore,
        Out, RecoverEnds, RollbackBegins, Finalize, RemoveBegins, RemoveRoot, Provision, Check,
        AskFinalize, AskRollback, Remove, Lost, Crash
<1>1. TypeMarks'
  BY DEF TypeMarks, TypeLive
<1>2. TypeLive'
  BY DEF TypeLive, TypeDirs
<1>3. TypeFlags'
  BY DEF TypeFlags
<1>4. TypeVolume'
  BY DEF TypeVolume
<1>5. TypeClient'
  BY DEF TypeClient, Clients
<1>6. at' \in Labels
  BY DEF TypeScript, Labels
<1>7. op' \in {"apply", "finalize", "rollback", "remove"}
  BY DEF TypeScript
<1>8. QED
  BY <1>1, <1>2, <1>3, <1>4, <1>5, <1>6, <1>7 DEF TypeScript

\* The script runs the steps of the action it was asked for.
LEMMA ScriptInvStep ==
  ASSUME ScriptInv, ClientInv, [Next]_vars
  PROVE  ScriptInv'
<1> USE DEF ScriptInv, ClientInv
<1>1. CASE ApplyBegins \/ Resume \/ Match \/ Stage
  BY <1>1 DEF ApplyBegins, Resume, Match, Stage
<1>2. CASE Swap \/ Build \/ Undo
  BY <1>2 DEF Swap, Build, Undo
<1>3. CASE Recover \/ Restore \/ Out \/ RecoverEnds
  BY <1>3 DEF Recover, Restore, Out, RecoverEnds
<1>4. CASE RollbackBegins \/ Finalize \/ RemoveBegins \/ RemoveRoot
  BY <1>4 DEF RollbackBegins, Finalize, RemoveBegins, RemoveRoot
<1>5. ASSUME NEW s \in Specs, Provision(s) PROVE ScriptInv'
  BY <1>5 DEF Provision
<1>6. CASE Check \/ AskFinalize \/ AskRollback \/ Remove
  BY <1>6 DEF Check, AskFinalize, AskRollback, Remove
<1>7. CASE Lost \/ Crash
  BY <1>7 DEF Lost, Crash
<1>8. CASE UNCHANGED vars
  BY <1>8 DEF vars
<1>9. QED
  BY <1>1, <1>2, <1>3, <1>4, <1>5, <1>6, <1>7, <1>8 DEF Next

\* The client waits for the script it has started, or has given it up.
LEMMA ClientInvStep ==
  ASSUME ClientInv, ScriptInv, TypeClient, TypeFlags, [Next]_vars
  PROVE  ClientInv'
<1> USE DEF ClientInv, ScriptInv, Awaiting, TypeClient, TypeFlags, Clients
<1>1. CASE ApplyBegins \/ Resume \/ Match \/ Stage
  BY <1>1 DEF ApplyBegins, Resume, Match, Stage
<1>2. CASE Swap
  BY <1>2 DEF Swap
<1>3. CASE Build
  <2>1. CASE Up("build", "relay", "undo")
    BY <2>1
  <2>2. CASE ~listening /\ Turn("build", "undo")
    BY <2>2
  <2>3. CASE Relay("relay", "record", spec)
    BY <2>3
  <2>4. CASE SetState("record", "verify", spec)
    BY <2>4
  <2>5. CASE Verifies /\ Turn("verify", "finish")
    BY <2>5
  <2>6. CASE VerifiesNot /\ Turn("verify", "undo")
    BY <2>6
  <2>7. CASE Journal("finish", "say", "applied")
    BY <2>7
  <2>8. CASE Say("say", "applied", "undo")
    BY <2>8
  <2>9. QED
    BY <1>3, <2>1, <2>2, <2>3, <2>4, <2>5, <2>6, <2>7, <2>8 DEF Build
<1>4. CASE Undo
  <2>1. CASE Down("undo", "undoDrop", ~old)
    BY <2>1
  <2>2. CASE Drop("undoDrop", "undoBack")
    BY <2>2
  <2>3. CASE previous # "none" /\ Back("undoBack", "undoState")
    BY <2>3
  <2>4. CASE previous = "none" /\ SetState("undoBack", "undoEnd", "none")
    BY <2>4
  <2>5. CASE BackState("undoState", "undoUp")
    BY <2>5
  <2>6. CASE Up("undoUp", "undoEnd", "undoEnd")
    BY <2>6
  <2>7. CASE Gives("undoEnd") /\ journal' = <<>> /\ UNCHANGED <<dirs, marks, live, old, call>>
    BY <2>7
  <2>8. QED
    BY <1>4, <2>1, <2>2, <2>3, <2>4, <2>5, <2>6, <2>7 DEF Undo
<1>5. CASE Recover
  BY <1>5 DEF Recover
<1>6. CASE Restore
  <2>1. CASE Down("recDown", "recDrop", FALSE)
    BY <2>1
  <2>2. CASE Drop("recDrop", "recBack")
    BY <2>2
  <2>3. CASE Back("recBack", "recState")
    BY <2>3
  <2>4. CASE BackState("recState", "recUp")
    BY <2>4
  <2>5. CASE Starts /\ Goto("recUp", "recEnd")
             /\ UNCHANGED <<dirs, marks, journal, relay, old, talk, call>>
    BY <2>5
  <2>6. CASE StartsNot /\ Gives("recUp")
             /\ UNCHANGED <<dirs, marks, journal, relay, old, call>>
    BY <2>6
  <2>7. QED
    BY <1>6, <2>1, <2>2, <2>3, <2>4, <2>5, <2>6 DEF Restore
<1>7. CASE Out
  BY <1>7 DEF Out
<1>8. CASE RecoverEnds
  BY <1>8 DEF RecoverEnds
<1>9. CASE RollbackBegins \/ Finalize \/ RemoveBegins \/ RemoveRoot
  BY <1>9 DEF RollbackBegins, Finalize, RemoveBegins, RemoveRoot
<1>10. ASSUME NEW s \in Specs, Provision(s) PROVE ClientInv'
  BY <1>10 DEF Provision
<1>11. CASE Check \/ AskFinalize \/ AskRollback \/ Remove
  BY <1>11 DEF Check, AskFinalize, AskRollback, Remove
<1>12. CASE Lost \/ Crash
  BY <1>12 DEF Lost, Crash
<1>13. CASE UNCHANGED vars
  BY <1>13 DEF vars
<1>14. QED
  BY <1>1, <1>2, <1>3, <1>4, <1>5, <1>6, <1>7, <1>8, <1>9, <1>10, <1>11, <1>12, <1>13 DEF Next

\* A journal is there from the swap to its end.
LEMMA JournalInvStep ==
  ASSUME JournalInv, ScriptInv, ClientInv, AppliedInv, TypeDirs, TypeLive, TypeJournal,
         TypeFlags, [Next]_vars
  PROVE  JournalInv'
<1> USE DEF JournalInv, ScriptInv, ClientInv, Awaiting, AppliedInv, TypeLive, TypeJournal,
        TypeFlags
<1>1. CASE ApplyBegins \/ Resume \/ Match \/ Stage
  BY <1>1 DEF ApplyBegins, Resume, Match, Stage
<1>2. CASE Swap
  BY <1>2 DEF Swap
<1>3. CASE Build
  <2>1. CASE Up("build", "relay", "undo")
    BY <2>1
  <2>2. CASE ~listening /\ Turn("build", "undo")
    BY <2>2
  <2>3. CASE Relay("relay", "record", spec)
    BY <2>3
  <2>4. CASE SetState("record", "verify", spec)
    BY <2>4
  <2>5. CASE Verifies /\ Turn("verify", "finish")
    BY <2>5
  <2>6. CASE VerifiesNot /\ Turn("verify", "undo")
    BY <2>6
  <2>7. CASE Journal("finish", "say", "applied")
    BY <2>7
  <2>8. CASE Say("say", "applied", "undo")
    BY <2>8
  <2>9. QED
    BY <1>3, <2>1, <2>2, <2>3, <2>4, <2>5, <2>6, <2>7, <2>8 DEF Build
<1>4. CASE Undo
  BY <1>4 DEF Undo
<1>5. CASE Recover \/ Restore \/ Out \/ RecoverEnds
  BY <1>5 DEF Recover, Restore, Out, RecoverEnds
<1>6. CASE RollbackBegins \/ Finalize \/ RemoveBegins \/ RemoveRoot
  BY <1>6 DEF RollbackBegins, Finalize, RemoveBegins, RemoveRoot
<1>7. ASSUME NEW s \in Specs, Provision(s) PROVE JournalInv'
  BY <1>7 DEF Provision
<1>8. CASE Check \/ AskFinalize \/ AskRollback \/ Remove
  BY <1>8 DEF Check, AskFinalize, AskRollback, Remove
<1>9. CASE Lost \/ Crash
  BY <1>9 DEF Lost, Crash
<1>10. CASE UNCHANGED vars
  BY <1>10 DEF vars
<1>11. QED
  BY <1>1, <1>2, <1>3, <1>4, <1>5, <1>6, <1>7, <1>8, <1>9, <1>10 DEF Next

\* Finalize and rollback follow an apply that has done its work.
LEMMA AppliedInvStep ==
  ASSUME AppliedInv, ScriptInv, ClientInv, JournalInv, PlaceInv, TypeLive, TypeFlags,
         [Next]_vars
  PROVE  AppliedInv'
<1> USE DEF AppliedInv, ScriptInv, ClientInv, Awaiting, JournalInv, PlaceInv, TypeLive,
        TypeFlags
<1>1. CASE ApplyBegins \/ Resume \/ Match \/ Stage
  BY <1>1 DEF ApplyBegins, Resume, Match, Stage
<1>2. CASE Swap \/ Build \/ Undo
  BY <1>2 DEF Swap, Build, Undo
<1>3. CASE Recover \/ Restore \/ Out \/ RecoverEnds
  BY <1>3 DEF Recover, Restore, Out, RecoverEnds
<1>4. CASE RollbackBegins \/ Finalize \/ RemoveBegins \/ RemoveRoot
  BY <1>4 DEF RollbackBegins, Finalize, RemoveBegins, RemoveRoot
<1>5. ASSUME NEW s \in Specs, Provision(s) PROVE AppliedInv'
  BY <1>5 DEF Provision
<1>6. CASE Check \/ AskFinalize \/ AskRollback \/ Remove
  BY <1>6 DEF Check, AskFinalize, AskRollback, Remove
<1>7. CASE Lost \/ Crash
  BY <1>7 DEF Lost, Crash
<1>8. CASE UNCHANGED vars
  BY <1>8 DEF vars
<1>9. QED
  BY <1>1, <1>2, <1>3, <1>4, <1>5, <1>6, <1>7, <1>8 DEF Next

\* Each step finds the directories it needs.
LEMMA PlaceInvStep ==
  ASSUME PlaceInv, ClientInv, JournalInv, AppliedInv, TypeDirs, TypeLive, TypeJournal,
         TypeFlags, [Next]_vars
  PROVE  PlaceInv'
<1> USE DEF PlaceInv, ClientInv, JournalInv, AppliedInv, TypeDirs, TypeLive, TypeFlags
<1>1. CASE ApplyBegins
  BY <1>1 DEF ApplyBegins
<1>2. CASE Resume
  <2>1. CASE Verifies /\ Goto("resume", "resumeRelay") /\ old' = journal.old
             /\ UNCHANGED <<dirs, marks, journal, live, talk, call>>
    BY <2>1
  <2>2. CASE VerifiesNot /\ Turn("resume", "recover")
    BY <2>2
  <2>3. CASE Relay("resumeRelay", "resumeNote", spec)
    BY <2>3
  <2>4. CASE Journal("resumeNote", "resumeSay", "applied")
    BY <2>4
  <2>5. CASE Say("resumeSay", "applied", "recover")
    BY <2>5
  <2>6. QED
    BY <1>2, <2>1, <2>2, <2>3, <2>4, <2>5 DEF Resume
<1>3. CASE Match
  BY <1>3 DEF Match
<1>4. CASE Stage
  BY <1>4 DEF Stage
<1>5. CASE Swap
  <2>1. CASE Goto("clearPrevious", "clearSaved") /\ previous' = "none"
             /\ UNCHANGED <<current, marks, journal, live, old, talk, call>>
    BY <2>1
  <2>2. CASE Goto("clearSaved", IF old THEN "save" ELSE "swapIn") /\ previousState' = "none"
             /\ UNCHANGED <<dirs, state, journal, live, old, talk, call>>
    BY <2>2
  <2>3. CASE Goto("save", "swapOut") /\ previousState' = state
             /\ UNCHANGED <<dirs, state, journal, live, old, talk, call>>
    BY <2>3
  <2>4. CASE Goto("swapOut", "swapIn") /\ previous' = current /\ current' = "none"
             /\ UNCHANGED <<marks, journal, live, old, talk, call>>
    BY <2>4
  <2>5. CASE Goto("swapIn", "note") /\ current' = spec
             /\ UNCHANGED <<previous, marks, journal, live, old, talk, call>>
    BY <2>5
  <2>6. CASE Journal("note", "build", "swapped")
    BY <2>6
  <2>7. QED
    BY <1>5, <2>1, <2>2, <2>3, <2>4, <2>5, <2>6 DEF Swap
<1>6. CASE Build
  <2>1. CASE Up("build", "relay", "undo")
    BY <2>1
  <2>2. CASE ~listening /\ Turn("build", "undo")
    BY <2>2
  <2>3. CASE Relay("relay", "record", spec)
    BY <2>3
  <2>4. CASE SetState("record", "verify", spec)
    BY <2>4
  <2>5. CASE Verifies /\ Turn("verify", "finish")
    BY <2>5
  <2>6. CASE VerifiesNot /\ Turn("verify", "undo")
    BY <2>6
  <2>7. CASE Journal("finish", "say", "applied")
    BY <2>7
  <2>8. CASE Say("say", "applied", "undo")
    BY <2>8
  <2>9. QED
    BY <1>6, <2>1, <2>2, <2>3, <2>4, <2>5, <2>6, <2>7, <2>8 DEF Build
<1>7. CASE Undo
  <2>1. CASE Down("undo", "undoDrop", ~old)
    BY <2>1
  <2>2. CASE Drop("undoDrop", "undoBack")
    BY <2>2
  <2>3. CASE previous # "none" /\ Back("undoBack", "undoState")
    BY <2>3
  <2>4. CASE previous = "none" /\ SetState("undoBack", "undoEnd", "none")
    BY <2>4
  <2>5. CASE BackState("undoState", "undoUp")
    BY <2>5
  <2>6. CASE Up("undoUp", "undoEnd", "undoEnd")
    BY <2>6
  <2>7. CASE Gives("undoEnd") /\ journal' = <<>> /\ UNCHANGED <<dirs, marks, live, old, call>>
    BY <2>7
  <2>8. QED
    BY <1>7, <2>1, <2>2, <2>3, <2>4, <2>5, <2>6, <2>7 DEF Undo
<1>8. CASE Recover \/ Restore \/ Out \/ RecoverEnds
  BY <1>8 DEF Recover, Restore, Out, RecoverEnds
<1>9. CASE RollbackBegins \/ Finalize \/ RemoveBegins \/ RemoveRoot
  BY <1>9 DEF RollbackBegins, Finalize, RemoveBegins, RemoveRoot
<1>10. ASSUME NEW s \in Specs, Provision(s) PROVE PlaceInv'
  BY <1>10 DEF Provision
<1>11. CASE Check \/ AskFinalize \/ AskRollback \/ Remove
  BY <1>11 DEF Check, AskFinalize, AskRollback, Remove
<1>12. CASE Lost \/ Crash
  BY <1>12 DEF Lost, Crash
<1>13. CASE UNCHANGED vars
  BY <1>13 DEF vars
<1>14. QED
  BY <1>1, <1>2, <1>3, <1>4, <1>5, <1>6, <1>7, <1>8, <1>9, <1>10, <1>11, <1>12, <1>13 DEF Next

\* The volume goes only with a worker that was never provisioned.
LEMMA KeyInvStep ==
  ASSUME KeyInv, ScriptInv, ClientInv, JournalInv, AppliedInv, PlaceInv, TypeDirs, TypeLive,
         TypeJournal, TypeFlags, TypeVolume, [Next]_vars
  PROVE  KeyInv'
<1> USE DEF KeyInv, ScriptInv, ClientInv, Awaiting, JournalInv, AppliedInv, PlaceInv, TypeDirs,
        TypeLive, TypeFlags, TypeVolume
<1>1. CASE ApplyBegins \/ Resume \/ Match \/ Stage
  BY <1>1 DEF ApplyBegins, Resume, Match, Stage
<1>2. CASE Swap
  BY <1>2 DEF Swap
<1>3. CASE Build
  <2>1. CASE Up("build", "relay", "undo")
    BY <2>1
  <2>2. CASE ~listening /\ Turn("build", "undo")
    BY <2>2
  <2>3. CASE Relay("relay", "record", spec)
    BY <2>3
  <2>4. CASE SetState("record", "verify", spec)
    BY <2>4
  <2>5. CASE Verifies /\ Turn("verify", "finish")
    BY <2>5
  <2>6. CASE VerifiesNot /\ Turn("verify", "undo")
    BY <2>6
  <2>7. CASE Journal("finish", "say", "applied")
    BY <2>7
  <2>8. CASE Say("say", "applied", "undo")
    BY <2>8
  <2>9. QED
    BY <1>3, <2>1, <2>2, <2>3, <2>4, <2>5, <2>6, <2>7, <2>8 DEF Build
<1>4. CASE Undo
  BY <1>4 DEF Undo
<1>5. CASE Recover
  BY <1>5 DEF Recover
<1>6. CASE Restore
  BY <1>6 DEF Restore
<1>7. CASE Out
  BY <1>7 DEF Out
<1>8. CASE RecoverEnds
  BY <1>8 DEF RecoverEnds
<1>9. CASE RollbackBegins \/ Finalize \/ RemoveBegins \/ RemoveRoot
  BY <1>9 DEF RollbackBegins, Finalize, RemoveBegins, RemoveRoot
<1>10. ASSUME NEW s \in Specs, Provision(s) PROVE KeyInv'
  BY <1>10 DEF Provision
<1>11. CASE Check \/ AskFinalize \/ AskRollback \/ Remove
  BY <1>11 DEF Check, AskFinalize, AskRollback, Remove
<1>12. CASE Lost \/ Crash
  BY <1>12 DEF Lost, Crash
<1>13. CASE UNCHANGED vars
  BY <1>13 DEF vars
<1>14. QED
  BY <1>1, <1>2, <1>3, <1>4, <1>5, <1>6, <1>7, <1>8, <1>9, <1>10, <1>11, <1>12, <1>13 DEF Next

\* What a removal leaves of a directory runs no container.
LEMMA TornInvStep ==
  ASSUME TornInv, JournalInv, AppliedInv, PlaceInv, TypeDirs, TypeLive, TypeJournal, TypeFlags,
         [Next]_vars
  PROVE  TornInv'
<1> USE DEF TornInv, JournalInv, AppliedInv, PlaceInv, TypeDirs, TypeLive
<1>1. CASE ApplyBegins \/ Resume \/ Match \/ Stage
  BY <1>1 DEF ApplyBegins, Resume, Match, Stage
<1>2. CASE Swap \/ Build \/ Undo
  BY <1>2 DEF Swap, Build, Undo
<1>3. CASE Recover \/ Restore \/ Out \/ RecoverEnds
  BY <1>3 DEF Recover, Restore, Out, RecoverEnds
<1>4. CASE RollbackBegins \/ Finalize \/ RemoveBegins \/ RemoveRoot
  BY <1>4 DEF RollbackBegins, Finalize, RemoveBegins, RemoveRoot
<1>5. ASSUME NEW s \in Specs, Provision(s) PROVE TornInv'
  BY <1>5 DEF Provision
<1>6. CASE Check \/ AskFinalize \/ AskRollback \/ Remove
  BY <1>6 DEF Check, AskFinalize, AskRollback, Remove
<1>7. CASE Lost \/ Crash
  BY <1>7 DEF Lost, Crash
<1>8. CASE UNCHANGED vars
  BY <1>8 DEF vars
<1>9. QED
  BY <1>1, <1>2, <1>3, <1>4, <1>5, <1>6, <1>7, <1>8 DEF Next

\* The journal outlives the directory that was replaced.
LEMMA PreviousIsJournaledStep ==
  ASSUME "halfRemoved" \notin Faults, PreviousIsJournaled, JournalInv, PlaceInv, [Next]_vars
  PROVE  PreviousIsJournaled'
<1> USE DEF PreviousIsJournaled, JournalInv, PlaceInv
<1>1. CASE ApplyBegins \/ Resume \/ Match \/ Stage
  BY <1>1 DEF ApplyBegins, Resume, Match, Stage
<1>2. CASE Swap
  BY <1>2 DEF Swap
<1>3. CASE Build
  <2>1. CASE Up("build", "relay", "undo")
    BY <2>1
  <2>2. CASE ~listening /\ Turn("build", "undo")
    BY <2>2
  <2>3. CASE Relay("relay", "record", spec)
    BY <2>3
  <2>4. CASE SetState("record", "verify", spec)
    BY <2>4
  <2>5. CASE Verifies /\ Turn("verify", "finish")
    BY <2>5
  <2>6. CASE VerifiesNot /\ Turn("verify", "undo")
    BY <2>6
  <2>7. CASE Journal("finish", "say", "applied")
    BY <2>7
  <2>8. CASE Say("say", "applied", "undo")
    BY <2>8
  <2>9. QED
    BY <1>3, <2>1, <2>2, <2>3, <2>4, <2>5, <2>6, <2>7, <2>8 DEF Build
<1>4. CASE Undo
  BY <1>4 DEF Undo
<1>5. CASE Recover \/ Restore \/ Out \/ RecoverEnds
  BY <1>5 DEF Recover, Restore, Out, RecoverEnds
<1>6. CASE RollbackBegins \/ Finalize \/ RemoveBegins \/ RemoveRoot
  BY <1>6 DEF RollbackBegins, Finalize, RemoveBegins, RemoveRoot
<1>7. ASSUME NEW s \in Specs, Provision(s) PROVE PreviousIsJournaled'
  BY <1>7 DEF Provision
<1>8. CASE Check \/ AskFinalize \/ AskRollback \/ Remove
  BY <1>8 DEF Check, AskFinalize, AskRollback, Remove
<1>9. CASE Lost \/ Crash
  BY <1>9 DEF Lost, Crash
<1>10. CASE UNCHANGED vars
  BY <1>10 DEF vars
<1>11. QED
  BY <1>1, <1>2, <1>3, <1>4, <1>5, <1>6, <1>7, <1>8, <1>9, <1>10 DEF Next

\* A provisioned worker is whole in one of the two places.
LEMMA WorkerInvStep ==
  ASSUME WholePrevious, WorkerInv, HostInv, [Next]_vars
  PROVE  WorkerInv'
<1> USE DEF WorkerInv, HostInv, WholePrevious, ScriptInv, ClientInv, Awaiting, JournalInv,
        AppliedInv, PlaceInv, KeyInv, TornInv, TypeDirs, TypeLive, TypeFlags
<1>1. CASE ApplyBegins \/ Resume \/ Match \/ Stage
  BY <1>1 DEF ApplyBegins, Resume, Match, Stage
<1>2. CASE Swap
  BY <1>2 DEF Swap
<1>3. CASE Build
  <2>1. CASE Up("build", "relay", "undo")
    BY <2>1
  <2>2. CASE ~listening /\ Turn("build", "undo")
    BY <2>2
  <2>3. CASE Relay("relay", "record", spec)
    BY <2>3
  <2>4. CASE SetState("record", "verify", spec)
    BY <2>4
  <2>5. CASE Verifies /\ Turn("verify", "finish")
    BY <2>5
  <2>6. CASE VerifiesNot /\ Turn("verify", "undo")
    BY <2>6
  <2>7. CASE Journal("finish", "say", "applied")
    BY <2>7
  <2>8. CASE Say("say", "applied", "undo")
    BY <2>8
  <2>9. QED
    BY <1>3, <2>1, <2>2, <2>3, <2>4, <2>5, <2>6, <2>7, <2>8 DEF Build
<1>4. CASE Undo
  <2>1. CASE Down("undo", "undoDrop", ~old)
    BY <2>1
  <2>2. CASE Drop("undoDrop", "undoBack")
    BY <2>2
  <2>3. CASE previous # "none" /\ Back("undoBack", "undoState")
    BY <2>3
  <2>4. CASE previous = "none" /\ SetState("undoBack", "undoEnd", "none")
    BY <2>4
  <2>5. CASE BackState("undoState", "undoUp")
    BY <2>5
  <2>6. CASE Up("undoUp", "undoEnd", "undoEnd")
    BY <2>6
  <2>7. CASE Gives("undoEnd") /\ journal' = <<>> /\ UNCHANGED <<dirs, marks, live, old, call>>
    BY <2>7
  <2>8. QED
    BY <1>4, <2>1, <2>2, <2>3, <2>4, <2>5, <2>6, <2>7 DEF Undo
<1>5. CASE Recover \/ Restore \/ Out \/ RecoverEnds
  BY <1>5 DEF Recover, Restore, Out, RecoverEnds
<1>6. CASE RollbackBegins \/ Finalize \/ RemoveBegins \/ RemoveRoot
  BY <1>6 DEF RollbackBegins, Finalize, RemoveBegins, RemoveRoot
<1>7. ASSUME NEW s \in Specs, Provision(s) PROVE WorkerInv'
  BY <1>7 DEF Provision
<1>8. CASE Check \/ AskFinalize \/ AskRollback \/ Remove
  BY <1>8 DEF Check, AskFinalize, AskRollback, Remove
<1>9. CASE Lost \/ Crash
  BY <1>9 DEF Lost, Crash
<1>10. CASE UNCHANGED vars
  BY <1>10 DEF vars
<1>11. QED
  BY <1>1, <1>2, <1>3, <1>4, <1>5, <1>6, <1>7, <1>8, <1>9, <1>10 DEF Next

\* What the steps rely on between two records.
LEMMA StepInvStep ==
  ASSUME Recoverable, RestInv, StepInv, HostInv, [Next]_vars
  PROVE  StepInv'
<1> USE DEF StepInv, HostInv, Recoverable, ScriptInv, ClientInv, Awaiting, JournalInv,
        AppliedInv, PlaceInv, KeyInv, TornInv, InPlace, Restorable, RestInv, Real, InWindow,
        TypeDirs, TypeMarks, TypeLive, TypeFlags, TypeJournal
<1>1. CASE ApplyBegins
  BY <1>1 DEF ApplyBegins
<1>2. CASE Resume
  BY <1>2 DEF Resume
<1>3. CASE Match
  BY <1>3 DEF Match
<1>4. CASE Stage
  <2>1. CASE /\ Goto("stage", "clearPrevious")
             /\ old' = (current # "none")
             /\ journal' = [spec |-> spec, phase |-> "prepared", old |-> current # "none"]
             /\ UNCHANGED <<dirs, marks, live, talk, call>>
    BY <2>1
  <2>2. CASE May("stage") /\ Quits("stage")
    BY <2>2
  <2>3. QED
    BY <1>4, <2>1, <2>2 DEF Stage
<1>5. CASE Swap
  BY <1>5 DEF Swap
<1>6. CASE Build
  <2>1. CASE Up("build", "relay", "undo")
    BY <2>1
  <2>2. CASE ~listening /\ Turn("build", "undo")
    BY <2>2
  <2>3. CASE Relay("relay", "record", spec)
    BY <2>3
  <2>4. CASE SetState("record", "verify", spec)
    BY <2>4
  <2>5. CASE Verifies /\ Turn("verify", "finish")
    BY <2>5
  <2>6. CASE VerifiesNot /\ Turn("verify", "undo")
    BY <2>6
  <2>7. CASE Journal("finish", "say", "applied")
    BY <2>7
  <2>8. CASE Say("say", "applied", "undo")
    BY <2>8
  <2>9. QED
    BY <1>6, <2>1, <2>2, <2>3, <2>4, <2>5, <2>6, <2>7, <2>8 DEF Build
<1>7. CASE Undo
  <2>1. CASE Down("undo", "undoDrop", ~old)
    BY <2>1
  <2>2. CASE Drop("undoDrop", "undoBack")
    BY <2>2
  <2>3. CASE previous # "none" /\ Back("undoBack", "undoState")
    BY <2>3
  <2>4. CASE previous = "none" /\ SetState("undoBack", "undoEnd", "none")
    BY <2>4
  <2>5. CASE BackState("undoState", "undoUp")
    BY <2>5
  <2>6. CASE Up("undoUp", "undoEnd", "undoEnd")
    BY <2>6
  <2>7. CASE Gives("undoEnd") /\ journal' = <<>> /\ UNCHANGED <<dirs, marks, live, old, call>>
    BY <2>7
  <2>8. QED
    BY <1>7, <2>1, <2>2, <2>3, <2>4, <2>5, <2>6, <2>7 DEF Undo
<1>8. CASE Recover
  BY <1>8 DEF Recover
<1>9. CASE Restore
  BY <1>9 DEF Restore
<1>10. CASE Out
  BY <1>10 DEF Out
<1>11. CASE RecoverEnds
  BY <1>11 DEF RecoverEnds
<1>12. CASE RollbackBegins \/ Finalize \/ RemoveBegins \/ RemoveRoot
  BY <1>12 DEF RollbackBegins, Finalize, RemoveBegins, RemoveRoot
<1>13. ASSUME NEW s \in Specs, Provision(s) PROVE StepInv'
  BY <1>13 DEF Provision
<1>14. CASE Check \/ AskFinalize \/ AskRollback \/ Remove
  BY <1>14 DEF Check, AskFinalize, AskRollback, Remove
<1>15. CASE Lost \/ Crash
  BY <1>15 DEF Lost, Crash
<1>16. CASE UNCHANGED vars
  BY <1>16 DEF vars
<1>17. QED
  BY <1>1, <1>2, <1>3, <1>4, <1>5, <1>6, <1>7, <1>8, <1>9, <1>10, <1>11, <1>12, <1>13, <1>14,
     <1>15, <1>16 DEF Next

\* What the next script finds after a death is enough.
LEMMA RestInvStep ==
  ASSUME Recoverable, RestInv, StepInv, HostInv, [Next]_vars
  PROVE  RestInv'
<1> USE DEF RestInv, HostInv, Recoverable, ScriptInv, ClientInv, Awaiting, JournalInv,
        AppliedInv, PlaceInv, KeyInv, TornInv, InPlace, Restorable, StepInv, Real, InWindow,
        TypeDirs, TypeMarks, TypeLive, TypeFlags, TypeJournal
<1>1. CASE ApplyBegins \/ Resume \/ Match \/ Stage
  BY <1>1 DEF ApplyBegins, Resume, Match, Stage
<1>2. CASE Swap
  BY <1>2 DEF Swap
<1>3. CASE Build
  <2>1. CASE Up("build", "relay", "undo")
    BY <2>1
  <2>2. CASE ~listening /\ Turn("build", "undo")
    BY <2>2
  <2>3. CASE Relay("relay", "record", spec)
    BY <2>3
  <2>4. CASE SetState("record", "verify", spec)
    BY <2>4
  <2>5. CASE Verifies /\ Turn("verify", "finish")
    BY <2>5
  <2>6. CASE VerifiesNot /\ Turn("verify", "undo")
    BY <2>6
  <2>7. CASE Journal("finish", "say", "applied")
    BY <2>7
  <2>8. CASE Say("say", "applied", "undo")
    BY <2>8
  <2>9. QED
    BY <1>3, <2>1, <2>2, <2>3, <2>4, <2>5, <2>6, <2>7, <2>8 DEF Build
<1>4. CASE Undo
  <2>1. CASE Down("undo", "undoDrop", ~old)
    BY <2>1
  <2>2. CASE Drop("undoDrop", "undoBack")
    BY <2>2
  <2>3. CASE previous # "none" /\ Back("undoBack", "undoState")
    BY <2>3
  <2>4. CASE previous = "none" /\ SetState("undoBack", "undoEnd", "none")
    BY <2>4
  <2>5. CASE BackState("undoState", "undoUp")
    BY <2>5
  <2>6. CASE Up("undoUp", "undoEnd", "undoEnd")
    BY <2>6
  <2>7. CASE Gives("undoEnd") /\ journal' = <<>> /\ UNCHANGED <<dirs, marks, live, old, call>>
    BY <2>7
  <2>8. QED
    BY <1>4, <2>1, <2>2, <2>3, <2>4, <2>5, <2>6, <2>7 DEF Undo
<1>5. CASE Recover
  BY <1>5 DEF Recover
<1>6. CASE Restore
  <2>1. CASE Down("recDown", "recDrop", FALSE)
    BY <2>1
  <2>2. CASE Drop("recDrop", "recBack")
    BY <2>2
  <2>3. CASE Back("recBack", "recState")
    BY <2>3
  <2>4. CASE BackState("recState", "recUp")
    BY <2>4
  <2>5. CASE Starts /\ Goto("recUp", "recEnd")
             /\ UNCHANGED <<dirs, marks, journal, relay, old, talk, call>>
    BY <2>5
  <2>6. CASE StartsNot /\ Gives("recUp")
             /\ UNCHANGED <<dirs, marks, journal, relay, old, call>>
    BY <2>6
  <2>7. QED
    BY <1>6, <2>1, <2>2, <2>3, <2>4, <2>5, <2>6 DEF Restore
<1>7. CASE Out
  BY <1>7 DEF Out
<1>8. CASE RecoverEnds
  BY <1>8 DEF RecoverEnds
<1>9. CASE RollbackBegins \/ Finalize \/ RemoveBegins \/ RemoveRoot
  BY <1>9 DEF RollbackBegins, Finalize, RemoveBegins, RemoveRoot
<1>10. ASSUME NEW s \in Specs, Provision(s) PROVE RestInv'
  BY <1>10 DEF Provision
<1>11. CASE Check \/ AskFinalize \/ AskRollback \/ Remove
  BY <1>11 DEF Check, AskFinalize, AskRollback, Remove
<1>12. CASE Lost \/ Crash
  BY <1>12 DEF Lost, Crash
<1>13. CASE UNCHANGED vars
  BY <1>13 DEF vars
<1>14. QED
  BY <1>1, <1>2, <1>3, <1>4, <1>5, <1>6, <1>7, <1>8, <1>9, <1>10, <1>11, <1>12, <1>13 DEF Next
-----------------------------------------------------------------------------
(* The theorems *)

LEMMA InitHost == Init => HostInv
<1> SUFFICES ASSUME Init PROVE HostInv
  OBVIOUS
<1> USE DEF Init
<1>1. TypeDirs /\ TypeMarks /\ TypeLive /\ TypeJournal /\ TypeFlags /\ TypeVolume
  BY DEF TypeDirs, TypeMarks, TypeLive, TypeJournal, TypeFlags, TypeVolume
<1>2. TypeClient /\ TypeScript /\ TypeCounts
  BY DEF TypeClient, TypeScript, TypeCounts, Clients, Labels
<1>3. ScriptInv /\ ClientInv /\ JournalInv /\ AppliedInv
  BY DEF ScriptInv, ClientInv, JournalInv, AppliedInv
<1>4. PlaceInv /\ KeyInv /\ TornInv
  BY DEF PlaceInv, KeyInv, TornInv
<1>5. QED
  BY <1>1, <1>2, <1>3, <1>4 DEF HostInv

LEMMA HostStep == ASSUME HostInv, [Next]_vars PROVE HostInv'
BY TypeDirsStep, TypeJournalStep, TypeCountsStep, TypeStep,
   ScriptInvStep, ClientInvStep, JournalInvStep,
   AppliedInvStep, PlaceInvStep, KeyInvStep, TornInvStep DEF HostInv

LEMMA HostHolds == Spec => []HostInv
BY InitHost, HostStep, PTL DEF Spec

\* Every reachable state is one of the code: directories, state files, journal,
\* the step the script is at, and what the desktop waits for.
THEOREM TypeCorrect == Spec => []TypeOK
<1>1. HostInv => TypeOK
  BY DEF HostInv, TypeOK, TypeDirs, TypeMarks, TypeLive, TypeJournal, TypeFlags, TypeVolume,
         TypeClient, TypeScript, TypeCounts
<1>2. QED
  BY <1>1, HostHolds, PTL

\* A failed upgrade never throws away the key that the inventory has pinned,
\* whatever fails and wherever the script dies.
THEOREM KeyKept == Spec => []KeyIsKept
<1>1. HostInv => KeyIsKept
  BY DEF HostInv, KeyInv, KeyIsKept
<1>2. QED
  BY <1>1, HostHolds, PTL

\* As long as a removal of the root is not cut short, the directory that was
\* replaced is never there without the journal that says so.
THEOREM PreviousKept == "halfRemoved" \notin Faults => (Spec => []PreviousIsJournaled)
<1> SUFFICES ASSUME "halfRemoved" \notin Faults PROVE Spec => []PreviousIsJournaled
  OBVIOUS
<1>1. Init => PreviousIsJournaled
  BY DEF Init, PreviousIsJournaled
<1>2. HostInv /\ PreviousIsJournaled /\ [Next]_vars => PreviousIsJournaled'
  BY PreviousIsJournaledStep DEF HostInv
<1>3. QED
  BY <1>1, <1>2, HostHolds, PTL DEF Spec

\* Once a worker was provisioned, a whole one is in its place or where the next
\* operation restores it from, until it is removed: unless finalize tears what
\* it clears, or docker leaves up what a half-done removal has torn.
THEOREM WorkerSurvives == WholePrevious => (Spec => []SomeWorkerSurvives)
<1> SUFFICES ASSUME WholePrevious PROVE Spec => []SomeWorkerSurvives
  OBVIOUS
<1>1. Init => WorkerInv
  BY DEF Init, WorkerInv
<1>2. HostInv /\ WorkerInv /\ [Next]_vars => WorkerInv'
  BY WorkerInvStep
<1>3. HostInv /\ WorkerInv => SomeWorkerSurvives
  BY DEF HostInv, TypeDirs, WorkerInv, SomeWorkerSurvives
<1>4. QED
  BY <1>1, <1>2, <1>3, HostHolds, PTL DEF Spec

\* What is reported as provisioned is there, whole, running and reachable, when
\* docker takes down what it is told to and the script does not die between a
\* directory and its record or in a removal.
THEOREM SuccessHolds == Recoverable => (Spec => []SuccessIsReal)
<1> SUFFICES ASSUME Recoverable PROVE Spec => []SuccessIsReal
  OBVIOUS
<1> DEFINE Inv == RestInv /\ StepInv
<1>1. Init => Inv
  BY DEF Init, RestInv, StepInv, InWindow, Restorable, InPlace, Real
<1>2. HostInv /\ Inv /\ [Next]_vars => Inv'
  BY RestInvStep, StepInvStep
<1>3. HostInv /\ Inv => SuccessIsReal
  BY DEF RestInv, StepInv, InWindow, Restorable, Real, SuccessIsReal
<1>4. QED
  BY <1>1, <1>2, <1>3, HostHolds, PTL DEF Spec

=============================================================================
