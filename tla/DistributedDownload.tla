------------------------ MODULE DistributedDownload ------------------------
(***************************************************************************)
(* One download spread over SSH workers (download/distributed): the range  *)
(* plan, the manifest on disk, rounds of pieces given to hosts, the worker *)
(* session that fetches one piece, and the assembly of the file; paused,   *)
(* cancelled, killed and started again.                                    *)
(*                                                                         *)
(* Bytes are abstract: what a piece holds is "good" (the bytes that the    *)
(* expected digest was made of) or "bad" (other bytes, under a hash that   *)
(* is their own).  DownloadManager creates a new task object for every     *)
(* start, so one start() is one life of the variables under "task".        *)
(***************************************************************************)
EXTENDS Integers, Sequences, FiniteSets

CONSTANTS
    NPieces,      \* pieces of the plan, numbered as in the manifest
    NHosts,       \* selected hosts, in the order of the selection
    Liars,        \* hosts that may deliver other bytes under their own hash
    MaxAttempts,  \* maxAttemptsPerPiece
    Faults,       \* what may fail
    UserOps,      \* what the user may ask for
    MaxStarts,    \* calls of start() (bound)
    MaxCrashes    \* deaths of the program (bound)

Pieces == 1..NPieces
Hosts == 1..NHosts
FaultKinds == {"connect", "source", "changed", "drop", "stall", "write", "disk",
               "clock", "save", "identity", "occupied", "clean", "crash", "lateCrash"}

ASSUME DistributedAssumption ==
    /\ NPieces \in Nat \ {0} /\ NHosts \in Nat \ {0} /\ Liars \subseteq Hosts
    /\ MaxAttempts \in Nat \ {0} /\ Faults \subseteq FaultKinds
    /\ UserOps \subseteq {"pause", "cancel", "cancelIdle"}
    /\ MaxStarts \in Nat /\ MaxCrashes \in Nat

Contents == {"none", "good", "bad"}
Blank == [p \in Pieces |-> "none"]

-----------------------------------------------------------------------------
(***************************************************************************)
(* The plan (DistributedRangePlanner.ts): piece p of a partition of        *)
(* 0..total-1 into n pieces.                                               *)
(***************************************************************************)
Least(a, b) == IF a <= b THEN a ELSE b
Greatest(a, b) == IF a >= b THEN a ELSE b

\* pieceCount, for a target length and a limit on the number of pieces.
PieceCount(total, hosts, target, limit) ==
    Least(limit, Greatest((total + target - 1) \div target, Least(hosts, total)))

\* What the loop has reached when it comes to piece p (from 0): the base length
\* of each piece before it, and one more for each of the first ones.
PieceStart(total, n, p) == p * (total \div n) + Least(p, total % n)

-----------------------------------------------------------------------------
VARIABLES
    \* on disk
    manifest,   \* manifest.v1.json: per piece the hash it was verified with; <<>> for no file
    files,      \* per piece: what the file of the piece holds
    partials,   \* pieces with a partial file
    final,      \* the file at the item's path: none, "ours", or of another program
    recorded,   \* state.json says the download is completed
    \* task
    phase,      \* where run() is
    memory,     \* this.manifest
    pending,    \* pieces in the work list
    attempts,   \* per piece: failed attempts
    preferred,  \* per piece: preferredHostId
    quarantined,\* quarantinedHosts
    fetch,      \* per host: its assignment in this round and where it is
    saving,     \* saves of the manifest in flight, oldest first: the host and what it writes
    aborted,    \* controller.signal.aborted
    asked,      \* what the user asked of the task: nothing, pause or cancel
    \* workers, item, bounds
    lingering,  \* hosts whose worker has not noticed yet that its client is gone
    status,     \* item.status
    starts, crashes,
    kept        \* pieces verified on disk when the run began (history)

disk == <<manifest, files, partials, final, recorded>>
plan == <<memory, pending, attempts, preferred, quarantined>>
run == <<phase, aborted, asked, status>>
rest == <<lingering, starts, crashes, kept>>
vars == <<disk, plan, run, rest, fetch, saving>>

\* Where one fetch is; the last four are its ways to fail.
Stages == {"idle", "connecting", "asked", "meta", "data", "received", "saving", "done",
           "stopped", "refused", "transient", "integrity"}
NoFetch == [stage |-> "idle", piece |-> 0, got |-> "none"]
Failures == {"stopped", "refused", "transient", "integrity"}
Phases == {"none", "load", "recheck", "recover", "round", "fetching", "verify", "assemble",
           "judge", "forget", "access", "install", "clean", "completed", "failed", "tidy", "wipe"}

TypeOK ==
    /\ manifest \in {<<>>} \cup [Pieces -> Contents]
    /\ files \in [Pieces -> Contents] /\ partials \subseteq Pieces
    /\ final \in {"none", "ours", "other"} /\ recorded \in BOOLEAN
    /\ phase \in Phases /\ memory \in [Pieces -> Contents]
    /\ pending \subseteq Pieces /\ attempts \in [Pieces -> 0..MaxAttempts]
    /\ preferred \in [Pieces -> Hosts] /\ quarantined \subseteq Hosts
    /\ fetch \in [Hosts -> [stage : Stages, piece : {0} \cup Pieces, got : Contents]]
    /\ saving \in Seq([host : Hosts, what : [Pieces -> Contents]])
    /\ aborted \in BOOLEAN /\ asked \in {"nothing", "pause", "cancel"}
    /\ lingering \subseteq Hosts
    /\ status \in {"paused", "downloading", "completed", "error", "cancelled"}
    /\ starts \in 0..MaxStarts /\ crashes \in 0..MaxCrashes /\ kept \subseteq Pieces

Init ==
    /\ manifest = <<>> /\ files = Blank /\ partials = {} /\ final = "none" /\ recorded = FALSE
    /\ phase = "none" /\ memory = Blank /\ pending = {}
    /\ attempts = [p \in Pieces |-> 0] /\ preferred = [p \in Pieces |-> 1] /\ quarantined = {}
    /\ fetch = [h \in Hosts |-> NoFetch] /\ saving = <<>>
    /\ aborted = FALSE /\ asked = "nothing"
    /\ lingering = {} /\ status = "paused" /\ starts = 0 /\ crashes = 0 /\ kept = {}

May(fault) == fault \in Faults
Goto(p) == phase' = p
Fails == Goto("failed")

-----------------------------------------------------------------------------
(***************************************************************************)
(* start() and the first part of run(): the manifest, and which pieces on  *)
(* disk still are what it says.                                            *)
(***************************************************************************)
Start ==
    /\ phase = "none" /\ status \in {"paused", "error"} /\ starts < MaxStarts
    /\ starts' = starts + 1
    /\ Goto("load") /\ status' = "downloading" /\ aborted' = FALSE /\ asked' = "nothing"
    /\ memory' = Blank /\ pending' = {} /\ quarantined' = {} /\ kept' = {}
    /\ attempts' = [p \in Pieces |-> 0] /\ preferred' = [p \in Pieces |-> 1]
    /\ UNCHANGED <<disk, fetch, saving, lingering, crashes>>

Matches(p) == memory[p] # "none" /\ files[p] = memory[p]

Rank(S, x) == Cardinality({y \in S : y <= x})

\* The bug of a work list that is not filtered.
DealAll(found) ==
    /\ pending' = Pieces
    /\ preferred' = [p \in Pieces |-> ((p - 1) % NHosts) + 1]
    /\ Goto("round")

\* The pieces that the manifest has not verified go to the hosts in turn.
Deal(found) ==
    LET missing == {p \in Pieces : found[p] = "none"} IN
    /\ pending' = missing
    /\ preferred' = [p \in Pieces |-> IF p \in missing THEN ((Rank(missing, p) - 1) % NHosts) + 1 ELSE 1]
    /\ Goto("round")

Load ==
    /\ phase = "load"
    /\ \/ /\ manifest # <<>>
          /\ memory' = manifest /\ Goto("recheck")
          /\ kept' = {p \in Pieces : manifest[p] # "none" /\ files[p] = manifest[p]}
          /\ UNCHANGED disk
       \/ /\ manifest = <<>>
          /\ manifest' = Blank /\ memory' = Blank /\ Goto("recheck")
          /\ UNCHANGED <<files, partials, final, recorded, kept>>
       \/ /\ manifest = <<>> /\ May("save")
          /\ Fails
          /\ UNCHANGED <<disk, memory, kept>>
    /\ UNCHANGED <<pending, attempts, preferred, quarantined, aborted, asked, status,
                   lingering, starts, crashes, fetch, saving>>

\* The bug of believing the manifest without looking at the pieces.
RecheckNothing ==
    /\ phase = "recheck"
    /\ Deal(memory)
    /\ UNCHANGED <<disk, memory, attempts, quarantined, aborted, asked, status, rest, fetch, saving>>

\* revalidatePersistedPieces
Recheck ==
    /\ phase = "recheck"
    /\ files' = [p \in Pieces |-> IF Matches(p) THEN files[p] ELSE "none"]
    /\ memory' = [p \in Pieces |-> IF Matches(p) THEN memory[p] ELSE "none"]
    /\ IF memory' = memory THEN Deal(memory')
       ELSE Goto("recover") /\ UNCHANGED <<pending, preferred>>
    /\ UNCHANGED <<manifest, partials, final, recorded, attempts, quarantined,
                   aborted, asked, status, rest, fetch, saving>>

Recover ==
    /\ phase = "recover"
    /\ \/ manifest' = memory /\ Deal(memory)
       \/ May("save") /\ Fails /\ UNCHANGED <<manifest, pending, preferred>>
    /\ UNCHANGED <<files, partials, final, recorded, memory, attempts, quarantined,
                   aborted, asked, status, rest, fetch, saving>>

-----------------------------------------------------------------------------
(***************************************************************************)
(* downloadPendingPieces: each healthy host takes the first piece that     *)
(* prefers it; a host without one takes, in turn, a piece whose preferred  *)
(* host is quarantined.  The next round waits for all of them.             *)
(***************************************************************************)
Healthy == Hosts \ quarantined
Own(h) == {p \in pending : preferred[p] = h}
Strays == {p \in pending : preferred[p] \notin Healthy}
Free == {h \in Healthy : Own(h) = {}}

Given(h) ==
    IF Own(h) # {} THEN {p \in Own(h) : \A q \in Own(h) : p <= q}
    ELSE {p \in Strays : Rank(Strays, p) = Rank(Free, h)}

Assigned(h) == [stage |-> "connecting", piece |-> CHOOSE p \in Given(h) : TRUE, got |-> "none"]

Round ==
    /\ phase = "round"
    /\ \/ pending = {} /\ ~aborted /\ Goto("verify") /\ UNCHANGED <<fetch, partials>>
       \/ (aborted \/ (pending # {} /\ Healthy = {})) /\ Fails /\ UNCHANGED <<fetch, partials>>
       \/ /\ pending # {} /\ ~aborted /\ Healthy # {}
          /\ fetch' = [h \in Hosts |-> IF h \in Healthy /\ Given(h) # {} THEN Assigned(h) ELSE NoFetch]
          /\ partials' = partials \cup UNION {Given(h) : h \in Healthy}
          /\ Goto("fetching")
    /\ UNCHANGED <<manifest, files, final, recorded, plan, aborted, asked, status, rest, saving>>

-----------------------------------------------------------------------------
(***************************************************************************)
(* One piece on one host: downloadOnePiece and SshWorkerClient.fetchRange  *)
(* here, WorkerServer and downloadRange there.                             *)
(***************************************************************************)
At(h, stages) == phase = "fetching" /\ fetch[h].stage \in stages
Piece(h) == fetch[h].piece
Moves(h, stage) == fetch' = [fetch EXCEPT ![h].stage = stage]
Gives(h, stage) == Moves(h, stage) /\ partials' = partials \ {Piece(h)}

\* Two SSH connections, one through the other, and the exec channel.
Connect(h) ==
    /\ At(h, {"connecting"})
    /\ \/ Moves(h, "asked") /\ UNCHANGED partials
       \/ May("connect") /\ Gives(h, "transient")
    /\ UNCHANGED <<manifest, files, final, recorded, plan, run, rest, saving>>

\* The worker asks the source for the range.  A fetch it has not given up yet
\* may fill its last slot; a source that changed is not asked again.
Answer(h) ==
    /\ At(h, {"asked"})
    /\ \/ Moves(h, "meta") /\ UNCHANGED partials
       \/ (h \in lingering \/ May("source")) /\ Gives(h, "transient")
       \/ May("changed") /\ Gives(h, "refused")
    /\ UNCHANGED <<manifest, files, final, recorded, plan, run, rest, saving>>

\* DATA frames, written to the partial file as they come.
Data(h) ==
    /\ At(h, {"meta"})
    /\ \/ /\ \E c \in {"good"} \cup (IF h \in Liars THEN {"bad"} ELSE {}) :
               fetch' = [fetch EXCEPT ![h].stage = "data", ![h].got = c]
          /\ UNCHANGED <<partials, lingering>>
       \/ /\ May("write") /\ Gives(h, "transient") /\ lingering' = lingering \cup {h}
    /\ UNCHANGED <<manifest, files, final, recorded, plan, run, starts, crashes, kept, saving>>

\* END, with the hash of what was sent.
End(h) ==
    /\ At(h, {"data"}) /\ Moves(h, "received")
    /\ UNCHANGED <<disk, plan, run, rest, saving>>

\* A channel that ends early counts as a violation of the protocol; one that
\* is silent too long is destroyed here, which the worker notices later.
Cut(h) ==
    /\ At(h, {"asked", "meta", "data"})
    /\ \/ May("drop") /\ Gives(h, "integrity") /\ UNCHANGED lingering
       \/ May("stall") /\ Gives(h, "transient") /\ lingering' = lingering \cup {h}
    /\ UNCHANGED <<manifest, files, final, recorded, plan, run, starts, crashes, kept, saving>>

\* controller.abort() destroys channel and connections.
Interrupt(h) ==
    /\ aborted /\ At(h, {"connecting", "asked", "meta", "data"})
    /\ Gives(h, "stopped")
    /\ lingering' = IF fetch[h].stage = "connecting" THEN lingering ELSE lingering \cup {h}
    /\ UNCHANGED <<manifest, files, final, recorded, plan, run, starts, crashes, kept, saving>>

Notice(h) ==
    /\ h \in lingering /\ lingering' = lingering \ {h}
    /\ UNCHANGED <<disk, plan, run, starts, crashes, kept, fetch, saving>>

\* Sync, hash, rename, and only then the record, which is not made when the clock
\* went back.  A piece recorded with one hash cannot be recorded with another:
\* its file is replaced, its record is not.
Keep(h) ==
    /\ At(h, {"received"})
    /\ LET p == Piece(h) c == fetch[h].got same == memory[p] \in {"none", c} IN
       \/ /\ same
          /\ files' = [files EXCEPT ![p] = c] /\ memory' = [memory EXCEPT ![p] = c]
          /\ saving' = Append(saving, [host |-> h, what |-> memory'])
          /\ Gives(h, "saving")
       \/ /\ ~same \/ May("clock")
          /\ files' = [files EXCEPT ![p] = c]
          /\ Gives(h, "transient") /\ UNCHANGED <<memory, saving>>
       \/ /\ May("disk") /\ UNCHANGED <<files, memory, saving>>
          /\ Gives(h, "integrity") \/ Gives(h, "transient")
    /\ UNCHANGED <<manifest, final, recorded, pending, attempts, preferred, quarantined, run, rest>>

\* Saves of one manifest are chained.
Saved(h) ==
    /\ At(h, {"saving"}) /\ Head(saving).host = h
    /\ saving' = Tail(saving)
    /\ \/ manifest' = Head(saving).what /\ Moves(h, "done")
       \/ May("save") /\ Moves(h, "transient") /\ UNCHANGED manifest
    /\ UNCHANGED <<files, partials, final, recorded, plan, run, rest>>

-----------------------------------------------------------------------------
(***************************************************************************)
(* The results of a round, in the order of the hosts.                      *)
(***************************************************************************)
Over == \A h \in Hosts : fetch[h].stage \in {"idle", "done"} \cup Failures
Failed == {h \in Hosts : fetch[h].stage \in Failures}
Broken == {h \in Hosts : fetch[h].stage = "integrity"}

\* Hosts that are not quarantined when the result of h is looked at.
Others(h) == Hosts \ ({h} \cup quarantined \cup {g \in Broken : g <= h})
First(S) == CHOOSE x \in S : \A y \in S : x <= y

\* The bug of a failed attempt that is not counted when another host can try.
GivesUpAlone ==
    /\ Failed # {}
    /\ \/ aborted \/ \E h \in Failed : fetch[h].stage = "refused"
       \/ \E h \in Failed : attempts[Piece(h)] + 1 >= MaxAttempts /\ Others(h) = {}
       \/ \E h \in Broken : Others(h) = {}

GivesUp ==
    /\ Failed # {}
    /\ \/ aborted \/ \E h \in Failed : fetch[h].stage = "refused"
       \/ \E h \in Failed : attempts[Piece(h)] + 1 >= MaxAttempts
       \/ \E h \in Broken : Others(h) = {}

RoundEnds ==
    /\ phase = "fetching" /\ Over
    /\ fetch' = [h \in Hosts |-> NoFetch]
    /\ \/ GivesUp /\ Fails /\ UNCHANGED plan
       \/ /\ ~GivesUp /\ Goto("round")
          /\ pending' = pending \ {Piece(h) : h \in {g \in Hosts : fetch[g].stage = "done"}}
          /\ attempts' = [p \in Pieces |-> IF \E h \in Failed : Piece(h) = p
                                            THEN Least(attempts[p] + 1, MaxAttempts) ELSE attempts[p]]
          /\ preferred' = [p \in Pieces |->
               IF \E h \in Failed : Piece(h) = p
               THEN LET h == CHOOSE g \in Failed : Piece(g) = p
                    IN IF Others(h) # {} THEN First(Others(h)) ELSE h
               ELSE preferred[p]]
          /\ quarantined' = quarantined \cup Broken
          /\ UNCHANGED memory
    /\ UNCHANGED <<disk, aborted, asked, status, rest, saving>>

-----------------------------------------------------------------------------
(***************************************************************************)
(* assembleVerifiedPieces                                                  *)
(***************************************************************************)
Verify ==
    /\ phase = "verify"
    /\ Goto("assemble") \/ (May("identity") /\ Fails)
    /\ UNCHANGED <<disk, plan, aborted, asked, status, rest, fetch, saving>>

\* Each piece is hashed again and copied; the signal is looked at before each.
Assemble ==
    /\ phase = "assemble"
    /\ \/ (\A p \in Pieces : Matches(p)) /\ Goto("judge")
       \/ (aborted \/ \E p \in Pieces : ~Matches(p)) /\ Fails
    /\ UNCHANGED <<disk, plan, aborted, asked, status, rest, fetch, saving>>

\* The digest of the whole against the one that the user gave.
Judge ==
    /\ phase = "judge"
    /\ Goto(IF \E p \in Pieces : memory[p] = "bad" THEN "forget" ELSE "access")
    /\ UNCHANGED <<disk, plan, aborted, asked, status, rest, fetch, saving>>

\* invalidateVerifiedPieces: the files, then the record.
Forget ==
    /\ phase = "forget"
    /\ \/ /\ files # Blank \/ memory # Blank
          /\ files' = Blank /\ memory' = Blank
          /\ UNCHANGED <<manifest, phase>>
       \/ /\ files = Blank /\ memory = Blank /\ Fails
          /\ manifest' = Blank \/ (May("save") /\ UNCHANGED manifest)
          /\ UNCHANGED <<files, memory>>
    /\ UNCHANGED <<partials, final, recorded, pending, attempts, preferred, quarantined,
                   aborted, asked, status, rest, fetch, saving>>

Access ==
    /\ phase = "access"
    /\ IF final = "none" THEN Goto("install") ELSE Fails
    /\ UNCHANGED <<disk, plan, aborted, asked, status, rest, fetch, saving>>

Install ==
    /\ phase = "install" /\ Goto("clean")
    /\ final' = "ours"
    /\ UNCHANGED <<manifest, files, partials, recorded, plan, aborted, asked, status, rest, fetch, saving>>

NoWork == manifest' = <<>> /\ files' = Blank /\ partials' = {}

\* The bug of a cleanup whose failure is the download's.
CleanOrFail ==
    /\ phase = "clean"
    /\ \/ NoWork /\ Goto("completed")
       \/ May("clean") /\ Fails /\ UNCHANGED <<manifest, files, partials>>
    /\ UNCHANGED <<final, recorded, plan, aborted, asked, status, rest, fetch, saving>>

Clean ==
    /\ phase = "clean" /\ Goto("completed")
    /\ NoWork \/ (May("clean") /\ UNCHANGED <<manifest, files, partials>>)
    /\ UNCHANGED <<final, recorded, plan, aborted, asked, status, rest, fetch, saving>>

-----------------------------------------------------------------------------
(***************************************************************************)
(* The end of start(), and what pause() and cancel() do after it.          *)
(***************************************************************************)
Ends ==
    /\ phase \in {"completed", "failed"}
    /\ status' = CASE phase = "completed" -> "completed"
                   [] phase = "failed" /\ asked = "pause" -> "paused"
                   [] phase = "failed" /\ asked = "cancel" -> "cancelled"
                   [] OTHER -> "error"
    /\ Goto(CASE asked = "pause" -> "tidy" [] asked = "cancel" -> "wipe" [] OTHER -> "none")
    /\ UNCHANGED <<disk, plan, aborted, asked, rest, fetch, saving>>

\* removePartialFiles
Tidy ==
    /\ phase = "tidy" /\ Goto("none") /\ partials' = {}
    /\ UNCHANGED <<manifest, files, final, recorded, plan, aborted, asked, status, rest, fetch, saving>>

\* The work directory goes, and the manager has the last word on the status.
Wipe ==
    /\ phase = "wipe" /\ Goto("none") /\ NoWork /\ status' = "cancelled"
    /\ UNCHANGED <<final, recorded, plan, aborted, asked, rest, fetch, saving>>

Ask(what) ==
    /\ what \in UserOps \ {"cancelIdle"}
    /\ phase \notin {"none", "tidy", "wipe"} /\ asked = "nothing"
    /\ asked' = what /\ aborted' = TRUE
    /\ UNCHANGED <<disk, plan, phase, status, rest, fetch, saving>>

\* DownloadManager.cancel without a task: nothing but the status.
CancelIdle ==
    /\ "cancelIdle" \in UserOps
    /\ phase = "none" /\ status \in {"paused", "error"}
    /\ status' = "cancelled"
    /\ UNCHANGED <<disk, plan, phase, aborted, asked, rest, fetch, saving>>

\* The manager saves that the download is completed.
Record ==
    /\ status = "completed" /\ ~recorded /\ recorded' = TRUE
    /\ UNCHANGED <<manifest, files, partials, final, plan, run, rest, fetch, saving>>

\* Another program creates a file of that name.
Occupy ==
    /\ May("occupied") /\ final = "none" /\ phase # "install" /\ final' = "other"
    /\ UNCHANGED <<manifest, files, partials, recorded, plan, run, rest, fetch, saving>>

\* The program dies and comes back: everything but the disk is gone.
Crash ==
    /\ May("crash") /\ crashes < MaxCrashes /\ crashes' = crashes + 1
    /\ phase # "none" \/ (status = "completed" /\ ~recorded)
    /\ final = "ours" /\ ~recorded => May("lateCrash")
    /\ Goto("none") /\ status' = IF recorded THEN "completed" ELSE "paused"
    /\ aborted' = FALSE /\ asked' = "nothing"
    /\ memory' = Blank /\ pending' = {} /\ quarantined' = {} /\ kept' = {}
    /\ attempts' = [p \in Pieces |-> 0] /\ preferred' = [p \in Pieces |-> 1]
    /\ fetch' = [h \in Hosts |-> NoFetch] /\ saving' = <<>>
    /\ lingering' = lingering \cup {h \in Hosts : fetch[h].stage \in {"asked", "meta", "data"}}
    /\ UNCHANGED <<disk, starts>>

-----------------------------------------------------------------------------
\* Everything the program, its timers and the workers do by themselves.
RunStep ==
    \/ Load \/ Recheck \/ Recover \/ Round \/ RoundEnds
    \/ \E h \in Hosts : Connect(h) \/ Answer(h) \/ Data(h) \/ End(h) \/ Cut(h)
                           \/ Interrupt(h) \/ Keep(h) \/ Saved(h)
    \/ Verify \/ Assemble \/ Judge \/ Forget \/ Access \/ Install \/ Clean
    \/ Ends \/ Tidy \/ Wipe

Next ==
    \/ Start
    \/ RunStep
    \/ \E h \in Hosts : Notice(h)
    \/ \E what \in UserOps : Ask(what)
    \/ CancelIdle
    \/ Record
    \/ Occupy
    \/ Crash

Spec == Init /\ [][Next]_vars

\* Connections, frames and ranges have deadlines on both sides, and promises
\* settle.  Neither the user nor another program need do anything.
FairSpec == Spec /\ WF_vars(RunStep)

-----------------------------------------------------------------------------
\* A piece that the run counts as done is on disk with the hash of its record:
\* the rename comes before the record, and a restart looks before it believes.
RecordsAreTrue ==
    phase \in {"round", "fetching", "verify", "assemble", "judge"} =>
      \A p \in Pieces \ pending : Matches(p)

\* What was verified on disk when a run began is not fetched again in it,
\* whatever fails, is paused, or was killed before.
ProgressIsKept == \A h \in Hosts : fetch[h].stage # "idle" => Piece(h) \notin kept

\* Once the file is in its place the download is not reported as failed or
\* paused, whatever becomes of the cleanup or of a pause that came too late.
InstalledIsDone == final = "ours" /\ phase = "none" => status \in {"completed", "cancelled"}

\* A run ends, with the file, an error or what the user asked for: rounds are
\* bounded by the attempts of each piece.
RunEnds == phase = "load" ~> phase = "none"

\* A cancelled download leaves no pieces behind; so the code when a task runs.
CancelledIsWiped == status = "cancelled" /\ phase = "none" => manifest = <<>> /\ files = Blank

\* A file of another program is not replaced.
NothingReplaced == [][final = "other" => final' = "other"]_vars

=============================================================================
