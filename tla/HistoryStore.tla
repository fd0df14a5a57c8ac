---------------------------- MODULE HistoryStore ----------------------------
(***************************************************************************)
(* The local history (history/HistoryStore.ts): a Git repository with one  *)
(* file for the state and sidecars for labels, retention and the display   *)
(* name.  Writes form a chain; what they write is put together before they *)
(* enter it.                                                               *)
(*                                                                         *)
(* A call is a promise of the store.  Everything it awaits is a step of    *)
(* its own: the opening of the repository, which calls share, a Git        *)
(* command, the reading of a sidecar, its turn in the chain.               *)
(***************************************************************************)
EXTENDS Integers, Sequences, FiniteSets

CONSTANTS
    Snapshots, NoSnapshot, Labels, NoLabel, Keeps,
    Hash,       \* the order of the commit ids
    MaxIds,     \* MAX_PRUNED_IDS
    Calls,      \* calls in flight at a time (bound)
    MaxCalls,   \* calls ever made (bound)
    Faults,     \* what may fail
    Serial,     \* labels and retention are changed one at a time
    MaxCrashes  \* deaths of the program (bound)

FaultKinds == {"init", "write", "git", "late", "undo", "crash", "torn", "read", "readSidecar"}

\* A call makes one revision at most.
Ids == 1..MaxCalls

ASSUME HistoryAssumption ==
    /\ NoSnapshot \notin Snapshots /\ NoLabel \notin Labels
    /\ Keeps \subseteq Nat \ {0} /\ Hash \in [Ids -> Nat]
    /\ MaxIds \in Nat /\ MaxCalls \in Nat /\ MaxCrashes \in Nat
    /\ Faults \subseteq FaultKinds /\ Serial \in BOOLEAN

Files == {"snapshot", "labels", "pruned", "name"}
Empty == [f \in Files |->
    CASE f = "labels" -> [i \in Ids |-> NoLabel]
      [] f = "pruned" -> {}
      [] OTHER -> NoSnapshot]

VARIABLES
    work,      \* the files of the working tree; what a missing file is read as
    committed, \* the files as of HEAD
    log,       \* the commits: what made them, and the state as of each
    opened,    \* this.initialization: none, running or done
    chain,     \* mutationChain: the calls in it, the running one first
    call,      \* the calls
    made, crashes

vars == <<work, committed, log, opened, chain, call, made, crashes>>

Ops == {"append", "force", "name", "restore", "label", "prune"}
Idle == [stage |-> "idle", op |-> "append", arg |-> NoSnapshot, id |-> 0, what |-> NoSnapshot,
         before |-> NoSnapshot]

May(fault) == fault \in Faults

Init ==
    /\ work = Empty /\ committed = Empty /\ log = <<>>
    /\ opened = "none" /\ chain = <<>> /\ call = [c \in Calls |-> Idle]
    /\ made = 0 /\ crashes = 0

-----------------------------------------------------------------------------
(***************************************************************************)
(* What a call does before it enters the chain.                            *)
(***************************************************************************)
At(c, stage) == call[c].stage = stage
Becomes(c, stage, id, what, before) ==
    call' = [call EXCEPT ![c] = [stage |-> stage, op |-> call[c].op, arg |-> call[c].arg, id |-> id,
                                 what |-> what, before |-> before]]
Moves(c, stage) == Becomes(c, stage, call[c].id, call[c].what, call[c].before)
Gets(c, what) == Becomes(c, "ready", call[c].id, what, call[c].before)
Returns(c) == call' = [call EXCEPT ![c] = Idle]
Op(c) == call[c].op
FileOf(op) == CASE op = "name" -> "name" [] op = "label" -> "labels" [] op = "prune" -> "pruned"
                [] OTHER -> "snapshot"
File(c) == FileOf(Op(c))

\* Labels and retention: what they write depends on what is there.
Administers(c) == call[c].stage # "idle" /\ Op(c) \in {"label", "prune"}

Begins(c, op, arg, id) ==
    /\ At(c, "idle") /\ made < MaxCalls /\ made' = made + 1
    /\ Serial /\ op \in {"label", "prune"} => \A d \in Calls : ~Administers(d)
    /\ call' = [call EXCEPT ![c] =
         [stage |-> "opening", op |-> op, arg |-> arg, id |-> id,
          what |-> IF op \in {"append", "force", "name"} THEN arg ELSE NoSnapshot, before |-> NoSnapshot]]
    /\ opened' = IF opened = "none" THEN "running" ELSE opened
    /\ UNCHANGED <<work, committed, log, chain, crashes>>

Revisions == {i \in Ids : i <= Len(log)}

\* appendSnapshot, discard, appendDisplayNameMutation; restore and undo;
\* setLabel; prune.
Call(c) ==
    \/ \E s \in Snapshots, op \in {"append", "force", "name"} : Begins(c, op, s, 0)
    \/ \E i \in Revisions : Begins(c, "restore", NoSnapshot, i)
    \/ \E i \in Revisions, l \in Labels \cup {NoLabel} : Begins(c, "label", l, i)
    \/ \E keep \in Keeps : Begins(c, "prune", keep, 0)

\* initialize(); all the calls that wait for it share its outcome, and a
\* failure is forgotten.
Initialized ==
    /\ opened = "running"
    /\ \/ opened' = "done" /\ UNCHANGED call
       \/ /\ May("init") /\ opened' = "none"
          /\ call' = [c \in Calls |-> IF At(c, "opening") THEN Idle ELSE call[c]]
    /\ UNCHANGED <<work, committed, log, chain, made, crashes>>

Open(c) ==
    /\ At(c, "opening") /\ opened = "done"
    /\ Moves(c, IF Op(c) \in {"restore", "label", "prune"} THEN "list" ELSE "ready")
    /\ UNCHANGED <<work, committed, log, opened, chain, made, crashes>>

\* git log, or git show of the state as of a revision.
List(c) ==
    /\ At(c, "list")
    /\ \/ /\ Op(c) = "restore" /\ log[call[c].id].snapshot # NoSnapshot
          /\ Gets(c, log[call[c].id].snapshot)
       \/ /\ Op(c) = "restore" /\ log[call[c].id].snapshot = NoSnapshot
          /\ Returns(c)
       \/ /\ Op(c) \in {"label", "prune"}
          /\ Becomes(c, "sidecar", IF Op(c) = "prune" THEN Len(log) ELSE call[c].id,
                     call[c].what, call[c].before)
       \/ May("git") /\ Returns(c)
    /\ UNCHANGED <<work, committed, log, opened, chain, made, crashes>>

\* The bug of keeping one less.
CandidatesOffByOne(n, hidden, keep) ==
    LET shown == {i \in Ids : i <= n /\ log[i].kind = "state" /\ i \notin hidden} IN
    {i \in shown : Cardinality({j \in shown : j > i}) >= keep - 1}

\* The states that a list of the first n commits shows and that retention may
\* hide: those with keep newer ones.
Candidates(n, hidden, keep) ==
    LET shown == {i \in Ids : i <= n /\ log[i].kind = "state" /\ i \notin hidden} IN
    {i \in shown : Cardinality({j \in shown : j > i}) >= keep}

\* The first MaxIds entries of a sidecar, sorted by id, are written.
Written(S) ==
    IF Cardinality(S) <= MaxIds THEN S
    ELSE {i \in S : Cardinality({j \in S : Hash[j] < Hash[i]}) < MaxIds}

Relabeled(c) ==
    LET new == [work["labels"] EXCEPT ![call[c].id] = call[c].arg]
        set == Written({i \in Ids : new[i] # NoLabel})
    IN [i \in Ids |-> IF i \in set THEN new[i] ELSE NoLabel]

\* readLabels and readPrunedIds: of the working tree, and not in the chain.
Sidecar(c) ==
    /\ At(c, "sidecar")
    /\ LET old == Candidates(call[c].id, work["pruned"], call[c].arg)
           new == IF Op(c) = "label" THEN Relabeled(c) ELSE Written(work["pruned"] \cup old)
       IN IF Op(c) = "prune" /\ old = {} THEN Returns(c)
          ELSE Gets(c, new)
    /\ UNCHANGED <<work, committed, log, opened, chain, made, crashes>>

\* enqueueMutation
Enqueue(c) ==
    /\ At(c, "ready") /\ Moves(c, "queued") /\ chain' = Append(chain, c)
    /\ UNCHANGED <<work, committed, log, opened, made, crashes>>

-----------------------------------------------------------------------------
(***************************************************************************)
(* One call in the chain: the file, the commit, its id.                    *)
(***************************************************************************)
Turn(c, stage) == At(c, stage) /\ chain # <<>> /\ Head(chain) = c
Leaves(c) == Returns(c) /\ chain' = Tail(chain)
Forced(c) == Op(c) # "append"

\* A file that cannot be read is taken for one that is not there.
MayMisread(f) == May(IF f \in {"labels", "pruned"} THEN "readSidecar" ELSE "read")
Reads(f) == {work[f]} \cup (IF MayMisread(f) THEN {Empty[f]} ELSE {})

Rewrite(c) ==
    /\ Turn(c, "queued")
    /\ \/ ~Forced(c) /\ work[File(c)] = call[c].what /\ Leaves(c) /\ UNCHANGED work
       \/ \E before \in Reads(File(c)) :
            /\ Forced(c) \/ before # call[c].what
            /\ Becomes(c, "commit", call[c].id, call[c].what, before)
            /\ work' = [work EXCEPT ![File(c)] = call[c].what]
            /\ UNCHANGED chain
       \/ May("write") /\ Leaves(c) /\ UNCHANGED work
    /\ UNCHANGED <<committed, log, opened, made, crashes>>

KindOf(op) == CASE op = "name" -> "named" [] op = "label" -> "labeled" [] op = "prune" -> "pruned"
                [] OTHER -> "state"

Records(c) ==
    /\ committed' = [committed EXCEPT ![File(c)] = work[File(c)]]
    /\ log' = Append(log, [kind |-> KindOf(Op(c)), snapshot |-> committed'["snapshot"]])

\* git add and git commit --only; a commit without a change needs --allow-empty.
\* Git may be killed for its time when the commit is already made.
Commit(c) ==
    /\ Turn(c, "commit")
    /\ \/ /\ Forced(c) \/ committed[File(c)] # work[File(c)]
          /\ Records(c) /\ Moves(c, "report")
       \/ May("late") /\ Records(c) /\ Moves(c, "undo")
       \/ /\ May("git") \/ (~Forced(c) /\ committed[File(c)] = work[File(c)])
          /\ Moves(c, "undo") /\ UNCHANGED <<committed, log>>
    /\ UNCHANGED <<work, opened, chain, made, crashes>>

\* The bug of a failed commit that leaves its file behind.
UndoNothing(c) ==
    /\ Turn(c, "undo") /\ Leaves(c)
    /\ UNCHANGED <<work, committed, log, opened, made, crashes>>

\* The bug of a chain that a rejected mutation does not release.
UndoAndStay(c) ==
    /\ Turn(c, "undo") /\ Returns(c)
    /\ work' = [work EXCEPT ![File(c)] = call[c].before]
    /\ UNCHANGED <<committed, log, opened, chain, made, crashes>>

\* What was there before is put back.
Undo(c) ==
    /\ Turn(c, "undo") /\ Leaves(c)
    /\ \/ work' = [work EXCEPT ![File(c)] = call[c].before]
       \/ May("undo") /\ UNCHANGED work
    /\ UNCHANGED <<committed, log, opened, made, crashes>>

\* git rev-parse and git show; without them the call fails, committed or not.
Report(c) ==
    /\ Turn(c, "report") /\ Leaves(c)
    /\ UNCHANGED <<work, committed, log, opened, made, crashes>>

\* The program dies and comes back; "torn" is a death between file and commit.
Crash ==
    /\ May("crash") /\ crashes < MaxCrashes /\ crashes' = crashes + 1
    /\ (\E c \in Calls : At(c, "commit") \/ At(c, "undo")) => May("torn")
    /\ opened' = "none" /\ chain' = <<>> /\ call' = [c \in Calls |-> Idle]
    /\ UNCHANGED <<work, committed, log, made>>

-----------------------------------------------------------------------------
Step(c) ==
    \/ Open(c) \/ List(c) \/ Sidecar(c) \/ Enqueue(c)
    \/ Rewrite(c) \/ Commit(c) \/ Undo(c) \/ Report(c)

Next ==
    \/ \E c \in Calls : Call(c) \/ Step(c)
    \/ Initialized
    \/ Crash

Spec == Init /\ [][Next]_vars

\* Git commands have a time limit, and the promises of the chain settle.
FairSpec == Spec /\ WF_vars(Initialized) /\ \A c \in Calls : WF_vars(Step(c))

-----------------------------------------------------------------------------
\* When no write is half done the files are what was last committed: nothing
\* that failed masquerades as the current state, and an unchanged state that is
\* not recorded again is one that was recorded.  A file that was misread may be
\* gone, which is all that a failing read does.
WorkingIsCommitted ==
    (\A c \in Calls : ~At(c, "commit") /\ ~At(c, "undo")) =>
      \A f \in Files : work[f] = committed[f] \/ (MayMisread(f) /\ work[f] = Empty[f])

\* Every call returns, whatever fails before it in the chain.
CallsSettle == \A c \in Calls : ~At(c, "idle") ~> At(c, "idle")

Journal == INSTANCE AuditJournal
             WITH revisions <- log, labels <- committed["labels"], pruned <- committed["pruned"]

\* Labels, retention and states change one at a time, each as it was asked.
ImplementsJournal == Journal!Spec

=============================================================================
