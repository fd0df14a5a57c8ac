-------------------------- MODULE DownloadManager --------------------------
(***************************************************************************)
(* The scheduler of downloads (download/DownloadManager.ts): the items and *)
(* queues, the map of active tasks and the two concurrency limits, the     *)
(* user's operations, the automatic pauses of a schedule, and shutdown.    *)
(*                                                                         *)
(* The code is one JavaScript thread: whatever runs between two awaits is  *)
(* one action here, and everything that is awaited (a task that stops, a   *)
(* state save, the vault, a file removal) is a step of its own, which      *)
(* other operations, events and clock ticks may precede.  A task is seen   *)
(* as its manager sees it: DownloadTask models the transfer itself.        *)
(***************************************************************************)
EXTENDS Integers, FiniteSets, Sequences

CONSTANTS
    Items,      \* downloads that may be added
    NQueues,    \* queues, numbered in the order of the queues map
    Cap,        \* queue.maxConcurrent, per queue
    MaxActive,  \* settings.maxActiveDownloads
    Scheduled,  \* queues with scheduleEnabled and a window
    Protected,  \* items whose source secret is in the credential vault
    Faults,     \* what may fail besides the transfers
    UserOps,    \* operations in use
    Serial,     \* nobody asks for an operation on an item while one is in flight,
                \* nor resumes an item whose last task has not ended, nor quits
                \* while an addition is in flight
    Lives,      \* tasks of one item not yet ended (bound)
    Rounds,     \* automatic pauses of one item in flight (bound)
    Slots,      \* operations in flight (bound)
    MaxAsked,   \* operations asked for (bound)
    MaxTurns    \* openings and closings of schedule windows (bound)

Queues == 1..NQueues
FaultKinds == {"save", "open", "rm", "vault", "create"}
ItemOps == {"pause", "resume", "cancel", "remove", "erase"}
Ops == ItemOps \cup {"add", "addLater", "startQueue", "stopQueue", "shutdown"}

ASSUME ManagerAssumption ==
    /\ IsFiniteSet(Items) /\ NQueues \in Nat \ {0}
    /\ Cap \in [Queues -> Nat] /\ MaxActive \in Nat
    /\ Scheduled \subseteq Queues /\ Protected \subseteq Items
    /\ Faults \subseteq FaultKinds /\ UserOps \subseteq Ops /\ Serial \in BOOLEAN
    /\ Lives \in Nat \ {0} /\ Rounds \in Nat \ {0} /\ Slots \in Nat \ {0}
    /\ MaxAsked \in Nat /\ MaxTurns \in Nat

-----------------------------------------------------------------------------
VARIABLES
    entry,            \* per item: not yet added, listed in this.items, or gone from it
    status,           \* item.status
    order,            \* queue.itemIds
    running,          \* queue.isRunning
    open,             \* isQueueScheduleActive(queue) at the present time
    tasks,            \* this.tasks: which of its tasks the item has there, 0 for none
    inst,             \* the tasks of each item, in the map or not, and where start() is
    scheduledPauses,  \* this.scheduledPauses: which automatic pause, 0 for none
    auto,             \* the automatic pauses of each item and where they are
    calls,            \* operations in flight
    shut,             \* shutdown() in flight
    want,             \* what the user last asked of an item (history, not program state)
    asked, turns      \* counters of the bounds

work == <<tasks, inst, scheduledPauses, auto>>
setup == <<order, running, open>>
bounds == <<want, asked, turns>>
vars == <<entry, status, order, running, open, tasks, inst, scheduledPauses, auto,
          calls, shut, want, asked, turns>>

Statuses == {"added", "queued", "downloading", "paused", "completed", "error", "cancelled"}
TaskIds == 1..Lives
RoundIds == 1..Rounds
\* loading: before the file is open; stopping: stopped there; finishing and
\* failing: the outcome is in item.status and the event is not emitted yet;
\* reporting: the manager's handler of the event waits for its state save.
TaskPcs == {"loading", "stopping", "running", "finishing", "failing", "reporting", "ended"}
AutoPcs == {"none", "pausing", "saving"}
CallPcs == {"idle", "settle", "next", "halting", "erasing", "saving", "marking", "vault"}
\* left: the item of the operation, or those stopQueue has still to stop.
Call == [op: Ops \cup {"none"}, q: Queues, left: Seq(Items), pc: CallPcs, wait: 0..Rounds]
NoCall == [op |-> "none", q |-> 1, left |-> <<>>, pc |-> "idle", wait |-> 0]

TypeOK ==
    /\ entry \in [Items -> {"absent", "listed", "gone"}]
    /\ status \in [Items -> Statuses]
    /\ order \in [Queues -> Seq(Items)]
    /\ running \in [Queues -> BOOLEAN] /\ open \in [Queues -> BOOLEAN]
    /\ tasks \in [Items -> 0..Lives]
    /\ inst \in [Items -> [TaskIds -> TaskPcs]]
    /\ scheduledPauses \in [Items -> 0..Rounds]
    /\ auto \in [Items -> [RoundIds -> AutoPcs]]
    /\ calls \in [1..Slots -> Call]
    /\ shut \in [pc: {"no", "settling", "pausing", "saving", "done"},
                 waits: SUBSET (Items \X RoundIds), halting: SUBSET Items]
    /\ want \in [Items -> {"run", "pause", "stop"}]
    /\ asked \in 0..MaxAsked /\ turns \in 0..MaxTurns

-----------------------------------------------------------------------------
(* The queues: which items get a task *)

Listed(i) == entry[i] = "listed"

Lesser(a, b) == IF a < b THEN a ELSE b

InQueue(q) == {order[q][n] : n \in DOMAIN order[q]}
Position(q, i) == CHOOSE n \in DOMAIN order[q] : order[q][n] = i
Active(t) == {i \in Items : t[i] # 0}

Waiting(q) == {i \in InQueue(q) : Listed(i) /\ status[i] \in {"queued", "added"}}

\* The first n waiting items of the queue.
FirstWaiting(q, n) ==
    {i \in Waiting(q) : Cardinality({j \in Waiting(q) : Position(q, j) < Position(q, i)}) < n}

\* (mutant) A global limit that counts what the pass starts, not what runs.
FreeOfStarted(q, t, started) ==
    Lesser(Cap[q] - Cardinality(Active(t) \cap InQueue(q)), MaxActive - started)

\* processQueue: the slots left once that many items of earlier queues have a task.
FreeSlots(q, t, started) ==
    Lesser(Cap[q] - Cardinality(Active(t) \cap InQueue(q)),
           MaxActive - Cardinality(Active(t)) - started)

\* The items a pass over the queues Q, in their order, starts.  An item that
\* still has a task takes a slot of the pass and is not started; one of U, whose
\* task cannot be created, takes a slot of its queue's pass and of no other.
Startable(S, U, Q, t) ==
    /\ S \subseteq UNION {InQueue(q) : q \in Q}
    /\ \A q \in Q :
          LET before == (S \ U) \cap UNION {InQueue(p) : p \in {p \in Q : p < q}}
          IN  S \cap InQueue(q) =
                  FirstWaiting(q, FreeSlots(q, t, Cardinality(before))) \ Active(t)

\* The items whose task a pass pauses because their queue's window is closed.
Expelled(t, sp) ==
    {i \in UNION {InQueue(q) : q \in {q \in Scheduled : running[q] /\ ~open[q]}} :
        t[i] # 0 /\ Listed(i) /\ sp[i] = 0}

FreeTasks(i, ts) == {n \in TaskIds : ts[i][n] = "ended"}
Awaited(i) == {r \in RoundIds :
                  \/ \E c \in 1..Slots : /\ calls[c].pc = "settle" /\ Head(calls[c].left) = i
                                         /\ calls[c].wait = r
                  \/ shut.pc = "settling" /\ <<i, r>> \in shut.waits}
FreeRounds(i, au) == {r \in RoundIds : au[i][r] = "none"} \ Awaited(i)
Least(T) == CHOOSE n \in T : \A m \in T : n <= m

\* What pause() and cancel() of a task do to its start() at once.
HaltPc(pc) ==
    CASE pc = "loading" -> "stopping" [] pc = "running" -> "ended" [] OTHER -> pc
Halt(ts, i, n) == [ts EXCEPT ![i][n] = HaltPc(@)]

\* createTask refuses a distributed download whose source or hosts are gone.
Uncreatable(S) == IF "create" \in Faults THEN SUBSET (S \cap Protected) ELSE {{}}

\* startItem for S, and for U without a task (nothing here waits for the save of
\* their error), and pauseQueueForSchedule for P, from a state in which the maps
\* are t, sp, au and the tasks ts.  A step that would need more tasks or
\* automatic pauses of an item than the bounds provide is not taken.
Reassign(S, U, P, t, sp, au, ts) ==
    /\ \A i \in S : FreeTasks(i, ts) # {}
    /\ \A i \in P : FreeRounds(i, au) # {}
    /\ tasks' = [i \in Items |-> IF i \in S THEN Least(FreeTasks(i, ts)) ELSE t[i]]
    /\ inst' = [i \in Items |-> [n \in TaskIds |->
                  IF i \in S /\ n = Least(FreeTasks(i, ts)) THEN "loading"
                  ELSE IF i \in P /\ n = t[i] THEN HaltPc(ts[i][n]) ELSE ts[i][n]]]
    /\ scheduledPauses' = [i \in Items |-> IF i \in P THEN Least(FreeRounds(i, au)) ELSE sp[i]]
    /\ auto' = [i \in Items |-> [r \in RoundIds |->
                  IF i \in P /\ r = Least(FreeRounds(i, au)) THEN "pausing" ELSE au[i][r]]]
    /\ status' = [i \in Items |-> IF i \in S THEN "downloading"
                                  ELSE IF i \in U THEN "error"
                                  ELSE IF i \in P THEN "paused" ELSE status[i]]

\* A pass over the queues Q, which expels P.
Pass(Q, P, t, sp, au, ts) ==
    \E S \in SUBSET Items : \E U \in Uncreatable(S) :
        Startable(S, U, Q, t) /\ Reassign(S \ U, U, P, t, sp, au, ts)

\* (mutant) processQueue without its check of isRunning.
ProcessAnyQueue(q) ==
    \/ open[q] /\ Pass({q}, {}, tasks, scheduledPauses, auto, inst)
    \/ /\ ~open[q]
       /\ UNCHANGED <<work, status>>

ProcessQueue(q) ==
    \/ running[q] /\ open[q] /\ Pass({q}, {}, tasks, scheduledPauses, auto, inst)
    \/ /\ ~(running[q] /\ open[q])
       /\ UNCHANGED <<work, status>>

\* (mutant) A pass that takes no notice of shutdown.
ProcessAlways(t, sp, au, ts) ==
    Pass({q \in Queues : running[q] /\ open[q]}, Expelled(t, sp), t, sp, au, ts)

ProcessAllQueues(t, sp, au, ts) ==
    \/ /\ shut.pc = "no"
       /\ Pass({q \in Queues : running[q] /\ open[q]}, Expelled(t, sp), t, sp, au, ts)
    \/ /\ shut.pc # "no"
       /\ tasks' = t /\ scheduledPauses' = sp /\ auto' = au /\ inst' = ts
       /\ UNCHANGED status

-----------------------------------------------------------------------------
(* Operations *)

Busy(i) ==
    \E c \in 1..Slots : calls[c] # NoCall /\ \E n \in DOMAIN calls[c].left : calls[c].left[n] = i

AtRest(i) ==
    /\ \A n \in TaskIds : inst[i][n] \in {"reporting", "ended"}
    /\ tasks[i] = 0 \/ scheduledPauses[i] # 0

IdleSlots == {c \in 1..Slots : calls[c] = NoCall}
Goto(c, call, pc) == calls' = [calls EXCEPT ![c] = [call EXCEPT !.pc = pc, !.wait = 0]]
Return(c) == calls' = [calls EXCEPT ![c] = NoCall]

\* The filter that drops an id from a queue, where it occurs at most once.
Without(s, i) ==
    IF \E n \in DOMAIN s : s[n] = i
    THEN LET k == CHOOSE n \in DOMAIN s : s[n] = i
         IN  [n \in 1..(Len(s) - 1) |-> s[IF n < k THEN n ELSE n + 1]]
    ELSE s
SetStatus(i, s) == status' = [status EXCEPT ![i] = s]

\* Wait for the automatic pause of the item, which no longer counts as scheduled.
Settle(c, call, i) ==
    /\ calls' = [calls EXCEPT ![c] = [call EXCEPT !.pc = "settle", !.wait = scheduledPauses[i]]]
    /\ scheduledPauses' = [scheduledPauses EXCEPT ![i] = 0]
    /\ UNCHANGED <<entry, status, order, tasks, inst, auto>>

\* (mutant) A pause that does nothing to an item that waits.
PauseOnlyTasks(c, call, i) ==
    /\ UNCHANGED <<entry, order, tasks, scheduledPauses, auto>>
    /\ \/ /\ tasks[i] # 0
          /\ SetStatus(i, "paused")
          /\ inst' = Halt(inst, i, tasks[i])
          /\ Goto(c, call, "halting")
       \/ /\ tasks[i] = 0
          /\ UNCHANGED <<status, inst>>
          /\ Goto(c, call, "saving")

PauseActs(c, call, i) ==
    /\ UNCHANGED <<entry, order, tasks, scheduledPauses, auto>>
    /\ \/ /\ tasks[i] # 0
          /\ SetStatus(i, "paused")
          /\ inst' = Halt(inst, i, tasks[i])
          /\ Goto(c, call, "halting")
       \/ /\ tasks[i] = 0
          /\ IF Listed(i) /\ status[i] \in {"queued", "added"} THEN SetStatus(i, "paused")
             ELSE UNCHANGED status
          /\ UNCHANGED inst
          /\ Goto(c, call, "saving")

\* (mutant) A resume that takes any item that is not completed.
ResumeAny(c, call, i) ==
    /\ UNCHANGED <<entry, order, work>>
    /\ \/ /\ Listed(i) /\ status[i] # "completed"
          /\ SetStatus(i, "queued")
          /\ Goto(c, call, "saving")
       \/ /\ ~Listed(i) \/ status[i] = "completed"
          /\ UNCHANGED status
          /\ Return(c)

\* resume and retry, which differ in the parts of the item only.
ResumeActs(c, call, i) ==
    /\ UNCHANGED <<entry, order, work>>
    /\ \/ /\ Listed(i) /\ status[i] # "completed"
          /\ ~(i \in Protected /\ status[i] = "cancelled")
          /\ SetStatus(i, "queued")
          /\ Goto(c, call, "saving")
       \/ /\ \/ ~Listed(i) \/ status[i] = "completed"
             \/ i \in Protected /\ status[i] = "cancelled"
          /\ UNCHANGED status
          /\ Return(c)

CancelActs(c, call, i) ==
    /\ UNCHANGED <<entry, order, tasks, scheduledPauses, auto>>
    /\ \/ /\ tasks[i] # 0
          /\ inst' = Halt(inst, i, tasks[i])
          /\ UNCHANGED status
          /\ Goto(c, call, "halting")
       \/ /\ tasks[i] = 0
          /\ IF Listed(i) THEN SetStatus(i, "cancelled") ELSE UNCHANGED status
          /\ UNCHANGED inst
          /\ Goto(c, call, "saving")

Unlist(c, call, i) ==
    /\ entry' = [entry EXCEPT ![i] = IF @ = "listed" THEN "gone" ELSE @]
    /\ order' = [q \in Queues |-> Without(order[q], i)]
    /\ Goto(c, call, "saving")

\* remove(), once no task is in the way: a protected item leaves a cancelled
\* record before the vault is touched, any other leaves the list.
RemoveEntry(c, call, i) ==
    \/ /\ i \in Protected /\ Listed(i)
       /\ SetStatus(i, "cancelled")
       /\ Goto(c, call, "marking")
       /\ UNCHANGED <<entry, order>>
    \/ /\ ~(i \in Protected /\ Listed(i))
       /\ Unlist(c, call, i)
       /\ UNCHANGED status

RemoveActs(c, call, i) ==
    /\ UNCHANGED <<tasks, scheduledPauses, auto>>
    /\ \/ /\ tasks[i] # 0
          /\ inst' = Halt(inst, i, tasks[i])
          /\ Goto(c, call, "halting")
          /\ UNCHANGED <<entry, status, order>>
       \/ /\ tasks[i] = 0 /\ call.op = "erase" /\ Listed(i)
          /\ Goto(c, call, "erasing")
          /\ UNCHANGED <<entry, status, order, inst>>
       \/ /\ tasks[i] = 0 /\ ~(call.op = "erase" /\ Listed(i))
          /\ RemoveEntry(c, call, i)
          /\ UNCHANGED inst

\* One turn of stopQueue's loop over the items of the queue.
StopActs(c, call, i) ==
    /\ UNCHANGED <<entry, order, tasks, scheduledPauses, auto>>
    /\ \/ /\ tasks[i] # 0
          /\ SetStatus(i, "paused")
          /\ inst' = Halt(inst, i, tasks[i])
          /\ Goto(c, call, "halting")
       \/ /\ tasks[i] = 0
          /\ UNCHANGED <<status, inst>>
          /\ Goto(c, [call EXCEPT !.left = Tail(@)], "next")

Act(c, call, i) ==
    \/ call.op = "pause" /\ PauseActs(c, call, i)
    \/ call.op = "resume" /\ ResumeActs(c, call, i)
    \/ call.op = "cancel" /\ CancelActs(c, call, i)
    \/ call.op \in {"remove", "erase"} /\ RemoveActs(c, call, i)
    \/ call.op = "stopQueue" /\ StopActs(c, call, i)

\* settleScheduledPause, then the operation.
SettleOrAct(c, call, i) ==
    \/ scheduledPauses[i] # 0 /\ Settle(c, call, i)
    \/ scheduledPauses[i] = 0 /\ Act(c, call, i)

Ask(op) ==
    /\ op \in UserOps /\ asked < MaxAsked /\ IdleSlots # {} /\ shut.pc = "no"
    /\ asked' = asked + 1

Wish(op) == CASE op = "resume" -> "run" [] op = "pause" -> "pause" [] OTHER -> "stop"

AskItem(op, i) ==
    /\ Ask(op) /\ op \in ItemOps
    /\ entry[i] # "absent" /\ (Serial => ~Busy(i) /\ (op = "resume" => AtRest(i)))
    /\ SettleOrAct(Least(IdleSlots), [NoCall EXCEPT !.op = op, !.left = <<i>>], i)
    /\ want' = [want EXCEPT ![i] = Wish(op)]
    /\ UNCHANGED <<running, open, shut, turns>>

\* addDownload, from the point where the probe has answered.
Add(op, i, q) ==
    /\ Ask(op) /\ op \in {"add", "addLater"}
    /\ entry[i] = "absent"
    /\ entry' = [entry EXCEPT ![i] = "listed"]
    /\ order' = [order EXCEPT ![q] = <<i>> \o @]
    /\ SetStatus(i, IF op = "add" THEN "queued" ELSE "added")
    /\ Goto(Least(IdleSlots), [NoCall EXCEPT !.op = op, !.q = q, !.left = <<i>>], "saving")
    /\ want' = [want EXCEPT ![i] = "run"]
    /\ UNCHANGED <<running, open, work, shut, turns>>

StartQueue(q) ==
    /\ Ask("startQueue")
    /\ running' = [running EXCEPT ![q] = TRUE]
    /\ Goto(Least(IdleSlots), [NoCall EXCEPT !.op = "startQueue", !.q = q], "saving")
    /\ UNCHANGED <<entry, status, order, open, work, shut, want, turns>>

StopQueue(q) ==
    /\ Ask("stopQueue")
    /\ Serial => \A i \in InQueue(q) : ~Busy(i)
    /\ running' = [running EXCEPT ![q] = FALSE]
    /\ Goto(Least(IdleSlots), [NoCall EXCEPT !.op = "stopQueue", !.q = q, !.left = order[q]], "next")
    /\ UNCHANGED <<entry, status, order, open, work, shut, want, turns>>

-----------------------------------------------------------------------------
(* Continuations of the operations *)

StopNext(c) ==
    /\ calls[c].pc = "next"
    /\ \/ /\ calls[c].left = <<>>
          /\ Goto(c, calls[c], "saving")
          /\ UNCHANGED <<entry, status, order, work>>
       \/ /\ calls[c].left # <<>>
          /\ SettleOrAct(c, calls[c], Head(calls[c].left))
    /\ UNCHANGED <<running, open, shut, bounds>>

Settled(c) ==
    /\ calls[c].pc = "settle"
    /\ auto[Head(calls[c].left)][calls[c].wait] = "none"
    /\ Act(c, calls[c], Head(calls[c].left))
    /\ UNCHANGED <<running, open, shut, bounds>>

\* The task's pause() or cancel() is over: it leaves the map, by item id.
Halted(c) ==
    LET call == calls[c]
        i == Head(call.left)
    IN  /\ call.pc = "halting"
        /\ tasks' = [tasks EXCEPT ![i] = 0]
        /\ \/ /\ call.op = "pause"
              /\ Goto(c, call, "saving")
              /\ UNCHANGED <<entry, status, order>>
           \/ /\ call.op = "cancel"
              /\ IF Listed(i) THEN SetStatus(i, "cancelled") ELSE UNCHANGED status
              /\ Goto(c, call, "saving")
              /\ UNCHANGED <<entry, order>>
           \/ /\ call.op \in {"remove", "erase"}
              /\ RemoveEntry(c, call, i)
           \/ /\ call.op = "stopQueue"
              /\ Goto(c, [call EXCEPT !.left = Tail(@)], "next")
              /\ UNCHANGED <<entry, status, order>>
        /\ UNCHANGED <<running, open, inst, scheduledPauses, auto, shut, bounds>>

\* cancel() of the task could not remove a file: the operation throws.
HaltFails(c) ==
    /\ "rm" \in Faults
    /\ calls[c].pc = "halting" /\ calls[c].op \in {"cancel", "remove", "erase"}
    /\ Return(c)
    /\ UNCHANGED <<entry, status, setup, work, shut, bounds>>

Erased(c) ==
    /\ calls[c].pc = "erasing"
    /\ RemoveEntry(c, calls[c], Head(calls[c].left))
    /\ UNCHANGED <<running, open, work, shut, bounds>>

EraseFails(c) ==
    /\ "rm" \in Faults /\ calls[c].pc = "erasing"
    /\ Return(c)
    /\ UNCHANGED <<entry, status, setup, work, shut, bounds>>

\* The state save of an operation is over, which is its last await unless a
\* vault entry has to go.
Saved(c) ==
    LET call == calls[c]
        secret == call.op = "cancel" /\ Head(call.left) \in Protected /\ Listed(Head(call.left))
    IN  /\ call.pc = "saving"
        /\ \/ /\ secret
              /\ Goto(c, call, "vault")
              /\ UNCHANGED <<status, work>>
           \/ /\ call.op = "addLater"
              /\ Return(c)
              /\ UNCHANGED <<status, work>>
           \/ /\ call.op = "add"
              /\ Return(c)
              /\ ProcessQueue(call.q)
           \/ /\ call.op \notin {"add", "addLater"} /\ ~secret
              /\ Return(c)
              /\ ProcessAllQueues(tasks, scheduledPauses, auto, inst)
        /\ UNCHANGED <<entry, setup, shut, bounds>>

\* (mutant) A rollback that forgets the queue.
SaveFailsInQueue(c) ==
    LET call == calls[c]
        i == Head(call.left)
    IN  /\ "save" \in Faults
        /\ call.pc \in {"saving", "marking"}
        /\ Return(c)
        /\ IF call.op \in {"add", "addLater"} THEN entry' = [entry EXCEPT ![i] = "gone"]
           ELSE UNCHANGED entry
        /\ UNCHANGED <<status, setup, work, shut, bounds>>

\* A save that fails: the operation throws; an addition is taken back.
SaveFails(c) ==
    LET call == calls[c]
        i == Head(call.left)
    IN  /\ "save" \in Faults
        /\ call.pc \in {"saving", "marking"}
        /\ Return(c)
        /\ \/ /\ call.op \in {"add", "addLater"}
              /\ entry' = [entry EXCEPT ![i] = "gone"]
              /\ order' = [order EXCEPT ![call.q] = Without(@, i)]
           \/ /\ call.op \notin {"add", "addLater"}
              /\ UNCHANGED <<entry, order>>
        /\ UNCHANGED <<status, running, open, work, shut, bounds>>

Marked(c) ==
    /\ calls[c].pc = "marking"
    /\ Goto(c, calls[c], "vault")
    /\ UNCHANGED <<entry, status, setup, work, shut, bounds>>

\* The secret is out of the vault.  cancel() goes on whether or not it is.
VaultCleared(c) ==
    LET call == calls[c]
    IN  /\ call.pc = "vault"
        /\ \/ /\ call.op = "cancel"
              /\ Return(c)
              /\ ProcessAllQueues(tasks, scheduledPauses, auto, inst)
              /\ UNCHANGED <<entry, order>>
           \/ /\ call.op # "cancel"
              /\ Unlist(c, call, Head(call.left))
              /\ UNCHANGED <<status, work>>
        /\ UNCHANGED <<running, open, shut, bounds>>

VaultFails(c) ==
    /\ "vault" \in Faults
    /\ calls[c].pc = "vault" /\ calls[c].op # "cancel"
    /\ Return(c)
    /\ UNCHANGED <<entry, status, setup, work, shut, bounds>>

-----------------------------------------------------------------------------
(* Events of the tasks *)

SetPc(i, n, pc) == inst' = [inst EXCEPT ![i][n] = pc]
OffMap(i) == tasks' = [tasks EXCEPT ![i] = 0]

\* (mutant) start() does not look at its flags after opening the file.
OpenedAnyway(i, n) ==
    /\ inst[i][n] \in {"loading", "stopping"}
    /\ SetPc(i, n, "running") /\ SetStatus(i, "downloading")
    /\ UNCHANGED <<entry, setup, tasks, scheduledPauses, auto, calls, shut, bounds>>

\* start() has opened the file, or returns because it was stopped meanwhile.
Opened(i, n) ==
    /\ \/ /\ inst[i][n] = "loading"
          /\ SetPc(i, n, "running") /\ SetStatus(i, "downloading")
       \/ /\ inst[i][n] = "stopping"
          /\ SetPc(i, n, "ended") /\ UNCHANGED status
    /\ UNCHANGED <<entry, setup, tasks, scheduledPauses, auto, calls, shut, bounds>>

\* start() rejects: its file cannot be opened, whether or not it was stopped.
OpenFails(i, n) ==
    /\ "open" \in Faults
    /\ inst[i][n] \in {"loading", "stopping"}
    /\ SetPc(i, n, "reporting") /\ SetStatus(i, "error") /\ OffMap(i)
    /\ UNCHANGED <<entry, setup, scheduledPauses, auto, calls, shut, bounds>>

\* The transfer is over: the outcome is in the item before the file is closed.
Transferred(i, n) ==
    /\ inst[i][n] = "running"
    /\ \/ SetPc(i, n, "finishing") /\ SetStatus(i, "completed")
       \/ SetPc(i, n, "failing") /\ SetStatus(i, "error")
    /\ UNCHANGED <<entry, setup, tasks, scheduledPauses, auto, calls, shut, bounds>>

\* (mutant) A handler of these events that leaves the task in the map.
EmitsOnMap(i, n) ==
    /\ inst[i][n] \in {"finishing", "failing"}
    /\ SetPc(i, n, "reporting")
    /\ UNCHANGED <<entry, status, setup, tasks, scheduledPauses, auto, calls, shut, bounds>>

\* The 'completed' or 'error' event.
Emits(i, n) ==
    /\ inst[i][n] \in {"finishing", "failing"}
    /\ SetPc(i, n, "reporting") /\ OffMap(i)
    /\ UNCHANGED <<entry, status, setup, scheduledPauses, auto, calls, shut, bounds>>

Reported(i, n) ==
    /\ inst[i][n] = "reporting"
    /\ ProcessAllQueues(tasks, scheduledPauses, auto, [inst EXCEPT ![i][n] = "ended"])
    /\ UNCHANGED <<entry, setup, calls, shut, bounds>>

ReportFails(i, n) ==
    /\ "save" \in Faults /\ inst[i][n] = "reporting"
    /\ SetPc(i, n, "ended")
    /\ UNCHANGED <<entry, status, setup, tasks, scheduledPauses, auto, calls, shut, bounds>>

-----------------------------------------------------------------------------
(* The schedule *)

\* (mutant) A handler that does not resolve when the user took the pause over.
AutoPausedIfScheduled(i, r) ==
    /\ auto[i][r] = "pausing" /\ scheduledPauses[i] = r
    /\ scheduledPauses' = [scheduledPauses EXCEPT ![i] = 0]
    /\ OffMap(i)
    /\ IF shut.pc = "no" /\ status[i] = "paused" THEN SetStatus(i, "queued")
       ELSE UNCHANGED status
    /\ auto' = [auto EXCEPT ![i][r] = "saving"]
    /\ UNCHANGED <<entry, setup, inst, calls, shut, bounds>>

\* A task's automatic pause is over.  The entries removed are those of the
\* item, whichever pause and whichever task they are by now.
AutoPaused(i, r) ==
    /\ auto[i][r] = "pausing"
    /\ \/ /\ scheduledPauses[i] = r
          /\ scheduledPauses' = [scheduledPauses EXCEPT ![i] = 0]
          /\ OffMap(i)
          /\ IF shut.pc = "no" /\ status[i] = "paused" THEN SetStatus(i, "queued")
             ELSE UNCHANGED status
          /\ auto' = [auto EXCEPT ![i][r] = "saving"]
          /\ UNCHANGED inst
       \/ /\ scheduledPauses[i] # r
          /\ ProcessAllQueues([tasks EXCEPT ![i] = 0], [scheduledPauses EXCEPT ![i] = 0],
                              [auto EXCEPT ![i][r] = "none"], inst)
    /\ UNCHANGED <<entry, setup, calls, shut, bounds>>

AutoSaved(i, r) ==
    /\ auto[i][r] = "saving"
    /\ ProcessAllQueues(tasks, scheduledPauses, [auto EXCEPT ![i][r] = "none"], inst)
    /\ UNCHANGED <<entry, setup, calls, shut, bounds>>

AutoSaveFails(i, r) ==
    /\ "save" \in Faults /\ auto[i][r] = "saving"
    /\ auto' = [auto EXCEPT ![i][r] = "none"]
    /\ UNCHANGED <<entry, status, setup, tasks, inst, scheduledPauses, calls, shut, bounds>>

\* QueueScheduleClock, every 15 seconds until shutdown.
Tick ==
    /\ ProcessAllQueues(tasks, scheduledPauses, auto, inst)
    /\ UNCHANGED <<entry, setup, calls, shut, bounds>>

\* A window opens or closes.
Turn(q) ==
    /\ q \in Scheduled /\ turns < MaxTurns
    /\ open' = [open EXCEPT ![q] = ~@] /\ turns' = turns + 1
    /\ UNCHANGED <<entry, status, order, running, work, calls, shut, want, asked>>

-----------------------------------------------------------------------------
(* shutdown() *)

NoShutdown == [pc |-> "no", waits |-> {}, halting |-> {}]

Shutdown ==
    /\ Ask("shutdown") /\ (Serial => \A c \in 1..Slots : calls[c].op # "add")
    /\ shut' = [pc |-> "settling", halting |-> {},
                waits |-> {<<i, scheduledPauses[i]>> : i \in {i \in Items : scheduledPauses[i] # 0}}]
    /\ UNCHANGED <<entry, status, setup, work, calls, want, turns>>

ShutdownPauses ==
    /\ shut.pc = "settling"
    /\ \A w \in shut.waits : auto[w[1]][w[2]] = "none"
    /\ shut' = [pc |-> "pausing", waits |-> {}, halting |-> Active(tasks)]
    /\ scheduledPauses' = [i \in Items |-> 0]
    /\ status' = [i \in Items |-> IF i \in Active(tasks) THEN "paused" ELSE status[i]]
    /\ inst' = [i \in Items |-> [n \in TaskIds |->
                   IF n = tasks[i] THEN HaltPc(inst[i][n]) ELSE inst[i][n]]]
    /\ UNCHANGED <<entry, setup, tasks, auto, calls, bounds>>

ShutdownHalted(i) ==
    /\ i \in shut.halting
    /\ OffMap(i)
    /\ shut' = [shut EXCEPT !.halting = @ \ {i}]
    /\ UNCHANGED <<entry, status, setup, inst, scheduledPauses, auto, calls, bounds>>

\* drainPendingOperations, then the last save.
ShutdownDrains ==
    /\ shut.pc = "pausing" /\ shut.halting = {}
    /\ \A i \in Items : \A n \in TaskIds : inst[i][n] # "reporting"
    /\ shut' = [shut EXCEPT !.pc = "saving"]
    /\ UNCHANGED <<entry, status, setup, work, calls, bounds>>

ShutdownDone ==
    /\ shut.pc = "saving"
    /\ shut' = [shut EXCEPT !.pc = "done"]
    /\ UNCHANGED <<entry, status, setup, work, calls, bounds>>

-----------------------------------------------------------------------------
\* A manager whose queues are all running and empty.
Init ==
    /\ entry = [i \in Items |-> "absent"]
    /\ status = [i \in Items |-> "added"]
    /\ order = [q \in Queues |-> <<>>]
    /\ running = [q \in Queues |-> TRUE]
    /\ open \in [Queues -> BOOLEAN] /\ \A q \in Queues \ Scheduled : open[q]
    /\ tasks = [i \in Items |-> 0]
    /\ inst = [i \in Items |-> [n \in TaskIds |-> "ended"]]
    /\ scheduledPauses = [i \in Items |-> 0]
    /\ auto = [i \in Items |-> [r \in RoundIds |-> "none"]]
    /\ calls = [c \in 1..Slots |-> NoCall]
    /\ shut = NoShutdown
    /\ want = [i \in Items |-> "stop"]
    /\ asked = 0 /\ turns = 0

UserStep ==
    \/ \E op \in ItemOps, i \in Items : AskItem(op, i)
    \/ \E op \in {"add", "addLater"}, i \in Items, q \in Queues : Add(op, i, q)
    \/ \E q \in Queues : StartQueue(q) \/ StopQueue(q)
    \/ Shutdown

CallStep(c) ==
    \/ StopNext(c) \/ Settled(c) \/ Halted(c) \/ HaltFails(c) \/ Erased(c) \/ EraseFails(c)
    \/ Saved(c) \/ SaveFails(c) \/ Marked(c) \/ VaultCleared(c) \/ VaultFails(c)

TaskStep(i, n) ==
    \/ Opened(i, n) \/ OpenFails(i, n) \/ Transferred(i, n) \/ Emits(i, n)
    \/ Reported(i, n) \/ ReportFails(i, n)

AutoStep(i, r) == AutoPaused(i, r) \/ AutoSaved(i, r) \/ AutoSaveFails(i, r)

ShutStep ==
    \/ ShutdownPauses \/ ShutdownDrains \/ ShutdownDone
    \/ \E i \in Items : ShutdownHalted(i)

Next ==
    \/ UserStep \/ Tick \/ ShutStep
    \/ \E q \in Queues : Turn(q)
    \/ \E c \in 1..Slots : CallStep(c)
    \/ \E i \in Items : \E n \in TaskIds : TaskStep(i, n)
    \/ \E i \in Items : \E r \in RoundIds : AutoStep(i, r)

Spec == Init /\ [][Next]_vars

\* What is awaited comes, the clock goes on, and each transfer ends.
FairSpec ==
    /\ Spec
    /\ WF_vars(Tick) /\ WF_vars(ShutStep)
    /\ \A c \in 1..Slots : WF_vars(CallStep(c))
    /\ \A i \in Items : \A n \in TaskIds : WF_vars(TaskStep(i, n))
    /\ \A i \in Items : \A r \in RoundIds : WF_vars(AutoStep(i, r))

-----------------------------------------------------------------------------
(* Properties *)

Transferring(i, n) == inst[i][n] \in {"loading", "running"}

\* The list and the queues name the same items, each of them in one place:
\* otherwise an item could be started from two queues, or from none.
ItemsPlaced ==
    /\ \A i \in Items : Listed(i) <=> \E q \in Queues : i \in InQueue(q)
    /\ \A p, q \in Queues : \A m \in DOMAIN order[p] : \A n \in DOMAIN order[q] :
          order[p][m] = order[q][n] => p = q /\ m = n

\* No pass over the queues gives out more tasks than the settings allow,
\* globally or per queue, however many operations and events are in flight.
WithinLimits ==
    /\ Cardinality(Active(tasks)) <= MaxActive
    /\ \A q \in Queues : Cardinality(Active(tasks) \cap InQueue(q)) <= Cap[q]

\* The transfers themselves, and not only those the manager still knows, are
\* within maxActiveDownloads.
TransfersWithinLimit ==
    Cardinality({x \in Items \X TaskIds : Transferring(x[1], x[2])}) <= MaxActive

\* A task that has ended gives its slot back: whenever the map holds one,
\* something is in flight that takes it out.
SlotsHeldByTransfers ==
    \A i \in Items :
        tasks[i] # 0 /\ inst[i][tasks[i]] \in {"ended", "reporting"} =>
            \/ \E c \in 1..Slots : calls[c].pc = "halting" /\ Head(calls[c].left) = i
            \/ \E r \in RoundIds : auto[i][r] = "pausing"
            \/ i \in shut.halting

\* Once the user's last word on an item was to stop it and nothing is in
\* flight on it, no task transfers it and no pass will start it.  A pause of
\* an item in a scheduled queue is left out: its window decides as well.
Stopped(i) ==
    \/ want[i] = "stop"
    \/ want[i] = "pause" /\ \A q \in Scheduled : i \notin InQueue(q)

StopHolds ==
    \A i \in Items :
        Stopped(i) /\ entry[i] # "absent" /\ ~Busy(i) =>
            /\ \A n \in TaskIds : ~Transferring(i, n)
            /\ Listed(i) => status[i] \notin {"queued", "added", "downloading"}

\* After stopQueue, and until the queue is started again, nothing in it transfers.
StoppedQueueIsIdle ==
    \A q \in Queues :
        ~running[q] /\ (\A c \in 1..Slots : ~(calls[c].op = "stopQueue" /\ calls[c].q = q)) =>
            \A i \in InQueue(q) : \A n \in TaskIds : ~Transferring(i, n)

\* The cancellation of a protected item is terminal.
CancelIsTerminal ==
    [][\A i \in Protected : status[i] = "cancelled" => status'[i] = "cancelled"]_vars

\* Once shutdown() has returned nothing is transferred.
ShutdownStopsAll ==
    shut.pc = "done" => \A i \in Items : \A n \in TaskIds : ~Transferring(i, n)

\* An item that waits in a queue that may run is started, or waits no longer, also
\* when the transfers before it fail or their files cannot be opened.
Ready(i) ==
    \E q \in Queues : /\ i \in Waiting(q) /\ running[q] /\ open[q] /\ tasks[i] = 0
                      /\ shut.pc = "no" /\ Cap[q] > 0 /\ MaxActive > 0
ReadyStarts == \A i \in Items : Ready(i) ~> ~Ready(i)

\* Every operation comes back, shutdown among them: none waits for ever for an
\* automatic pause, a task or another operation.
CallsReturn ==
    /\ \A c \in 1..Slots : calls[c] # NoCall ~> calls[c] = NoCall
    /\ shut.pc # "no" ~> shut.pc = "done"

=============================================================================
