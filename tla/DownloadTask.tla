---------------------------- MODULE DownloadTask ----------------------------
(***************************************************************************)
(* The byte transfer of one DownloadItem (download/DownloadTask.ts): the   *)
(* part layout, the concurrent ranged requests with their retries, the     *)
(* chunk loops that write each part, the parts file beside the download,   *)
(* and pause, cancel, removal, retry and restart around them.              *)
(*                                                                         *)
(* A byte is identified by its offset in the source, so the file is a      *)
(* function from its own offsets to source offsets; Hole is a byte that    *)
(* the preallocation left at zero.                                         *)
(***************************************************************************)
EXTENDS Integers, FiniteSets

CONSTANTS
    Size,           \* item.totalSize, known and positive
    MaxConns,       \* options.maxConnections
    MinPart,        \* the larger of options.minPartSize and MIN_PART_SIZE_FLOOR
    ResumeSupport,  \* item.resumeSupport: ranged parts, or one streamed part
    MaxRetries,     \* options.maxRetries
    MaxRedirects,   \* options.maxRedirects
    Limited,        \* a speed limit is set: chunk loops wait for the limiter
    ChunkMax,       \* longest chunk of one 'data' event (bound)
    MaxStarts,      \* how many times the item is started (bound)
    Faults,         \* what the network and the disk may do wrong
    UserOps         \* what the user and the system may do around a transfer

FaultKinds == {"refuse", "redirect", "abort", "reset", "short", "writeError", "noPartsFile", "lateOpen", "lateEnd"}
OpKinds == {"pause", "cancel", "remove", "retry", "crash"}

ASSUME SizeAssumption ==
    /\ Size \in Nat \ {0} /\ MaxConns \in Nat /\ MinPart \in Nat \ {0}
    /\ ResumeSupport \in BOOLEAN /\ Limited \in BOOLEAN
    /\ MaxRetries \in Nat /\ MaxRedirects \in Nat
    /\ ChunkMax \in Nat \ {0} /\ MaxStarts \in Nat
    /\ Faults \subseteq FaultKinds /\ UserOps \subseteq OpKinds

-----------------------------------------------------------------------------
(* Layout of the parts *)

AtLeastOne(n) == IF n = 0 THEN 1 ELSE n
Lesser(a, b) == IF a < b THEN a ELSE b

PartsCount ==
    IF ResumeSupport THEN Lesser(AtLeastOne(MaxConns), AtLeastOne(Size \div MinPart)) ELSE 1

Parts == 1..PartsCount
PartSize == Size \div PartsCount
From(p) == (p - 1) * PartSize
To(p) == IF p = PartsCount THEN Size - 1 ELSE From(p) + PartSize - 1

Offsets == 0..(Size - 1)
Hole == Size
EmptyFile == [o \in Offsets |-> Hole]
FreshParts == [p \in Parts |-> [cur |-> From(p), done |-> FALSE]]

-----------------------------------------------------------------------------
VARIABLES
    status,   \* item.status
    laid,     \* item.parts is not empty
    parts,    \* item.parts: per part its .current, and whether its status is "completed"
    exists,   \* the destination file is on disk
    file,     \* its content
    saved,    \* the .mdmparts.json file: absent or unreadable, or a parts array
    saving,   \* a write of that file begun by the progress timer and not landed
    kept,     \* the item as state.json holds it
    sess,     \* the DownloadTask the manager started last, and where its start() is
    halt,     \* the pause() or cancel() of that task in flight
    xfer,     \* downloadPart of each part: its current attempt
    writers,  \* chunk loops in flight, those of settled attempts included
    starts,   \* starts so far (bounded by MaxStarts)
    listed,   \* item.parts, when a parts file read late has made it another
              \* array than the one the running task advances
    late      \* per start: where the start() of a task that was stopped, and
              \* whose item was started again since, still is

item == <<status, laid, parts>>
disk == <<exists, file>>
older == <<starts, listed, late>>
vars == <<status, laid, parts, exists, file, saved, saving, kept, sess, halt, xfer, writers,
          starts, listed, late>>

Statuses == {"queued", "downloading", "paused", "completed", "error", "cancelled", "removed"}
PartState == [cur: Nat, done: BOOLEAN]
PartsArray == [Parts -> PartState]
SessPcs == {"none", "loading", "opening", "creating", "running", "closing", "removing", "failing"}
HaltPcs == {"no", "saving", "closing", "cancelClosing", "cancelRemoving"}
LatePcs ==
    {"none", "loading", "opening", "creating"} \cup
    (IF "lateEnd" \in Faults THEN {"closing", "removing", "failing"} ELSE {})
AttemptPcs == {"backoff", "request", "body", "done"}

Session == [pc: SessPcs, stopped: BOOLEAN, destroyed: BOOLEAN, handle: BOOLEAN, fatal: BOOLEAN]
Halt == [pc: HaltPcs, save: [ok: BOOLEAN, parts: PartsArray], op: {"cancel", "remove"}, del: BOOLEAN]
Attempt == [pc: AttemptPcs, retries: 0..MaxRetries, redirects: 0..MaxRedirects,
            from: Nat, src: Nat, left: Nat, bad: BOOLEAN]
\* A chunk loop: which part and attempt it serves, whether its task is the
\* current one, an earlier one that was stopped, or an earlier one that ended;
\* the source offset of its next byte and how many are left; whether it waits
\* for the limiter or for the write it issued, of how many bytes and where, and
\* whether the handle was open.
Writer == [part: Parts, retries: 0..MaxRetries, task: {"current", "stopped", "ended"},
           src: Nat, left: Nat \ {0}, pc: {"acquire", "write"},
           len: Nat, pos: Nat, hit: BOOLEAN]

TypeOK ==
    /\ status \in Statuses /\ laid \in BOOLEAN /\ parts \in PartsArray
    /\ exists \in BOOLEAN /\ file \in [Offsets -> Nat]
    /\ saved \in [ok: BOOLEAN, parts: PartsArray]
    /\ saving \in [on: BOOLEAN, parts: PartsArray]
    /\ kept \in [status: Statuses, laid: BOOLEAN, parts: PartsArray]
    /\ sess \in Session /\ halt \in Halt
    /\ xfer \in [Parts -> Attempt]
    /\ writers \subseteq Writer
    /\ starts \in 0..MaxStarts
    /\ listed \in [apart: BOOLEAN, parts: PartsArray]
    /\ late \in [0..MaxStarts -> LatePcs]

-----------------------------------------------------------------------------
(* Predicates and steps shared by the actions *)

NoSession == [pc |-> "none", stopped |-> FALSE, destroyed |-> FALSE, handle |-> FALSE, fatal |-> FALSE]
NoAttempt == [pc |-> "done", retries |-> 0, redirects |-> 0, from |-> 0, src |-> 0, left |-> 0, bad |-> FALSE]
Idle == [p \in Parts |-> NoAttempt]
NoWrite == [on |-> FALSE, parts |-> FreshParts]
NoPartsFile == [ok |-> FALSE, parts |-> FreshParts]
NoHalt == [pc |-> "no", save |-> NoPartsFile, op |-> "cancel", del |-> FALSE]
Together == [apart |-> FALSE, parts |-> FreshParts]
NoneLate == [i \in 0..MaxStarts |-> "none"]

Rest == sess.pc = "none" /\ halt.pc = "no" /\ late = NoneLate
Halted == sess.stopped \/ sess.destroyed

\* item.parts.
ItemParts == IF listed.apart THEN listed.parts ELSE parts

\* An open of the download does not overtake one that was issued before it by
\* an earlier start().
OpensInOrder == "lateOpen" \in Faults \/ \A i \in DOMAIN late : late[i] # "creating"
Transferring == sess.pc = "running" /\ ~Halted

\* (mutant) A handler that does not await its write chain.
AwaitNothing(p) == {}

\* The chunk loops whose completion the attempt's own handlers await.
Busy(p) == {w \in writers : w.part = p /\ w.task = "current" /\ w.retries = xfer[p].retries}

\* (mutant) A handle dropped while writes are pending on it.
CloseAtOnce == TRUE

\* FileHandle.close() resolves after the operations pending on the handle.
WritesLanded == \A w \in writers : ~(w.pc = "write" /\ w.hit)

\* The manager's map has no task of the item: none was started, it ended, or
\* pause or cancel took it out while its start() still reads the parts file,
\* opens the download or ends.  Of a task that was stopped while it ended the
\* pending writes are taken to have landed first.
NoTask ==
    /\ halt.pc = "no"
    /\ \/ sess.pc = "none"
       \/ Halted /\ sess.pc \in {"loading", "opening", "creating"}
       \/ Halted /\ sess.pc # "running" /\ "lateEnd" \in Faults /\ WritesLanded

\* A request for the range from part.current.
Request(p, retriesLeft, redirectsLeft) ==
    [pc |-> "request", retries |-> retriesLeft, redirects |-> redirectsLeft,
     from |-> parts[p].cur, src |-> 0, left |-> 0, bad |-> FALSE]

FirstAttempt(p) == Request(p, MaxRetries, MaxRedirects)

\* What becomes of an attempt: another one, another target, a response of n
\* bytes from source offset o, n bytes of it taken.
Retried(a) == [NoAttempt EXCEPT !.pc = "backoff", !.retries = a.retries - 1, !.redirects = a.redirects]
Redirected(a, o) == [a EXCEPT !.redirects = @ - 1, !.from = o]
Answered(a, o, n) == [a EXCEPT !.pc = "body", !.from = 0, !.src = o, !.left = n]
Taken(a, n) == [a EXCEPT !.left = @ - n, !.src = @ + n]

\* failDownload: the part fails and the message becomes the task's fatal error.
Fail(p) ==
    /\ sess' = [sess EXCEPT !.fatal = TRUE]
    /\ parts' = [parts EXCEPT ![p].done = FALSE]
    /\ xfer' = [xfer EXCEPT ![p] = NoAttempt]

\* (mutant) A retry that is not counted.
RetryUncounted(p) ==
    /\ xfer' = [xfer EXCEPT ![p].pc = "backoff"]
    /\ UNCHANGED <<sess, parts>>

\* settleAttempt, then another attempt after a delay or a failed part.
RetryOrFail(p) ==
    \/ /\ xfer[p].retries > 0
       /\ xfer' = [xfer EXCEPT ![p] = Retried(@)]
       /\ UNCHANGED <<sess, parts>>
    \/ /\ xfer[p].retries = 0
       /\ Fail(p)

\* finish(): the item is completed before the handle is closed.
BeginFinish(s) ==
    /\ status' = "completed"
    /\ sess' = [s EXCEPT !.pc = "closing", !.handle = FALSE]

-----------------------------------------------------------------------------
(* start() *)

\* The manager starts an item only while it has no task for it (startItem),
\* which does not mean that the start() of the task before has returned.
\* Older chunk loops outlive their task; whether it was stopped decides if
\* they go on past their current slice.
Start ==
    /\ NoTask /\ starts < MaxStarts
    /\ status \in {"queued", "paused", "error", "cancelled"}
    /\ status' = "downloading"
    /\ sess' = [NoSession EXCEPT !.pc = "loading"]
    /\ writers' = {[w EXCEPT !.task = IF @ # "current" THEN @ ELSE IF Halted THEN "stopped" ELSE "ended"] :
                    w \in writers}
    /\ starts' = starts + 1
    /\ late' = [late EXCEPT ![starts] = sess.pc]
    /\ UNCHANGED <<laid, parts, disk, saved, saving, kept, halt, xfer, listed>>

\* loadPersistedParts and ensurePartsLayout.  Either gives the item new part
\* objects, and a chunk loop of an older task then advances objects nobody
\* reads and has no handle: it is dropped.
LoadParts ==
    /\ sess.pc = "loading"
    /\ parts' = IF saved.ok THEN saved.parts ELSE IF laid \/ Halted THEN ItemParts ELSE FreshParts
    /\ laid' = (laid \/ saved.ok \/ ~Halted)
    /\ listed' = Together
    /\ writers' = IF saved.ok \/ (~laid /\ ~Halted) \/ listed.apart THEN {} ELSE writers
    /\ sess' = [sess EXCEPT !.pc = IF Halted THEN "none" ELSE "opening"]
    /\ UNCHANGED <<status, disk, saved, saving, kept, halt, xfer, starts, late>>

\* openFile, once the folder is there: a file that is missing will be opened
\* with the "w" flag.
LookForFile ==
    /\ sess.pc = "opening" /\ ~exists
    /\ sess' = [sess EXCEPT !.pc = "creating"]
    /\ UNCHANGED <<item, disk, saved, saving, kept, halt, xfer, writers, older>>

\* (mutant) openFile with the "w" flag whether or not the file exists.
Truncated == EmptyFile

\* openFile keeps the file it found, and empties and preallocates the one it
\* did not find, also if there is one by now.
Opened == IF sess.pc = "creating" THEN EmptyFile ELSE file

\* The end of openFile, the second check of the flags, and the first attempt of every
\* part that is not completed; with none pending, straight to finish().
OpenFile ==
    /\ (sess.pc = "opening" /\ exists) \/ sess.pc = "creating"
    /\ OpensInOrder
    /\ exists' = TRUE
    /\ file' = Opened
    /\ \/ /\ Halted
          /\ sess' = [sess EXCEPT !.pc = "none"]
          /\ UNCHANGED <<status, xfer>>
       \/ /\ ~Halted
          /\ \E p \in Parts : ~parts[p].done
          /\ status' = "downloading"
          /\ sess' = [sess EXCEPT !.pc = "running", !.handle = TRUE]
          /\ xfer' = [p \in Parts |-> IF parts[p].done THEN NoAttempt ELSE FirstAttempt(p)]
       \/ /\ ~Halted
          /\ \A p \in Parts : parts[p].done
          /\ BeginFinish(sess)
          /\ UNCHANGED xfer
    /\ UNCHANGED <<laid, parts, saved, saving, kept, halt, writers, older>>

\* Promise.all over the parts has resolved.
Join ==
    /\ Transferring
    /\ \A p \in Parts : xfer[p].pc = "done"
    /\ \/ /\ sess.fatal
          /\ status' = "error"
          /\ sess' = [sess EXCEPT !.pc = "failing", !.handle = FALSE]
       \/ /\ ~sess.fatal
          /\ BeginFinish(sess)
    /\ UNCHANGED <<laid, parts, disk, saved, saving, kept, halt, xfer, writers, older>>

\* closeFileHandle of finish() or of the error path, which then emits "error".
CloseFile ==
    /\ sess.pc \in {"closing", "failing"} /\ WritesLanded
    /\ sess' = [sess EXCEPT !.pc = IF @ = "closing" THEN "removing" ELSE "none"]
    /\ UNCHANGED <<item, disk, saved, saving, kept, halt, xfer, writers, older>>

\* finish() removes the parts file and emits "completed".
RemovePartsFile ==
    /\ sess.pc = "removing"
    /\ saved' = NoPartsFile
    /\ sess' = [sess EXCEPT !.pc = "none"]
    /\ UNCHANGED <<item, disk, saving, kept, halt, xfer, writers, older>>

\* What an earlier start() still does before it sees that it was stopped.  Its
\* loadPersistedParts gives the item another array: a task that transfers keeps
\* the objects it began with.
LateLoad(i) ==
    /\ late[i] = "loading"
    /\ late' = [late EXCEPT ![i] = "none"]
    /\ \/ /\ ~saved.ok
          /\ UNCHANGED <<laid, parts, writers, listed>>
       \/ /\ saved.ok /\ sess.pc \in {"running", "closing", "failing"}
          /\ listed' = [apart |-> TRUE, parts |-> saved.parts]
          /\ UNCHANGED <<laid, parts, writers>>
       \/ /\ saved.ok /\ sess.pc \notin {"running", "closing", "failing"}
          /\ laid' = TRUE /\ parts' = saved.parts
          /\ listed' = Together /\ writers' = {}
    /\ UNCHANGED <<status, disk, saved, saving, kept, sess, halt, xfer, starts>>

\* Its openFile looks for the file, as it is now, and opens it.
LateLook(i) ==
    /\ late[i] = "opening"
    /\ late' = [late EXCEPT ![i] = IF exists THEN "none" ELSE "creating"]
    /\ UNCHANGED <<item, disk, saved, saving, kept, sess, halt, xfer, writers, starts, listed>>

LateCreate(i) ==
    /\ late[i] = "creating"
    /\ late' = [late EXCEPT ![i] = "none"]
    /\ exists' = TRUE /\ file' = EmptyFile
    /\ UNCHANGED <<item, saved, saving, kept, sess, halt, xfer, writers, starts, listed>>

\* Its finish() removes the parts file, which is the new task's by now.  What the
\* events "completed" and "error" of such a task do to the manager's map is not
\* modelled.
LateEnd(i) ==
    /\ late[i] \in {"closing", "removing", "failing"}
    /\ late' = [late EXCEPT ![i] = "none"]
    /\ saved' = IF late[i] = "failing" THEN saved ELSE NoPartsFile
    /\ UNCHANGED <<item, disk, saving, kept, sess, halt, xfer, writers, starts, listed>>

-----------------------------------------------------------------------------
(* The requests of one part *)

\* The retry timer fires: a new request for the range from part.current.
Attempt_(p) ==
    /\ Transferring /\ xfer[p].pc = "backoff"
    /\ xfer' = [xfer EXCEPT ![p] = Request(p, xfer[p].retries, xfer[p].redirects)]
    /\ UNCHANGED <<item, disk, saved, saving, kept, sess, halt, writers, older>>

\* A response is checked against part.current as it is when the response
\* arrives, and the range it carries may end before the range asked for.
RangeMatches(p) == ~ResumeSupport \/ (xfer[p].from = parts[p].cur /\ parts[p].cur <= To(p))

BodyLengths(p) ==
    LET full == IF ResumeSupport THEN To(p) + 1 - parts[p].cur ELSE Size
    IN  IF "short" \in Faults THEN 1..full ELSE {full}

Respond(p) ==
    /\ Transferring /\ xfer[p].pc = "request" /\ RangeMatches(p)
    /\ \E n \in BodyLengths(p) :
          xfer' = [xfer EXCEPT ![p] = Answered(@, IF ResumeSupport THEN parts[p].cur ELSE 0, n)]
    /\ UNCHANGED <<item, disk, saved, saving, kept, sess, halt, writers, older>>

\* An unusable status or Content-Range, or a request that fails or times out
\* before its response.
RequestFails(p) ==
    /\ Transferring /\ xfer[p].pc = "request"
    /\ "refuse" \in Faults \/ ~RangeMatches(p)
    /\ RetryOrFail(p)
    /\ UNCHANGED <<status, laid, disk, saved, saving, kept, halt, writers, older>>

Redirect(p) ==
    /\ Transferring /\ xfer[p].pc = "request" /\ "redirect" \in Faults
    /\ \/ /\ xfer[p].redirects > 0
          /\ xfer' = [xfer EXCEPT ![p] = Redirected(@, parts[p].cur)]
          /\ UNCHANGED <<sess, parts>>
       \/ /\ xfer[p].redirects = 0
          /\ Fail(p)
    /\ UNCHANGED <<status, laid, disk, saved, saving, kept, halt, writers, older>>

\* The chunk loop of n bytes from source offset o, waiting for the limiter.
Loop(p, retriesLeft, task, o, n) ==
    [part |-> p, retries |-> retriesLeft, task |-> task, src |-> o, left |-> n,
     pc |-> "acquire", len |-> 0, pos |-> 0, hit |-> FALSE]

\* A chunk loop that issues the write of k bytes at part.current, which
\* happens only if its task still has a handle.
Writing(w, k) ==
    [w EXCEPT !.pc = "write", !.len = k, !.pos = parts[w.part].cur,
              !.hit = (w.task = "current" /\ sess.handle)]

\* A 'data' event: the response is paused until its chunk loop is done.
\* Without a limit acquire() resolves at once, and the chunk is one write.
Data(p) ==
    /\ Transferring /\ xfer[p].pc = "body" /\ Busy(p) = {}
    /\ \E n \in 1..Lesser(ChunkMax, xfer[p].left) :
          /\ xfer' = [xfer EXCEPT ![p] = Taken(@, n)]
          /\ LET loop == Loop(p, xfer[p].retries, "current", xfer[p].src, n)
             IN  writers' = writers \cup {IF Limited THEN loop ELSE Writing(loop, n)}
    /\ UNCHANGED <<item, disk, saved, saving, kept, sess, halt, older>>

\* The 'end' event, after the write chain: a range that ended early is asked
\* for again while retries are left, and is completed otherwise.
End(p) ==
    /\ Transferring /\ xfer[p].pc = "body" /\ xfer[p].left = 0 /\ Busy(p) = {}
    /\ \/ /\ xfer[p].bad
          /\ RetryOrFail(p)
       \/ /\ ~xfer[p].bad /\ parts[p].cur <= To(p) /\ xfer[p].retries > 0
          /\ RetryOrFail(p)
       \/ /\ ~xfer[p].bad /\ ~(parts[p].cur <= To(p) /\ xfer[p].retries > 0)
          /\ parts' = [parts EXCEPT ![p].done = TRUE]
          /\ xfer' = [xfer EXCEPT ![p] = NoAttempt]
          /\ UNCHANGED sess
    /\ UNCHANGED <<status, laid, disk, saved, saving, kept, halt, writers, older>>

\* The response's 'error' event (a connection closed early, or more bytes than
\* its Content-Range): settled only after the write chain.
ResponseFails(p) ==
    /\ Transferring /\ xfer[p].pc = "body" /\ "abort" \in Faults /\ Busy(p) = {}
    /\ RetryOrFail(p)
    /\ UNCHANGED <<status, laid, disk, saved, saving, kept, halt, writers, older>>

\* The request's 'error' event during the body: the peer resets the connection,
\* or the idle or the request timeout destroys it.  Settled at once; the chunk
\* loop goes on.
RequestErrors(p) ==
    /\ Transferring /\ xfer[p].pc = "body" /\ "reset" \in Faults
    /\ RetryOrFail(p)
    /\ UNCHANGED <<status, laid, disk, saved, saving, kept, halt, writers, older>>

-----------------------------------------------------------------------------
(* The chunk loop *)

\* The limiter grants a slice; the flags are not looked at again before the
\* write.
Grant(w) ==
    /\ w \in writers /\ w.pc = "acquire"
    /\ \E k \in 1..w.left : writers' = (writers \ {w}) \cup {Writing(w, k)}
    /\ UNCHANGED <<item, disk, saved, saving, kept, sess, halt, xfer, older>>

\* Whether the loop's own task has been stopped.
StoppedFor(w) == IF w.task = "current" THEN Halted ELSE w.task = "stopped"

\* The rest of the chunk waits for the limiter.
NextSlice(w) == Loop(w.part, w.retries, w.task, w.src + w.len, w.left - w.len)

\* The write resolves: part.current advances whether or not there was a
\* handle, and the loop looks at the flags before its next slice.
Land(w) ==
    /\ w \in writers /\ w.pc = "write"
    /\ file' = [o \in Offsets |-> IF w.hit /\ o \in w.pos..(w.pos + w.len - 1)
                                  THEN w.src + (o - w.pos) ELSE file[o]]
    /\ parts' = [parts EXCEPT ![w.part].cur = @ + w.len]
    /\ writers' = (writers \ {w}) \cup
         (IF w.left = w.len \/ StoppedFor(w) THEN {}
          ELSE {NextSlice(w)})
    /\ UNCHANGED <<status, laid, exists, saved, saving, kept, sess, halt, xfer, older>>

\* The write fails: the rest of the chunk is dropped, the response is resumed
\* and its later chunks are still written.
WriteFails(w) ==
    /\ w \in writers /\ w.pc = "write" /\ w.hit /\ "writeError" \in Faults
    /\ writers' = writers \ {w}
    /\ xfer' = [p \in Parts |->
                  IF p = w.part /\ w.retries = xfer[p].retries /\ xfer[p].pc = "body"
                  THEN [xfer[p] EXCEPT !.bad = TRUE] ELSE xfer[p]]
    /\ UNCHANGED <<item, disk, saved, saving, kept, sess, halt, older>>

-----------------------------------------------------------------------------
(* The parts file, pause, cancel *)

\* (mutant) Progress that counts the bytes of writes still in flight.
TimerTickEager ==
    /\ Transferring /\ ~saving.on
    /\ saving' = [on |-> TRUE, parts |->
          [p \in Parts |-> [parts[p] EXCEPT !.cur = IF Busy(p) # {} THEN xfer[p].src ELSE @]]]
    /\ UNCHANGED <<item, disk, saved, kept, sess, halt, xfer, writers, older>>

\* The progress timer writes the parts file and does not wait for the write.
TimerTick ==
    /\ Transferring /\ ~saving.on
    /\ saving' = [on |-> TRUE, parts |-> ItemParts]
    /\ UNCHANGED <<item, disk, saved, kept, sess, halt, xfer, writers, older>>

SaveLands ==
    /\ saving.on
    /\ saving' = NoWrite
    /\ saved' \in {[ok |-> TRUE, parts |-> saving.parts]} \cup
                  (IF "noPartsFile" \in Faults THEN {saved, NoPartsFile} ELSE {})
    /\ UNCHANGED <<item, disk, kept, sess, halt, xfer, writers, older>>

\* pause(): everything up to its first await.  Destroyed requests and retry
\* timers resolve their part without another effect.
Pause ==
    /\ "pause" \in UserOps /\ sess.pc # "none" /\ halt.pc = "no" /\ ~Halted
    /\ sess' = [sess EXCEPT !.stopped = TRUE]
    /\ xfer' = Idle
    /\ status' = "paused"
    /\ halt' = [pc |-> "saving", save |-> [ok |-> laid, parts |-> ItemParts], op |-> "cancel", del |-> FALSE]
    /\ UNCHANGED <<laid, parts, disk, saved, saving, kept, writers, older>>

\* persistParts (best effort), after which the handle is given up.
PauseSaves ==
    /\ halt.pc = "saving"
    /\ saved' \in {halt.save} \cup
                  (IF "noPartsFile" \in Faults THEN {saved, NoPartsFile} ELSE {})
    /\ halt' = [halt EXCEPT !.pc = "closing"]
    /\ sess' = [sess EXCEPT !.handle = FALSE]
    /\ UNCHANGED <<item, disk, saving, kept, xfer, writers, older>>

\* closeFileHandle of pause() or cancel() closes nothing that the task's end
\* has begun to close.
HandleClosed == sess.pc = "running" => WritesLanded

\* The task is over once its start() has nothing left to do.
Released == [sess EXCEPT !.pc = IF @ = "running" THEN "none" ELSE @]

PauseDone ==
    /\ halt.pc = "closing" /\ HandleClosed
    /\ halt' = NoHalt
    /\ sess' = Released
    /\ UNCHANGED <<item, disk, saved, saving, kept, xfer, writers, older>>

\* DownloadManager.cancel calls cancel(false); remove calls cancel(deleteFile).
Cancel ==
    /\ sess.pc # "none" /\ halt.pc = "no" /\ ~Halted
    /\ \E op \in {"cancel", "remove"} \cap UserOps : \E del \in BOOLEAN :
          /\ op = "cancel" => ~del
          /\ halt' = [pc |-> "cancelClosing", save |-> NoPartsFile, op |-> op, del |-> del]
    /\ sess' = [sess EXCEPT !.destroyed = TRUE, !.handle = FALSE]
    /\ xfer' = Idle
    /\ UNCHANGED <<item, disk, saved, saving, kept, writers, older>>

CancelRemovesParts ==
    /\ halt.pc = "cancelClosing" /\ HandleClosed
    /\ saved' = NoPartsFile
    /\ halt' = [halt EXCEPT !.pc = "cancelRemoving"]
    /\ UNCHANGED <<item, disk, saving, kept, sess, xfer, writers, older>>

CancelDone ==
    /\ halt.pc = "cancelRemoving"
    /\ exists' = (exists /\ ~halt.del)
    /\ file' = IF halt.del THEN EmptyFile ELSE file
    /\ status' = IF halt.op = "cancel" THEN "cancelled" ELSE "removed"
    /\ halt' = NoHalt
    /\ sess' = Released
    /\ UNCHANGED <<laid, parts, saved, saving, kept, xfer, writers, older>>

-----------------------------------------------------------------------------
(* What the manager and the system do around a transfer *)

\* DownloadManager.retry: the in-memory parts are cleared, then resume().
Retry ==
    /\ "retry" \in UserOps /\ NoTask /\ status \notin {"completed", "removed", "queued"}
    /\ laid' = FALSE /\ parts' = FreshParts /\ listed' = Together /\ writers' = {}
    /\ status' = "queued"
    /\ UNCHANGED <<disk, saved, saving, kept, sess, halt, xfer, starts, late>>

\* DownloadManager.remove without a task: of the two files, the download only.
RemoveIdle ==
    /\ "remove" \in UserOps /\ NoTask /\ status # "removed"
    /\ \E del \in BOOLEAN :
          /\ exists' = (exists /\ ~del)
          /\ file' = IF del THEN EmptyFile ELSE file
    /\ status' = "removed"
    /\ UNCHANGED <<laid, parts, saved, saving, kept, sess, halt, xfer, writers, older>>

\* The same download is added again; resolveNameCollision gives it the same
\* path when no file is there.  The new item is another object: a parts file
\* still being read for the old one is not read into it.
AddAgain ==
    /\ status = "removed" /\ NoTask /\ ~exists
    /\ sess.pc # "loading" /\ \A i \in DOMAIN late : late[i] # "loading"
    /\ status' = "queued"
    /\ laid' = FALSE /\ parts' = FreshParts /\ listed' = Together /\ writers' = {}
    /\ UNCHANGED <<disk, saved, saving, kept, sess, halt, xfer, starts, late>>

\* Any operation on any item saves every item (saveState).
SaveState ==
    /\ "crash" \in UserOps
    /\ kept' = [status |-> status, laid |-> laid, parts |-> ItemParts]
    /\ UNCHANGED <<item, disk, saved, saving, sess, halt, xfer, writers, older>>

\* The process dies and is started again: memory comes from state.json, where
\* StateStore.load turns an active item into a paused one, and a parts file
\* that was being written is the old one, the new one, or unreadable.
Crash ==
    /\ "crash" \in UserOps
    /\ status' = IF kept.status \in {"downloading", "queued"} THEN "paused" ELSE kept.status
    /\ laid' = kept.laid /\ parts' = kept.parts
    /\ saved' \in {saved}
         \cup (IF saving.on THEN {NoPartsFile, [ok |-> TRUE, parts |-> saving.parts]} ELSE {})
         \cup (IF halt.pc = "saving" THEN {NoPartsFile, halt.save} ELSE {})
    /\ saving' = NoWrite /\ sess' = NoSession /\ halt' = NoHalt
    /\ xfer' = Idle /\ writers' = {} /\ listed' = Together /\ late' = NoneLate
    /\ UNCHANGED <<disk, kept, starts>>

-----------------------------------------------------------------------------
Init ==
    /\ status = "queued" /\ laid = FALSE /\ parts = FreshParts
    /\ exists = FALSE /\ file = EmptyFile
    /\ saved = NoPartsFile /\ saving = NoWrite
    /\ kept = [status |-> "queued", laid |-> FALSE, parts |-> FreshParts]
    /\ sess = NoSession /\ halt = NoHalt
    /\ xfer = Idle /\ writers = {}
    /\ starts = 0 /\ listed = Together /\ late = NoneLate

PartStep(p) ==
    \/ Attempt_(p) \/ Respond(p) \/ RequestFails(p) \/ Redirect(p)
    \/ Data(p) \/ End(p) \/ ResponseFails(p) \/ RequestErrors(p)

\* What the task and the event loop do without being asked.
TaskStep ==
    \/ LoadParts \/ LookForFile \/ OpenFile \/ Join \/ CloseFile \/ RemovePartsFile
    \/ PauseSaves \/ PauseDone \/ CancelRemovesParts \/ CancelDone
    \/ \E p \in Parts : PartStep(p)
    \/ \E w \in writers : Grant(w) \/ Land(w) \/ WriteFails(w)
    \/ \E i \in DOMAIN late : LateLoad(i) \/ LateLook(i) \/ LateCreate(i) \/ LateEnd(i)

Next ==
    \/ TaskStep
    \/ Start \/ TimerTick \/ SaveLands
    \/ Pause \/ Cancel \/ Retry \/ RemoveIdle \/ AddAgain \/ SaveState \/ Crash

Spec == Init /\ [][Next]_vars
FairSpec == Spec /\ WF_vars(TaskStep)

-----------------------------------------------------------------------------
(* Properties *)

\* A download reported as completed has every byte of its source in place:
\* retries, pauses, resumed progress and restarts lost and misplaced none.
CompletedFileIsExact ==
    status = "completed" => \A o \in Offsets : file[o] = o

\* Whatever the file holds at an offset is the source's byte at that offset:
\* no attempt, resumed or superseded, ever writes a byte somewhere else.
BytesAtOwnOffset ==
    \A o \in Offsets : file[o] \in {o, Hole}

\* The parts file never claims a byte that is not in the download: a resumed
\* or restarted transfer skips only what is there.
SavedProgressIsWritten ==
    saved.ok => \A p \in Parts : \A o \in From(p)..(saved.parts[p].cur - 1) :
                    o \in Offsets => file[o] = o

\* Once pause, cancel, an error or completion has been reported, nothing is
\* written to the download any more, although chunk loops may be alive; only
\* its removal changes it.
QuietAtRest ==
    [][file' # file => ~Rest \/ ~exists']_vars

\* Every transfer ends by itself, whatever the network refuses or breaks:
\* retries are bounded, every wait is answered, and pause and cancel return.
TransferSettles ==
    ~Rest ~> Rest

=============================================================================
