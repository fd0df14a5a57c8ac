# Material download manager: specifications

TLA+ models of the download engine of this repository (a Windows desktop
download manager written for Electron, `design/electron`, with a browser
extension, `extension`, and an optional remote worker, `worker`), the instances
on which TLC checks them, and proofs that TLAPS checks for every value of their
constants. Paths below are relative to `src/`.

## The system

The main process is one JavaScript thread. What makes it hard is not
parallelism but *interleaving*: every `await` lets other operations, task
events, timers and network callbacks run, and most of the state they share (an
item, its parts, the map of tasks) is read before an await and used after it.

| Component | State | Operations | Talks to |
| --- | --- | --- | --- |
| `DownloadTask` (`download/DownloadTask.ts`) | part layout and progress of one item, requests and retry timers per part, chunk loops, file handle, parts file `*.mdmparts.json` | `start`, `pause`, `cancel`; per part: request, redirect, response, data, end, error, timeout, retry; progress timer | item objects shared with the manager; events `paused`, `completed`, `error`; `SpeedLimiter.acquire` |
| `DownloadManager` (`download/DownloadManager.ts`) | items and their order, queues (`itemIds`, `isRunning`), map of active tasks, scheduled pauses, operations pending at shutdown | add, pause, resume, retry, cancel, remove, startQueue, stopQueue, update/create/deleteQueue, settings, restoreHistoryRevision, handoff add/rollback, init, shutdown | tasks (calls and events), `StateStore`, `CredentialVault`, `HistoryStore`, `QueueScheduleClock` |
| `StateStore` (`download/persistence.ts`) | `state.json`, its temporary files, one chain of saves per path | `load`, `save` | manager, which awaits every save |
| `SpeedLimiter`, `queueSchedule` | tokens of a bucket; weekly windows | `acquire`; `isQueueScheduleActive`, the 15 s clock | task; manager |
| `CredentialVault` (`download/distributed/CredentialVault.ts`) | encrypted entries keyed by item | put, get, delete | manager (protected sources), distributed task |
| `HandoffServer` (`extension/HandoffServer.ts`) and the service worker (`extension/src/service-worker.js`) | challenges, pending handoffs and their tombstones; journal of claims | offer, approve, reject, rollback, poll; capture, recover, compensate | loopback HTTP; Chrome downloads; manager |
| `DistributedDownloadTask` (`download/distributed/`) | manifest on disk, files and partial files of the pieces, work list, quarantined hosts, the file itself | start, pause, cancel; per host: connect, fetch, keep a piece | SSH workers (one frame session per piece), manager |
| `HistoryStore`, `ChangelogStore` (`history/`) | Git repository with a state file and sidecars for labels, retention and display name; chain of writes | append, discard, restore, undo, label, prune, list, diff | manager, renderer |
| `UpdateService` (`updater/`) | published state, leases on a check and a download, timers | start, check, scheduled check, events of Squirrel, stop | Electron's `autoUpdater`, release feed |
| `SshProvisioningService` (`download/distributed/`) with `worker/provision.py` | on the host: directories of the worker and of the one it replaces, state files, journal, container, relay key; in the program: the pinned host key | provision (apply, verify, finalize, roll back), remove | SSH, docker |
| worker (`worker/`) | frame sessions, bounded downloads | open, fetch, close | distributed task |
| converter, Ollama suite, editors, logo, vocabulary, authenticator, regex | one file or worker each | CRUD, one job at a time | renderer |
| renderer, preload, main | windows and IPC | asks for the operations above, several at once | manager |

What makes each part correct:

- *task*: a completed download is byte for byte its source; no byte lands at
  another byte's offset; the parts file never runs ahead of the disk; a part is
  complete only in full (the code gives this up after the last retry); after an
  outcome is reported the file is left alone; every start ends by itself.
- *manager*: the two concurrency limits hold; a slot is held only by a
  transfer; a user's stop holds; an item is in one place; a cancelled protected
  item never runs again; shutdown stops everything; a waiting item is started;
  every call returns.
- *state store*: what is loaded is a state that was saved, and the last one
  whose save was reported or a later one.
- *protected sources*: nothing is resumed whose secret is gone, and no secret
  outlives what would remove it.
- *handoff*: a browser download ends up in exactly one of the two programs.
- *distributed task*: the ranges partition the source; the manifest is true of
  the files; what was verified is not fetched again; a file in its place is not
  reported as failed; a run ends.
- *history*: the files are what was committed; each change of state, label or
  retention is one revision and changes nothing else; every call returns.
- *updater*: what is offered for restart is what was verified and staged; a busy
  updater does not stay busy; nothing starts after `stop()`.
- *provisioning*: a reported success is one; a worker that was there is there,
  or can be brought back, wherever the script dies.

`PROJECT.json` lists every component, with what is left out and why, and the
hazards with the line where each bites.

## Modules

| Module | What it is |
| --- | --- |
| `DownloadTask` | the transfer of one item |
| `DownloadTaskProofs` | type correctness for all constants; exactness of the *plain* transfer; every byte of a ranged one at its own offset; quiet at rest |
| `DownloadManager` | the scheduler of many items |
| `DownloadManagerProofs` | type correctness, placement of items, the two limits and the slots whatever overlaps; transfers, stops, cancellation and shutdown for users that wait |
| `BrowserHandoff` | a Chrome download handed to the desktop: service worker, desktop server, Chrome |
| `BrowserHandoffProofs` | type correctness, ownership of paused downloads, no lost and no second copy, one copy of what is noted |
| `DurableState` | what saving promises: a register that survives crashes (abstract) |
| `StateStore` | `state.json`: the chain of saves, temporary files, renames, deaths, loading |
| `ProtectedSources` | `StateStore` composed with the vault and the manager's operations on protected items |
| `ProtectedSourcesProofs` | `StateStore` alone and the composition implement `DurableState`; secrets and records agree |
| `DistributedDownload` | a download spread over SSH workers: plan, manifest, rounds, assembly |
| `DistributedDownloadProofs` | the plan partitions; manifest, progress and the installed file |
| `Provisioning` | the worker on a host: `provision.py` and its journal, the desktop's side |
| `ProvisioningProofs` | type correctness; the key, the journal, the survival of a worker, what success means |
| `UpdateService` | the updater and Squirrel's events |
| `UpdateServiceProofs` | after `stop()`; what is offered is staged |
| `AuditJournal` | what the history promises: a journal that only grows (abstract) |
| `HistoryStore` | the Git repository: opening, sidecars, chain of writes, commit and undo |
| `HistoryStoreProofs` | files and commits agree; for users that wait, `HistoryStore` implements `AuditJournal` |
| `MC...` | for each, values of the constants for TLC |

The manager sees a task as a state machine of seven phases
(`loading, stopping, running, finishing, failing, reporting, ended`), each a
stretch of `start()` between two awaits; `DownloadTask` models what happens
inside `running` and around it, for one item, with the manager's operations on
that item reduced to their effect on the transfer. That the task settles
(`TransferSettles`) is what the fairness of `TaskStep` in `DownloadManager`
assumes. `DownloadManager` sees a save as a step that succeeds or fails;
`StateStore` opens it up, and `ProtectedSources` follows the manager's
operations on one protected item through the saves and the vault.

### DownloadTask

A byte is its offset in the source, so the destination is a function from
offsets to source offsets, with `Hole` for a byte still zero after
preallocation. Parts, their `current` and `completed` status are `parts`
(`laid` says whether `item.parts` is non-empty); `saved` is the parts file and
`saving` a write of it by the progress timer that has not landed; `kept` is the
item in `state.json`. `sess` is the task the manager started last, with the
place of its `start()` and its flags `stopped`, `destroyed`; `halt` is a
`pause()` or `cancel()` between its awaits; `xfer` is the current attempt of
each part (its retries left identify it); `writers` are chunk loops, and these
may outlive attempt and task, as the promises of the code do. `AddAgain` and
`RemoveIdle` are the manager's part in what happens to files.

`startItem` looks only at the map of tasks, which `pause` and `cancel` have
emptied while the `start()` of the task before may still be on its way. `late[i]`
is what the `i`-th `start()` has left to do once it was overtaken: it reads the
parts file and gives the item another array of parts (`LateLoad`; `listed` are
the item's parts while the running task keeps those it began with), looks for the
file and creates it empty (`LateLook`, `LateCreate`), or ends and removes the
parts file (`LateEnd`). `Start` needs only that the map has no task of the item
(`NoTask`).

Network and disk are nondeterministic over `Faults`: refused requests,
redirects, bodies that break off (`abort`, the response's error, which waits for
its writes), connections that are reset or time out (`reset`, the request's error,
which does not: line 327), ranges that end early, failed writes, a parts file that
cannot be written; and two orders of the file system's answers, an `open()` that
a later start's `open()` overtakes (`lateOpen`) and an earlier start that ends
after a later one has begun (`lateEnd`). Timers fire at any time. A dropped
chunk loop (`LoadParts`, `Retry`) is one that only advances objects nobody
holds any more and that has no handle.

Idealised: chunk contents, headers other than those that decide a branch,
progress and speed figures; the in-memory parts file after `removePartsFile`
fails; an item whose size is unknown. Not modelled: writes of an overtaken task
that are still pending when the later one starts (they count as landed), and the
event of an overtaken task that completes or fails, which takes the later task
out of the manager's map (`DownloadManager.ts:747`, `762`).

### DownloadManager

Whatever the code runs between two awaits is one action. An operation in
flight is a slot of `calls` with its place (`settle`, `next`, `halting`,
`erasing`, `saving`, `marking`, `vault`), so any number of operations on the
same or other items interleave with task events, automatic pauses, clock ticks
and shutdown. `tasks[i]` is the map entry, a number among the item's tasks
`inst[i]`: a task removed from the map by one operation while another still
stops it is visible, which is where the code deletes by item id alone.
`FirstWaiting`, `FreeSlots` and `Startable` are `processQueue`'s loop over its
waiting items in closed form; `Reassign` is `startItem` and
`pauseQueueForSchedule` for the sets it yields. A distributed item whose task
cannot be created (fault `create`: a host that is gone or no longer trusted)
becomes an error instead, and its slot stays free for the next (`Uncreatable`,
`Pass`). `want` is history: the user's
last word on each item.

Over-approximated: nothing is assumed of the order in which promises resolve,
also where the microtask queue would fix it. Under-approximated: `StopQueue`
iterates over the ids captured when its loop began, as the code's `for...of`
over `itemIds` does unless the array is replaced meanwhile.

### BrowserHandoff

Two programs that may each stop at any moment share a download through loopback
requests that may fail; Chrome itself is external, modelled from how the worker
calls `chrome.downloads` (pause, resume, cancel, search) and listens to it. A
download is captured once, so one handoff is a function of the download.

- *Worker.* `worker[d]` is the coroutine that holds `d` in
  `automaticDownloadsInFlight`, by the await it is at: `claiming`, `pausing`,
  `marking`, `sending`, `posted`, `noting` are `captureAutomaticDownload`;
  `looking`, `asking`, `cancelling`, `undoing`, `waiting`, `dropping` are
  `pollPendingBrowserHandoff` with `finishAcceptedDownload` and
  `rollbackAcceptedBrowserHandoff`; `resuming`, `clearing` are
  `resumeOwnedDownload`. `claim[d]` is the phase of its journal entry in
  `chrome.storage.local`, the only state that survives `Death`. `sweep` is the
  copy of the journal that `recoverAutomaticDownloads` read when it began; its
  loop up to the next await is one step, and its decisions are those of the
  copy, not of the journal as it has become.
- *Desktop.* `rec[d]` is the record of `pendingHandoffs`, `op[d]` the approval
  or rollback in its `resolving`, `post[d]` the offer whose window is being
  opened, `window` the windows on the screen. `State` is the record after
  `prunePendingHandoffs`, which the code runs before it looks at any. `transfer`
  is the item in the manager; `Restart` loses every record and no item. `live`
  is an item on the list, running or not (it comes back paused).
- `late` holds the downloads whose `expiresAt` has passed. `told` and `trouble`
  are not program state: the most the worker knew, and the faults so far.

A resumption that fails is tried again by another poll after a rollback, and by
the next recovery otherwise; once there was an approval the model allows either
(`ResumeFails`). `addBrowserHandoff` swallows the failure of a removal after a
failing start (`DownloadManager.ts:669`, `676`): fault `stranded`, which leaves a
transfer that no record names.

Not modelled: challenges and proofs (a failed one is an unreachable desktop);
an entry whose fingerprint no longer matches Chrome's download; a user who
pauses a download in Chrome while it is being captured; a Chrome restart that
interrupts its downloads; recoveries that overlap; a history entry that cannot
be written. The expiry of a window closes nothing that another step reads. The
phase `accepted`, for which the recovery has a branch, is never written.

### DurableState, StateStore, ProtectedSources

`DurableState` is what the manager assumes when it awaits a save: saves take
place one by one in the order they were asked for, each whole or not at all, and
an answer comes after the fact. `StateStore` has what `persistence.ts` does:
`save` captures the state, waits for `tail`, the entry of `saveChains`
(`previous` is the save it saw there), makes a directory, a temporary file and a
rename, removes the temporary file when one of these fails, and drops the entry
if it is still its own. A save moves through `Phases`; a death loses those that
were not answered and leaves `file`, the save whose content `state.json` has.
`load` takes any failure to read for an empty profile (fault `read`). The
mapping reads `value` off `file` and `request` off the phases.

`ProtectedSources` extends it. An operation in flight is a slot of `calls` with
the await it is at: `storing`, `adding`, `undoing` are `addDownload`;
`completing`, `collecting` the completed handler; `cancelling`, `clearing`
`cancel`; `burying`, `emptying`, `deleting` `remove` with its tombstone;
`saving` a save whose answer changes nothing. A transfer ends in two steps:
`Finish` sets the status as `finish()` does, and `Complete` is the handler that
saves whatever the status is by then and drops the secret. `Reopen` is what may
come in between or afterwards: a `pause()` that marks the finished item as paused
(`DownloadTask.ts:510`), and a `start()` that rejects and writes `error` over
whatever was saved (`DownloadManager.ts:803`). `Restart` is `init`: it collects
the secrets of finished items and refuses to resume an item whose secret is
gone. `undone`, `orphans`, `settled` and `reopened` are history. Not modelled:
transfers (`DownloadManager` has them; a `finish()` that fails is a transfer that
fails), settings and queues in `load`.

### DistributedDownload

A piece is `good` (the bytes that the expected digest was made of) or `bad`
(others, under their own hash). On disk: `manifest` with the hash each piece was
verified with, `files`, `partials`, `final`, and `recorded` (what `state.json`
says). The run: `phase` is where `run()` is; `memory`, `pending`, `attempts`,
`preferred`, `quarantined` are the code's variables; `fetch[h]` is what host `h`
was given in this round and how far it is; `saving` the saves of the manifest in
flight. `Deal` and `Given` are the choice of pieces for the hosts of a round in
closed form, `GivesUp` the end of the retries. `PieceCount` and `PieceStart` are
the plan of `DistributedRangePlanner`. The worker answers, breaks off, lies
(`Liars`), changes its source, or goes on for a while after its client left
(`lingering`).

Not modelled: another selection of hosts or another source at the second start;
`cancel(deleteFile)`; a file that another program creates between the look at the
path and the rename; the frames of the SSH session, which are one request and
its answer.

### Provisioning

The script is a program counter, `at`, over the renames, removals, docker calls
and records of `provision.py`, each a step before which it may die; `client` is
`provisionLocked` or `removeLocked`. `listening` says whether the answer of the
running script will be heard: a lost connection leaves the script going. The
host's lock makes scripts follow one another. A directory is a specification,
absent, or what an interrupted removal left of it (`torn`), which docker may not
be able to take down. `listed` is the inventory's entry, which goes when a removal
is answered, so that one that failed may be asked for again; `pinned` is such an
entry whose removal nobody has asked for. Lines 432-449 of
`provision.py` (a restore without a journal) are not modelled: they need a
`previous/` without a journal, which `PreviousIsJournaled` shows does not occur.

### UpdateService

Versions are numbers and the feed publishes new ones at any time. `squirrel` is
every operation that was asked of it and where it is; its events arrive at any
time or never. `check`, `awaited`, `verifying`, `download` are the leases of the
service; `status`, `version` and `integrity` what it publishes. Not modelled:
progress percentages, `quitAndInstall`, the adapter's promises. Three details
that the model shows and no test mentions: a check whose lease timed out is
released only by a later event; `update-downloaded` and `error` during the
verification of the feed are ignored, and only the timer ends what they would
have ended; a verification or check that fails after `stop()` still publishes
`failed` (`StopHolds` allows it).

### AuditJournal, HistoryStore

`AuditJournal` is what the History tab shows: revisions that are only added, a
label per revision, and the revisions that retention hides. Each change is one
step and one revision. `HistoryStore` has what the class awaits: `ensureInitialized`,
which calls share (`opened`) and whose failure is forgotten; `git log` or `git
show`; the sidecar, read from the working tree *before* the chain is entered;
the turn in `mutationChain`; the file (`work`), the commit (`committed`, `log`),
and what was there before when the commit fails. Any failure to read what was
there counts as a file that does not exist (line 321; `MayMisread`). `Idle` to
`Report` are the stages of one call. The mapping reads the journal off the commits. Not modelled:
filters, diffs, redaction and export, which change nothing; a lock that a
killed Git leaves in the repository; sizes.

## Runs

Each run is one question; `PROJECT.json` says what each shows.

| Run | Properties | Bounds | States |
| --- | --- | --- | --- |
| `task_ranged` | `CompletedFileIsExact`, `SavedProgressIsWritten`, `BytesAtOwnOffset` | 3 bytes in parts of 1 and 2, chunks of 1-2, 1 retry, 2 starts, the first of which may still read its parts file, open the download or end; broken bodies; pause, retry, crash | 2.3 M |
| `task_all` | `QuietAtRest`, `TransferSettles` | 2 bytes streamed, limiter, 1 redirect, 1 retry, 1 start; every fault, every operation but a crash; `FairSpec` | 0.2 M |
| `manager_all` | `ItemsPlaced`, `WithinLimits` | every operation and fault, a scheduled queue, a protected item, 2 automatic pauses in flight | 1.1 M |
| `manager_serial` | `TransfersWithinLimit`, `SlotsHeldByTransfers`, `StopHolds`, `StoppedQueueIsIdle`, `ShutdownStopsAll`, `CancelIsTerminal` | 2 items, 2 queues with limits 2 and 1, one global slot, one scheduled queue whose window turns once; add, pause, resume, cancel, stopQueue, shutdown; the vault fails and tasks cannot be created; users that wait (`Serial`, below); items symmetric | 1.0 M |
| `manager_live` | `ReadyStarts`, `CallsReturn` | 2 items, one scheduled queue; add, cancel, shutdown; files that fail to open; `FairSpec` | 43 k |
| `handoff_steady` | `OneCopy`, `NeverLost` | 2 symmetric downloads, one claim, one pending decision; 3 faults among `SteadyFaults`: Chrome rejects, the desktop is unreachable, restarts, fails at a window, a source, a start or a removal; the user takes downloads back | 1.0 M |
| `handoff_restarts` | `PausedIsOwned`, `NotedOneCopy`, `PauseEnds` | 1 download, 5 faults of every kind but `stranded`, deaths of the worker included; alarms; `FairSpec` | 34 k |
| `secrets` | `AcknowledgedIsKept`, `ResumableHasSecret`, `SecretsAreKnown`, `OverIsOver`, `ImplementsDurableState`, `SavesReturn` | 1 protected item, 3 operations in flight, 3 saves, 2 deaths; directory, write, rename and vault fail; late pauses and rejections; `FairSpec` | 190 k |
| `distributed` | `RecordsAreTrue`, `ProgressIsKept`, `InstalledIsDone`, `RunEnds` | 2 pieces, 2 hosts (one may lie), 2 attempts, 2 starts, 1 death; every fault but a death between the rename and the manager's save; pause, cancel, cancel without a task; `FairSpec` | 368 k |
| `provisioning` | `SuccessIsReal`, `SomeWorkerSurvives`, `KeyIsKept`, `PreviousIsJournaled` | 2 symmetric specifications, 5 calls, 4 deaths or lost answers; `RecoverableFaults` | 99 k |
| `update` | `ReadyIsStaged`, `BusyEnds` | 3 versions, 4 checks | 111 k |
| `journal` | `WorkingIsCommitted`, `CallsSettle`, `ImplementsJournal` | 2 calls at a time, 4 in all, one state, one label, retention of 1, 1 death; opening, writes, reads of states and names, and Git fail; labels and retention one at a time (`Serial`); `FairSpec` | 96 k |

Why the bounds are enough. *Bytes*: a part needs a first and a later byte to be
interrupted between writes, and two parts to be confused with one another; 3
bytes in parts of 1 and 2 also has the remainder of the division in the last
part. *Retries and starts*: one retry separates the first, a later and the last
attempt; a second start meets everything a first one can leave behind, chunk
loops, parts file, saved state and the first one itself included. *Items and slots*: two items are
the fewest that compete for a slot, and two downloads the fewest that meet a full
journal, a full list of decisions or a sweep's copy of the journal; three
operations in flight are enough for
one to take away what another gave (the overlapping pauses below). The smallest
violations found are all well inside these bounds. *Faults*: what one handoff
can meet is one failure of each call it makes; the violations found need one or
two of the three to five allowed, so that the runs also see a second failure
while the first is being repaired. *Saves and deaths*: three saves are the fewest
of which the last can overtake one that waits; a second death meets what the
first left. One protected item suffices because items share nothing but the
chain, and the proofs cover any number. *Pieces and hosts*: two hosts let a piece
move, be quarantined with its host, and return to the only one left; two attempts
separate the first and the last; the second start meets every kind of remains.
*Provisioning*: two specifications are an upgrade and, with a third call, a way
back; four deaths or lost answers allow a death in the recovery of a death.
*Updater*: a third version can be published while the second is downloaded.
*History*: two calls are enough for one to wait, or to prepare what it writes,
while the other writes; four make a state, a label, a retention and another state
around them.

The transfer behind a speed limit (4 bytes in 2 parts, `Limited = TRUE`,
`MaxStarts = 2`, `Faults = {"refuse", "redirect", "abort"}`, `UserOps = {"pause",
"retry"}`) also satisfies `BytesAtOwnOffset`, on 0.7 M states; `RangedOffsets`
proves it, so it is not kept as a run.

`Serial` in `manager_serial` describes users that wait. It says three things:
nobody asks for an operation on an item, or for `stopQueue` of its queue, while
another operation on that item is in flight; nobody resumes an item before its
last task has ended (`AtRest`: no `start()` still loads, transfers, finishes or
fails, and the map has no task of it but one that a window is pausing); and
additions are over before the program quits. The code enforces none of the three,
and without any one of them the run fails (known counterexamples). The run shows
that they are enough for its properties, with task events, schedule, `stopQueue`
and shutdown interleaved. `manager_all` and the theorems listed for the manager
assume nothing of the kind.
`Serial` in `journal` says that labels and retention are changed one at a time;
the History tab disables only the button of the revision that is being labelled.

`CHECK_DEADLOCK FALSE`: a transfer that ended, a run that is over, an updater
that was stopped and a manager that was shut down really stop, and bounded
counters run out.

### Fairness

`DownloadTask!FairSpec` is weak fairness of `TaskStep`: each disjunct is a
promise that resolves, a timer that fires or a socket that answers or times out
(connection, idle and request timeouts are all armed, lines 327-350). Users,
the progress timer and crashes are not fair. `DownloadManager!FairSpec` is weak
fairness of each operation's continuation, each task's and each automatic
pause's steps, of shutdown's, and of the clock tick (a `setInterval` of 15
seconds). Windows need not open and nobody need ask for anything.
`BrowserHandoff!FairSpec` is weak fairness of each step of the worker's and the
desktop's promises, of timers, alarms, the sweep and time; faults end because
`MaxTrouble` of them happen. The user, in either program, need do nothing, and
`PauseEnds` says that a paused download does not depend on it.
`ProtectedSources!FairSpec` is weak fairness of the promises in flight (`GoOn`);
neither an operation nor a restart need ever be asked for.
`DistributedDownload!FairSpec` is weak fairness of `RunStep`: connections, frames
and ranges have deadlines on both sides. `UpdateService!Spec` is fair to the
service's own timers and to its verification, which one of them bounds, and to
nothing of Squirrel's. `HistoryStore!FairSpec` is weak fairness of the opening
and of each call: Git commands have a time limit. `Provisioning` has no liveness
property: a host may never answer.

## Proofs

`DownloadTaskProofs` (2150 obligations):

- `TypeCorrect`: `Spec => []TypeOK` for all constants that satisfy
  `SizeAssumption`, every fault and operation included.
- `Coverage`: the parts of `ensurePartsLayout` cover every offset, whatever the
  size, the number of connections and the minimal part.
- `PlainIsExact`, `PlainProgress`: for a *plain* transfer (ranged, no speed
  limit; requests may be refused and redirected, bodies break off and parts files
  be lost; paused, cancelled, retried, crashed, and started again while the start
  before is still on its way, in any order) of any size and layout, two safety
  properties. `Plain` excludes short ranges, `reset`, failing writes, an `open()`
  that is overtaken and removals: TLC finds each of them to break exactness or
  progress (below). The properties alone are not inductive: a completed part says nothing of the
  bytes below `current` unless one knows that every byte below it, in memory,
  in the parts file, in a save in flight and in `state.json`, is on disk, that
  the only chunk loop of a part writes the source's own bytes exactly at
  `current`, that the response it comes from starts there, and that what an
  overtaken start still reads and opens is no worse. The inductive
  invariant is the conjunction of these; it is named part by part in the module.
- `RangedOffsets` (`BytesAtOwnOffset`), for every ranged transfer, a speed limit,
  responses cut short, removal, re-adding and overlapping starts included.
  Hypotheses (`Ranged`): no `reset` and no failing write; behind a limit, no parts
  file that is lost or that an overtaken start removes, and
  no cancellation. TLC violates the property without any one of them (below).
  The invariant `OffsetInv`: the only loop of a part that can still write is at
  `part.current` (`Aligned`); the response it came from is ahead of it by what
  the loop has left, and level with the part when there is no loop (`Streams`);
  a stop may leave loops that wait for the limiter, whose slices advance the
  parts without writing them, but only where the next session replaces the parts
  by those of the parts file (`Left`, `Superseded`).
- `RestIsQuiet` (`QuietAtRest`), for all constants, faults and operations. Chunk
  loops outlive the task they belong to; what keeps them from writing is that
  whoever ends a task gives up its handle first and awaits its close, and with it
  the writes pending on it. `RestInv` says at which steps a handle can be open and
  a write pending.

`DownloadManagerProofs` (5445 obligations), for any number of items, queues,
operations and tasks in flight. Whatever operations overlap:

- `TypeCorrect`, `ListMatchesQueues` (`ItemsPlaced`) and `LimitsHold`
  (`WithinLimits`). `WithinLimits` is not inductive on its own: an item could
  move to another queue while it has a task, or two passes could count the same
  item twice. The invariant `Inv` adds what an operation in flight names
  (`Workplaces`, `Naming`), that an item not yet added has no task and is in no
  queue (`Fresh`), and that an addition can be taken back only while its item is
  where the addition put it (`Additions`). The counting lemmas say that the
  first `n` waiting items are at most `n` and that a pass over queues gives out
  no more than is left of the global limit.
- `SlotsHeld` (`SlotsHeldByTransfers`), where files can be removed
  (`"rm" \notin Faults`): a task in the map that has ended is one that an
  operation, an automatic pause or shutdown is about to take out.

The module also holds results for users that wait (`Serial`, above) where the
windows turn at most once, or no queue has a schedule (`Steady`). The code does not
enforce this, and each of them fails without it, so they are conditional: they
carry what `manager_serial` shows to every number of items, queues and operations,
and no further, and `PROJECT.json` does not list them.

- `TransfersLimited` (`TransfersWithinLimit`), `StoppedQueueIdle`
  (`StoppedQueueIsIdle`) and `ShutdownStops` (`ShutdownStopsAll`), for every fault.
- `CancelTerminal` (`CancelIsTerminal`), where files open and entries are not
  erased; `UserStopHolds` (`StopHolds`), where files can be removed and entries are
  not erased.

The limits count what is in the map, and a transfer is what a task does; the
invariant `SerialInv` ties the two. Per item (`Lone`): at most one task is alive,
and one that transfers is the one in the map; while an operation waits for a
task to stop, or an automatic pause is under way, nothing transfers; and an item
that has any of these is not in line for a slot, or its window has closed for
good (`Barred`), so that no pass gives it a second task. `StopReaches` says that
an item of a stopped queue which still transfers is on the list of the
`stopQueue` in flight, `QuitsQuietly` the same of shutdown. `WordInv` adds, for
the user's last word, that one operation is about an item and is the one last
asked for (`OneCall`, `Words`), and that what it has still to do, or has done,
is the stop that was asked for (`WordHolds`).

None of these parts could be shown action by action: there are some thirty
disjuncts, and each pass starts several items. The proof first sorts
every step by what it does to one item (`ItemMoves`: it starts a task, stops it,
takes it out, something happens to it, ...), to its place (`PlaceMoves`), to the
operations (`CallsMove`) and to the windows (`Turns`), and shows each part of the
invariants for these few moves. Both invariants were checked by TLC, on the
constants of `manager_serial` and with other faults and operations, before they
were proved. The second half of `Steady` is a real restriction: with two turns of
a window each of the five theorems fails (below).

`ProtectedSourcesProofs` (2471 obligations) begins with `StateStore` alone:
`StoreImplements`, for any contents, saves in flight and faults: the store
implements `DurableState`. The invariant `ChainInv`
says that every save but the last asked for is waited for by the next, that `tail`
names the last one that is not over, and that at most one save, the first that is
not over, works on the file; a save before it cannot then take effect after one
behind it.

Then the composition, for any number of items, operations and saves:

- `SourcesImplement` and `Acknowledged`: the composition keeps the store's
  invariant, each operation waiting for a save of its own.
- `SecretsLastLongEnough` (`ResumableHasSecret`) and `OverStaysOver`
  (`OverIsOver`), for every fault; both except the items that a late pause or
  rejection has reopened, which the code does lose. The properties speak of the file; what threatens them are saves
  in flight that carry an older status. The invariant follows each item through
  every save that may still reach the file: once its secret may go, its end is
  in the file and in every save behind it.
- `NoSecretForgotten` (`SecretsAreKnown`), where `state.json` can be read
  (`"read" \notin Faults`).

`DistributedDownloadProofs` (502 obligations), for any pieces, hosts, attempts
and faults:

- `PlanPartitions`, `PlanIsBounded`: the plan's pieces follow one another from
  the first byte to the last, none is empty, and there are as many as there
  should be.
- `RecordsHold` (`RecordsAreTrue`), `ProgressHolds` (`ProgressIsKept`) and, where
  the program does not die between the rename and the manager's save,
  `InstalledHolds` (`InstalledIsDone`). The invariant `RunInv` adds that a piece
  is at work on one host at most, what an assignment between its rename and its
  record is about to record, and that the saves in flight of a manifest say
  nothing that the files do not.

`ProvisioningProofs` (956 obligations), for any specifications, number of calls,
deaths and lost answers:

- `TypeCorrect` and `KeyKept` (`KeyIsKept`), whatever fails. `KeyIsKept` speaks of
  the volume and a pinned key, but what protects them is the journal: an apply
  that replaces a worker may never reach the branch that takes the volume down.
  `HostInv` therefore relates the step the script is at to the journal
  (`JournalInv`), to where the directories are (`PlaceInv`), to what of the
  old worker is half removed (`TornInv`) and to what the client waits for
  (`ClientInv`). One of its parts, `AppliedInv`, says that `finalize` and
  `rollback` always come after an apply that did its work: the errors of
  `finalize` (lines 453-457) and the branches of `rollback` that run without a
  journal (lines 419-449) are never reached by this client.
- `PreviousKept` (`PreviousIsJournaled`), where a removal of the root is not cut
  short.
- `WorkerSurvives` (`SomeWorkerSurvives`), where what replaces the worker is
  removed whole (`WholePrevious`: finalize does not tear what it clears, and
  docker does not leave up what a half-done removal has torn). `WorkerInv` says
  at each step which of `current`, `previous` and the journal the worker can be
  restored from.
- `SuccessHolds` (`SuccessIsReal`), where docker takes down what it is told to
  and the script dies neither between a directory and its record nor in a
  removal of the root (`Recoverable`). A death may come at any step, so the
  invariant has a part that a death keeps, `Restorable` (what the next script
  finds is enough to go back or forward from), and a part that names the step
  (`StepInv`).

Both hypotheses are the weakest sets of faults under which TLC finds no
counterexample; the run `provisioning` leaves out more than `WholePrevious` does.

`UpdateServiceProofs` (299 obligations): `StopIsFinal` (`StopHolds`): no lease is
taken after `stop()`. `ReadyHolds` (`ReadyIsStaged`), where Squirrel refuses a
second operation and names what it downloaded (`Orderly`): the invariant ties the
lease on a download to the only operation that can answer it.

`HistoryStoreProofs` (1009 obligations), for any calls, revisions and deaths:

- `FilesAreCommitted` (`WorkingIsCommitted`), where Git does not die after its
  commit, a file can be put back, and the program does not die between a file and
  its commit (`CleanFailures`). A file that was misread may be gone. The invariant says that only the first call of
  the chain may be past its turn, and that the files then differ from HEAD by its
  file alone, which holds what it is about to commit or to take back.
- `StoreIsJournal` (`ImplementsJournal`), where besides labels and retention are
  changed one at a time and no sidecar is cut or misread (`Careful`). The code does
  not enforce the first, so that this result is conditional as well and not listed
  in `PROJECT.json`. The invariant says that
  what a call is about to commit is still the journal's step although it was put
  together before other calls committed: those touch other files, and a longer
  log leaves what was old enough to be hidden old enough.

`BrowserHandoffProofs` (752 obligations), for any number of downloads, claims
and pending decisions:

- `TypeCorrect`, and `PausedHasOwner` (`PausedIsOwned`) for every fault. The
  invariant `Owned` adds that a coroutine about to pause has a claim, and that
  one about to clear a claim has a download that is not paused.
- `CancelledIsKept` (`NeverLost`), where nothing cuts the rollback short
  (`Uncut`: no timeout, no death, no failure after the removal). Between the
  desktop's acceptance and Chrome's cancellation there are several awaits, so the
  invariant `Safe` follows the transfer through each: a worker that is
  `cancelling` knows a transfer that no rollback is removing, and a rollback
  runs only while its worker waits.
- `NeverTwoCopies` (`OneCopy`), where requests are not timed out, the worker
  lives, writes its journal and can resume, and the desktop can remove a transfer
  that it cannot start (`Prompt`). The invariant `Single`
  says who may hold a download: until the decision expires Chrome's copy is
  paused or cancelled, or the desktop has no transfer and can no longer get one,
  and only then does a coroutine resume (`Held`); and a claim without a decision
  belongs to a coroutine, so that no recovery finds one to resume.
- `NotedHasOneCopy` (`NotedOneCopy`), timeouts included, and with one claim at a
  time deaths, lost writes and failed resumptions too (`NoStaleCopy`, which like
  `Prompt` has no `stranded` transfer). TLC's run has
  one download; the proof attempt for more showed that with two claims a recovery
  that resumes an orphan reaches the other with a copy of the journal from before
  its decision (below). The invariant `NotedInv` says what the worker has
  established when it writes the decision down (`Trusted`: Chrome's copy is paused,
  and is resumed only when the desktop is out of the game), and that a recovery
  leaves nothing in its copy (`Swept`), since there is one claim or none to visit.

The hypotheses are about `Faults`; those of `Careful` also about `Serial` and
`MaxIds`, of `Steady` about `Serial` and the turns of the windows, of
`NoStaleCopy` about `MaxClaims`. What happens without them is below.

Type correctness of task, manager, handoff and provisioning is proved and no
longer a property of a run.

Only model-checked: liveness (`TransferSettles`, `ReadyStarts`,
`CallsReturn`, `PauseEnds`, `SavesReturn`, `RunEnds`, `BusyEnds`,
`CallsSettle`), since the prover does not handle `ENABLED`. Every safety property
of a run is proved, under the hypotheses named above. Those that describe users
(`Steady`, and `Serial` in `Careful`) are of another kind than those about faults:
the code has no guard for them.

## Known counterexamples

Each is obtained by changing the constants of a run or, where the property is in
no run, by naming it in the configuration. They are why some faults and
operations are missing from the runs, and why some theorems have hypotheses. The
first table contradicts a document or a comment of the repository:

| Property | Constants | What happens | What it contradicts |
| --- | --- | --- | --- |
| a completed part is there in full: `laid /\ parts[p].done => parts[p].cur > To(p)` | `task_ranged` with `Size = 4`, `MinPart = 2`, `MaxStarts = 1`, `Faults = {"short", "refuse"}`, `UserOps = {}` | a range that ends early on the last attempt counts as complete (`DownloadTask.ts:477-484`) | `docs/features/download-engine/reliable-transfers.md:46-48`: exhausted retries produce an explicit item error |
| `CompletedFileIsExact` | `task_ranged` with `Size = 2`, `MaxConns = 1`, `MinPart = 2`, `ResumeSupport = FALSE`, `Faults = {}`, `UserOps = {"pause", "retry"}` | a streamed download appends the source from byte 0 after a pause, since `part.current` is not reset (line 447) | `reliable-transfers.md:12`: falls back to one streamed part |
| `TransfersWithinLimit` | `manager_serial` with one queue, no schedule, `Serial = FALSE`, `Slots = 3`, `UserOps = {"add", "pause", "resume"}` | overlapping pauses of an item delete a later task by id (`DownloadManager.ts:896`, also 747, 762, 806, 827, 938, 968, 1476, 1495); it goes on, counted by no limit | `reliable-transfers.md:5-6`: the manager applies both limits |
| `RollbackFirst` | one download, `Faults = {"cancel", "removeEarly"}`, no users, no alarms, `MaxTrouble = 2` | the desktop accepted, Chrome's cancellation and the rollback failed, and the poll after `expiresAt` resumes Chrome without a rollback (`service-worker.js:579`), so that both programs download the file | `extension/docs/electron-integration-seam.md:103-107`: a failed rollback keeps the browser item paused |
| `ReadyIsStaged` | `update` with `Faults = {"overlap"}` or `{"unnamed"}` | Squirrel downloads two versions at once, or does not say which: one that was not verified is offered | the comment at `updater/UpdateService.ts:253-258` |
| `SomeWorkerSurvives` | `provisioning` with `"tornPrevious"` | the script dies while it removes the replaced directory; a rollback then restores what is left of it | the docstring at `provision.py:283-289` |
| `WorkingIsCommitted` without its exception | `journal` with `Faults = {"read"}` | the previous file cannot be read once; an unchanged state is written again, Git has nothing to commit, and the file that HEAD has is removed (`history/HistoryStore.ts:321`, `338`) | the same comment as in the next row |
| `WorkingIsCommitted` | `journal` with `"late"`, `"undo"` or `"torn"` | Git is killed after its commit, the file cannot be put back, or the program dies between file and commit: the next identical state is taken for recorded | the comment at `history/HistoryStore.ts:336-337`: no uncommitted replacement masquerades as the committed state |
| `ImplementsJournal` | `journal` with `Serial = FALSE` | two labels read the sidecar before either writes it, and the first is lost (line 512) | the comment at lines 117-118: the store serializes all writes |

The others:

| Property | Constants | What happens |
| --- | --- | --- |
| `CompletedFileIsExact` | `task_ranged` with `Size = 4`, `MinPart = 2`, `Faults = {}`, `UserOps = {"pause", "remove"}` | removing a paused download with its file (`DownloadManager.ts:969`) leaves its parts file, which the same download believes when it is added again |
| `CancelIsTerminal` | `manager_serial` with one queue, one item running at a time, no schedule, `Faults <- OpenFault`, `UserOps = {"add", "cancel"}` | `start()` rejecting after a cancellation turns the cancelled protected item into an error, which may be resumed (line 803) |
| `CancelIsTerminal` | `manager_serial` with `MaxTurns = 2` | while one cancellation waits for its task, a window closes, which queues the item again, and reopens, which starts it; the cancellation then takes the new task out of the map and the task goes on |
| `TransfersWithinLimit`, `StopHolds` | `manager_serial` with `MaxTurns = 2` | the same, for a pause |
| `ShutdownStopsAll`, `StoppedQueueIsIdle` | `manager_serial` with `MaxTurns = 2` | a task is completing as its window closes, which queues the item again, and reopens, which starts it; the completion of the old task then takes the new one out of the map (`DownloadManager.ts:747`), and neither `stopQueue` nor shutdown finds it |
| `BytesAtOwnOffset`, `CompletedFileIsExact` | `task_ranged` with `Size = 4`, `MaxConns = 1`, `MaxStarts = 1`, `Faults = {"writeError"}`, `UserOps = {}` | the write of a chunk fails, the response is resumed (`DownloadTask.ts:456-459`) and its next chunk is written where the failed one belongs; the retry goes on from there and the download completes |
| `BytesAtOwnOffset`, `CompletedFileIsExact` | the same with `Faults = {"reset"}` | a reset, or the idle or request timeout, settles the attempt while its last chunk is being written (line 327); the retry asks for the range before `part.current` moves and writes what it gets after it has (line 447) |
| `CompletedFileIsExact`, `SavedProgressIsWritten` | `task_ranged` with `Size = 2`, `MaxConns = 1`, `Faults = {"lateOpen"}`, `UserOps = {"pause"}` | a task is paused while its `start()` opens the new file; the next one opens it, writes and may complete, and then the `open(path, "w")` of the first takes effect and empties it (`DownloadTask.ts:104`) |
| `BytesAtOwnOffset` | `task_ranged` with `Size = 4`, `Limited = TRUE`, and either `UserOps` with `cancel`, or `pause` with `"noPartsFile"`, or `pause` with `"lateEnd"` and `MaxStarts = 3` | a loop that waits for the limiter outlives its task and still moves `part.current` (line 449) of the next one, which found no parts file to read the parts from (in the last case because an overtaken start that ended has removed it) |
| `SavedProgressIsWritten`, `CompletedFileIsExact` | `task_ranged` with `Limited = TRUE` | a slice granted after the handle is gone is counted without being written (line 446) |
| `TransfersWithinLimit`, `StopHolds`, `StoppedQueueIsIdle`, `ShutdownStopsAll`, `CancelIsTerminal` | `manager_serial` without `Serial`'s clause on resume | a failing task has set the status and not yet reported; the item is resumed and then cancelled, its error event takes the task out of the map, a clock tick starts another, and the cancellation, which awaited the old one, takes the new one out (`DownloadManager.ts:938`) |
| `ShutdownStopsAll` | `manager_serial` with `Serial = FALSE` and `UserOps = {"add", "shutdown"}` | an addition whose save ends after shutdown starts its item (`DownloadManager.ts:650` does not look at `shutDown`) |
| `SlotsHeldByTransfers`, `StopHolds` | `manager_serial` with `Faults = {"rm"}` and `UserOps = {"add", "cancel"}` | `task.cancel()` rejects and the ended task stays in the map (line 937) |
| `StopHolds`, `CancelIsTerminal`, no transfer of an item that is gone | `UserOps = {"add", "erase"}`, `MaxActive = 1`, two items | a pass starts a listed item while `remove` awaits its file (line 971) |
| `OneCopy`, `NotedOneCopy` | `handoff_steady` with the fault `resume` and `MaxClaims = 2` (`NotedOneCopy` also with `storage` or `death`, and alarms) | a sweep whose copy of the journal is older than a `pending` claim resumes the download (`service-worker.js:745`) |
| `OneCopy` | `handoff_steady` with the fault `timeout` | the offer times out in the worker, which resumes Chrome, as the desktop shows its window, which the user accepts |
| `OneCopy` | `handoff_steady` with the fault `storage` | the `pending` claim is not written: the worker resumes Chrome and the window stays |
| `OneCopy` | one download, the fault `death`, alarms | the worker dies before it has noted the decision and the next sweep resumes Chrome |
| `OneCopy` of late downloads too | no fault at all | the user approves just before `expiresAt`; the transfer is being added when the worker's poll finds the decision expired |
| `OneCopy`, `NotedOneCopy` | `handoff_steady` with `Faults = {"stranded"}` | the desktop can neither start nor remove the transfer it has added (`DownloadManager.ts:669`, `676`): it stays on the list although the handoff has failed and Chrome goes on |
| `NeverLost` | faults `timeout`, `cancel` | the worker stops waiting for a rollback (1.5 s) that then goes through; its next poll finds the record still accepted and cancels Chrome |
| `NeverLost` | faults `removeLate`, `cancel` | the removal fails after it has removed the item, the record stays accepted (`HandoffServer.ts:410`), and the next poll cancels Chrome |
| `NeverLost` | one download, faults `death`, `cancel`, alarms | as for `timeout`, the worker having died meanwhile |
| `SecretsAreKnown` | `secrets` with the fault `read`, 2 items, `Slots = 2` | `state.json` cannot be read once; the next save makes the empty profile permanent (`persistence.ts:258`) |
| `ResumableHasSecret` without its exception `undone` | `secrets` as it is | an addition fails to save, its secret is removed, and a later save that was asked for meanwhile still carries the item |
| `ResumableHasSecret`, `OverIsOver` without their exception `reopened` | `secrets` as it is | a pause while `finish()` awaits makes a completed item `paused`, the completed handler saves that and drops its secret (`DownloadManager.ts:747-754`); or a `start()` that rejects late saves `error` over a cancellation (line 803): after a death the item is resumable without its secret |
| no orphaned secret | `SecretsAreKnown` without `orphans` | a death between the vault and the first save of an addition leaves a secret that nothing names |
| `InstalledIsDone` | `distributed` with `Faults <- FaultKinds` | after a death between the rename and the manager's save the next start finds the path occupied (`DistributedDownloadTask.ts:442-448`) and fails, on every retry |
| `CancelledIsWiped` | `distributed` | a download that is cancelled while no task runs keeps its pieces and its manifest |
| `SuccessIsReal` | `provisioning` with `"down"` or `"window"` | docker does not take the new container down, or the script dies between a rename and its record: the state file names a specification that was rolled back and the next request for it is answered "unchanged" |
| `SomeWorkerSurvives` | `provisioning` with `"down"` and `"torn"` | as above, with a removal that stops half way |
| `PreviousIsJournaled` | `provisioning` with `"halfRemoved"` | the removal of the root stops half way |
| `RelayFollows`, `RemovedIsDown` | `provisioning` | undoing a failed apply does not write `authorized_keys` back, so the relay keeps the key of the specification that failed; a removal that finds no `current/`, because the script died in the middle of its swap, skips docker and removes the root while the container still runs |
| `ImplementsJournal` | `journal` with `MaxCalls = 5`, `MaxIds = 5`, `Faults = {"readSidecar", "git"}` | a sidecar cannot be read and its commit fails, so that it is removed; the next label or retention starts from an empty one and every other label is lost |
| `ImplementsJournal` | `journal` with `MaxIds = 1` | a sidecar beyond `MAX_PRUNED_IDS` entries is cut by the order of commit ids: a label disappears |

## Not modelled

- `DownloadManager`: `createQueue`, `updateQueue`, `deleteQueue`, settings,
  `restoreHistoryRevision` (line 1260; it looks at the active tasks before its
  first await only), the deletion of a removed item after its file (line 971 is
  in the model, its counterexample above); `addBrowserHandoff` is one step in
  `BrowserHandoff`.
- The arithmetic of `SpeedLimiter` and `queueSchedule`: their outcomes (any
  grant, any turn of a window) are nondeterministic choices.
- Parsers and formatters: probing, file names, categories, schedule sources,
  feed hashes and signatures, regular expressions, diffs and their redaction.
- Components with one call at a time on one file (converter, Ollama suite,
  editors, logo, vocabulary, authenticator, changelog), and the user interface,
  site, prototype and scripts, which are most of the repository's lines: they
  have no state machine of their own beyond what they ask of the engine.

## Plan

1. `DownloadTask`, `DownloadManager`, `BrowserHandoff` with their proofs: done.
   To come: the queue operations, `restoreHistoryRevision` and a restart in the
   manager; the abstract promise "one copy, in one program" as a specification
   that the steady handoff implements; overlapping recoveries.
2. `StateStore` and `ProtectedSources`, `DistributedDownload`, `UpdateService`,
   `HistoryStore` and `Provisioning` with their proofs: done.
3. To come: the arithmetic of schedule and limiter against reference
   definitions; the worker's sessions.
4. Proofs to follow: the exactness of streamed transfers that are never paused.
