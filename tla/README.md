# EPGStation: a TLA+ verification project

EPGStation records digital television. It keeps a table of reservations (made by
users, or by rules that search the programme guide), decides which of them can be
received with the tuners there are, records them at their time, and encodes and
streams what was recorded. This directory holds TLA+ models of its core, the
TLC configurations that check them on small instances, and TLAPS proofs.

`PROJECT.json` lists components, runs, mutants, the correspondence of every
definition to source lines (`map`), hazards and theorems. All source
paths below are relative to `src/src/model/` of the repository.

## 1. Inventory

The program is three Node.js processes: the *operator* (reservations, recordings,
files), the *service* (HTTP, streams, encodes; a child of the operator) and the
*EPG updater* (a child that writes the programme guide into the database). Within a
process everything runs on one event loop. Two pieces of code interleave where one
of them awaits; nothing else is concurrent. So an action of a model is a piece of
code between two awaits, or a longer piece if a lock covers the awaits in it.

| Component | State | Operations | What makes it correct |
|---|---|---|---|
| Execution lock (`ExecutionManagementModel`) | owner, queue of calls, queue of calls without an id, round-robin of ids | getExecution, timeout of a call, unLockExecution, owner watchdog | one owner; priority, then order of calls; no lost wake-up; every call settles; ids stay distinct after a wrap |
| Reservations (`operator/reservation`) | table of reservations | add, addEventRelay, update, updateRule, updateAll, cancel, removeSkip, removeOverlap, edit, cleanup | the planned rows fit on the tuners; a programme is planned once; a user's decisions survive refreshes; no rows without a rule |
| Rules (`operator/rule`) | table of rules, queue of mutations with a 10 s advance | add, update, enable, disable, delete | the rows are those of the rule as it is now |
| Recording schedule (`RecordingScheduleController`, `RecordingCandidateRegistry`) | candidates with phase, generation and session; time-specified ends; one timer | acceptMutation, wake, evaluate, tryTransitionSession, registerTimeSpecifiedEnd | no wake is lost; what is due is dispatched; stale sessions have no effect |
| Recording management (`RecordingManageModel`) | index of recorders, chain of session operations, failure claims, deletion stops | start-up, make, update, remove, prepare, finish, failure and retry, stop for deletion | candidates follow the table; removed reservations are stopped; retries are bounded |
| Recorder (`RecorderModel`, `RecordingStreamCreator`, `DropCheckerModel`) | one attempt: stream, path, file, registration owner, timers | prepare, first data, registration, end, failure, update, cancel | one row and one file per recording; a cancel at any point leaves neither half |
| Recorded content (`operator/recorded`, `workflow`) | deletion tokens, lock per recording, leases | prepare, commit, add, cleanup, protect | nothing in use or protected is deleted; a token works once |
| Encode queue (`EncodeQueueStore`, `service/encode`) | persisted requests; waiting and running encodes; admission counter | push, pushPersisted, checkQueue, finish, cancel, restore | every accepted request runs or is cancelled, once, also over a restart; the limits hold; leases are returned |
| IPC (`ipc`) | pending, retired and leased ids; snapshots asked for | request, answer, timeout, late answer, peer replaced | an answer reaches its own request; a late grant is returned |
| Service process supervision (`ServiceChild*`) | processes the service started, leases of its peers | report, end of the service, clean-up, next start | what a dead service left is stopped and released once, before the next one needs it |
| Streams (`service/stream`) | active streams, ids, artefact snapshots | start, stop, keep, stopAll | no id is shared with files of another stream; a late start is undone |
| EPG update (`epgUpdater`) | queues of changes | consume, saveProgram, saveService, restart | the last change of a programme wins; a failed save loses nothing |
| Event wiring (`event/EventSetter`) | held deletion commands | handlers of all events | each event reaches every destination; held commands are released once |
| Thumbnails, external commands, notifications | bounded queues, one child process each | add, start, settle, time out | the next job starts exactly once after each job |
| Storage, upload, tuner access, stream buffers | see `PROJECT.json` | | |

Interactions. A reservation operation takes the lock, writes the table, releases the
lock and emits the difference as an event in the same turn; `EventSetter` hands it to
`RecordingManageModel.acceptMutation` and to the queue of external commands. Recordings
answer with events that call back into reservations (`cancel`, `updateRule`,
`addEventRelay`) and hand finished files to thumbnails and, through IPC, to the encode
queue. The EPG updater's end calls `updateAll`. The service process reaches all of this
through IPC requests; deletion and storage pressure ask IPC for the recordings in use.

The hard behaviours are: state read before an await and used after it (generation
tokens guard most, not all, of these places); the single timer of the schedule, which
is cancelled and armed from everywhere; flags of an earlier plan that feed the next
one; timeouts that race the answer they stand for; and start-up, where changes arrive
before the state they apply to was read. `PROJECT.json` lists them as hazards, each
at its line.

## 2. Modules

| Module | Models | Uses |
|---|---|---|
| `ExclusiveRight` | what the lock promises: the abstract specification | |
| `ExecutionManagement` | the lock | `ExclusiveRight` (refinement) |
| `ExecutionManagementProofs` | the lock; its refinement of `ExclusiveRight` | `ExecutionManagement`, `SequenceTheorems`, `WellFoundedInduction`, TLAPS |
| `ConflictPlan` | the tuner sweep `createReserves`, the list of candidates, the row diff, as operators; `Fits` and `Unserved` as reference definitions | |
| `Reservation` | the reservation table, the rules, `EventSetter`'s reservation handlers | `ConflictPlan` |
| `RecordingSchedule` | controller and registry | |
| `RecordingManage` | manager, recorders as their session sees them, the reservation table as input | `RecordingSchedule` |
| `EncodeQueue` | store of encode requests, encode queue and encoders, the IPC calls between them, crashes of either process | |
| `RecordedExclusion` | what leases promise: a recording in use is not being deleted (abstract specification) | |
| `RecordedUse` | request ids and leases over IPC, replacement of the service process, recording sessions, the gates of a deletion under storage pressure | `RecordedExclusion` (refinement) |
| `RecordedContent` | rows and files of recordings: prepared deletions, lock per recording, clean-up, recorder and encoder registrations | |
| `Streams` | live HLS streams: manager, id allocator, one stream with tuner, writer and files | |
| `HookCommands` | the queue of external commands, one command with its child and timers, `EventSetter`'s commands at the start, the end and the deletion of a recording's reservation | |
| `EPGUpdate` | updater process: feeds of Mirakurun and mirakc, queue of changes, marks, update cycles, polling; the programme table | |
| `RecordingSession` | one recorder from its first data to its end: registration, clean-ups, finalisation, cancel, stop for deletion, use of the recording | |
| `Thumbnails` | the thumbnail queue, one request from its preparation to its registration, deletion, clean-up, regeneration | |
| `RecordedUseProofs` | ids, leases and gates; the refinement of `RecordedExclusion` | `RecordedUse`, `SequenceTheorems`, TLAPS |
| `EPGUpdateProofs` | the feed, the guide, the reduction of a batch | `EPGUpdate`, `FiniteSetTheorems`, `SequenceTheorems`, TLAPS |
| `HookCommandsProofs` | children, held deletions, announcements | `HookCommands`, `SequenceTheorems`, TLAPS |
| `RecordedContentProofs` | protection and the lock per recording | `RecordedContent`, `SequenceTheorems`, TLAPS |
| `StreamsProofs` | resources and files of streams | `Streams`, `SequenceTheorems`, TLAPS |
| `RecordingManageProofs` | wakes and candidates of the schedule | `RecordingManage`, `SequenceTheorems`, `FiniteSetTheorems`, `WellFoundedInduction`, TLAPS |
| `EncodeInvariants` | the invariants of the encode queue and the terms of their proofs | `EncodeQueue` |
| `EncodeQueueProofs` | one job per request, outputs, ids, no request lost | `EncodeInvariants`, `SequenceTheorems`, `FiniteSetTheorems`, `WellFoundedInduction`, TLAPS |
| `MC...` | constants for TLC | |

### ExecutionManagement
A request is one call of `getExecution`. `state`, `id`, `exeQueue`, `allocationQueue`,
`lockId`, `owner` and `nextExecutionId` are the code's fields; `ticket` and `calls` are
history for the order of calls. Each of `GetExecution`, `Expire`, `UnLockExecution` and
`OwnerOverdue` is one synchronous turn including the `assignAllocationWaiters` and
`grantNext` at its end. The ids are 1..`MaxExecutionId`, which is
`Number.MAX_SAFE_INTEGER` in the program and a parameter here, so that exhaustion and
wrap are met with two ids. `ExclusiveRight` knows only pending calls, the holder and
settled calls; a call is served if none of higher priority, and none of the same
priority made earlier, is pending.

### ConflictPlan and Reservation
A row keeps what a plan depends on: programme or time, service and physical channel,
rule, and the flags. Names, save and encode options and tags are left out. The sweep is
translated with its events in order, its hand-over of tuners and its evaluation after
each single event. An operation under the lock is one action, with its conflict
re-planning, diff and write included. What the code does outside of the lock is a step
of its own: the id lists of `updateAll` (`RefreshStart`, then one step per row or rule,
then `RefreshSweep`) and the first look-up of `addEventRelay`. `updateRule` holds the
lock while the guide and the rules go on changing, so it is a reading and a writing
step. Guide, rules, history of recordings and clock change by themselves. `planned` and
`fresh` are history variables: nothing but plan-keeping steps since the last sweep, and
guide unchanged since the last `updateAll`.

### RecordingSchedule and RecordingManage
JavaScript turns matter here, so they are modelled: a queued microtask, a running
evaluation and launched session operations are finished before anything from outside
happens (`Quiet`). `candidates` carries row, generation, session token and phase;
`wake` is the coalescing flag, the microtask and the timer; `tail` is the chain of
session operations in FIFO order and `busy` the wait its first operation is in (at most
one: the chain is serial). Preparations and ends that wait for the chain sit in it as
operations without a duration. The five phases of a running recording (recording, overdue
path selection, first data, registering, overdue registration) are one phase
`Recording`, because the schedule treats them alike. A recorder is
`idle`, `preparing`, `retrying`, `recording`, `finalizing`, `reporting`, `ended`, or
`lost`: an attempt that ended without telling anybody, as `emitCancelEvent` does when its
compare-and-swap fails. `CanResume` says whether a skipped reservation may be taken back;
the run leaves it out because of the observation in section 4.
Left out: the start-up clean-up of interrupted recordings, the reset flag (the callback does nothing in this
program) and `cancel(id, false)` of the manager, which nobody calls.

### RecordingSession
One `RecorderModel` with what it owns. `session` is what its binding can see of the
schedule: the phase, whether an accepted update or a removal has overtaken the binding
(`isCurrent` and `tryTransition` then fail), and whether it was bound again since the
attempt began, so that no registration owner matches. `wait` is the closure of `doRecord`
(`firstDataObserved`, `outcomeSettled`, `cancellationPending`, the promise, the intent of
the owner); `reg` is `onData` and `addRecorded` at the await they are in, with the steps of
the clean-up still to do; `failing` is `settleFailure`, `cleaning` the single
`cleanupLifetime`; `rec` the fields of the recorder, `rec.fin` the finalisation,
`rec.tails` its continuations, `stop` the latch of a deletion. An insert is two steps, the
row and the arrival of its id, because a user may see and delete the row in between. What
the manager does with the recorder is in `calls`. An attempt that fails goes to
`RetryWaiting` and is not followed further: the next attempt is a new instance. Left out:
path selection and the opening of stream and file (the model begins when both are open),
realtime encoding, the data broadcast filter, the event relay timer, and the 60 s after
which the caller of a deletion gives up waiting.

### EncodeQueue
Two processes: `rows`, `nextId` and `tokens` are the store in the operator process,
`admit`, `encoders`, `lock`, `checks` and `timer` the manager in the service process,
`toStore` and `toService` the messages between them. `encoders` holds waiting, running
and settling encoders with their step, so `waitQueue` and `runningQueue` are subsets of
it. The store runs its operations one after the other; the answer to one is received in
the step that executes it, and a call that times out before leaves its operation behind
with nobody waiting (`CallFails`). `job` is history: whether a request was accepted and
whether it came to an end. `files` are the outputs, one per started conversion: a path is
fresh for every start, as `EncodeFileManageModel` makes sure. Assumed: waits for the
execution right do not time out, cancelling a running job ends its process in one step,
and a `list()` that nobody waits for any more has no effect. Disturbances (failed calls,
failed lists, crashes, suspensions) are counted, and the run allows fixed combinations.

### RecordedExclusion and RecordedUse
`RecordedExclusion` has a set of uses and a set of deletions that may not meet.
`RecordedUse` is the protocol behind it: in the service process `pending`, `retired`,
`retiredAcquires`, `leased`, `tokens`, `releasing`, `retiredReleases`, `waiters` and
`nextCandidate` are the maps of `IPCClient`; in the operator process `leases` and
`serviceTokens` are `ServiceChildRecordedUseRegistry`, `sessionUse` and
`recordingTokens` are `RecordingRecordedUseProvider`, `deleter` is a deletion of
`StoragePressureDeletionAdapter`. `net` holds the messages under way. When the service
process ends, its messages and its client are gone, its processes run on (`orphans`), and
its leases stay until `ServiceChildTerminationCleanup` releases them, at the latest when
its time limit is over (`capped`). The refinement maps the holders of tokens, the
sessions and the processes left behind to users.

### RecordedContent
The rows (`recorded`, `videoFiles`), the `files`, and everybody who changes them.
A request for a deletion goes through preparation, a wait for its turn in the lock of the
recording (`tails`), a second look, the unlinks one by one, the rows and the recording.
The deletion token of the code is the request itself: it is made by the preparation and
used in the commit, nowhere else. `cleaner` is `videoFileCleanup`, which calls the older
unlocked `deleteVideoFile` and `delete`. Foreign keys of the database refuse a video row
without its recording and the deletion of a recording that has video rows. `shielded`
and `swept` are history: protected before any deletion had looked for the last time, and
removed by the clean-up as unknown. Thumbnails and drop logs are left out.

### Streams
`active` is the manager's record of a stream, `session` what the stream itself is doing,
`turns` and `owners` the serialised deletions of files per id, `tuners`, `writers` and
`files` the world outside. A start runs against its deadline and against a stop; every
await is a cut. The execution right that start and stop take and return at once is one
step. There are 2^53 ids in the code; running out of them is not modelled, and a start
that finds no id in the small window of the model waits for its deadline. Left out:
streams of recordings, streams without files, keep-alive calls.

### HookCommands
`queue` is the `PromiseQueue` of the external commands with its limit, `job` a command
with its phase, its child and its three timers (deadline and the two graces after
SIGTERM and SIGKILL); `held` is `EventSetter`'s map of held deletions and `offered` the
history of what it handed over. A database that looks up the data of a command may never answer, or
answer after the command was given up; a child may never exit. The handler of the end of
a recording waits for tags and may be cut short by a refused thumbnail or encode. The
commands of one reservation at its start, end and deletion stand for all kinds.

### EPGUpdate
`server` and `db` are the programmes at the tuner server and in the database, as
version numbers; `queue`, `marks`, `syncs`, `alive` and `pending` are the fields of
`EPGUpdateManageModel` and `EPGUpdater`. The cycle runs at most once at a time; each of
its awaits is a cut, so that the feed may report, break and start again in between. With
`Product = "mirakurun"` a change is reported with its content, with `"mirakc"` the
service is marked and fetched later. A save is written whole (`SaveDone`), fails whole and
is put back (`SaveFails`), or passes over the rows that fail (`SavePartly`). `excuse` is
history: which of the EPG observations of section 4 has happened, so that `Converges` says
what holds besides. A notification that mirakc's adapter passes over is an excuse only when
the synchronisation of its connection had its answer already, and so will not see it.

### Thumbnails
`queue`, `prep`, `active` are the fields of `ThumbnailManageModel`, `req` is a request
with the number of its file name (`5.jpg`, `5(1).jpg`, ...), its child and its outcome;
`final` and `temp` are the directory and `rows` the table. The deletion of the recording
is the part of `RecordedManageModel` that deals with thumbnails; the database refuses to
delete a recording that a row refers to and a row whose recording is gone. All requests
are for one recording, because names of two recordings never meet.

## 3. Runs

| Run | Instance | Shows |
|---|---|---|
| `exec_lock` | 4 calls, 2 priorities, 2 ids | exclusion, distinct ids, no idle lock, refinement of `ExclusiveRight`, every call settles |
| `reserve_plan` | 2 tuners, of which 1 receives the satellite channel; 4 programmes on 3 physical channels, of which 2 share one; three scenarios: 3 programmes, 2 rules, 1 edit; all of them, 1 rule, 2 edits; 3, 1 rule, 2 edits and time that passes; an edit is an addition, a change or the relay | the plan fits after a sweep and through add, relay, edit and cleanup |
| `reserve_rules` | two scenarios: 2 rules on 1 programme that may move, 2 rule changes, 1 guide change; a time rule, a manual row of the same slot, a relay, failures | no rows without a live rule, skips are per programme, one rule plans a programme, decisions and manual rows are kept |
| `record` | four scenarios: 1 reservation with 2 changes and 2 failures, or 3 failures; a programme and a time-specified reservation with 1 change, or 2 failures; deletion | candidates follow the table, removed is stopped, no lost wake, what is due is dispatched |
| `recorder` | 1 recorder with a drop checker, 3 disturbances of any kind | a registration leaves all or nothing, the use covers the recording, stops, cancellations and finalisations end |
| `encode` | a user's request that removes its source and a recording's request for the same source, 5 ids that wrap, 1 slot, queue limit 1 | no request lost or taken twice, order of acceptance, finished conversions kept, every accepted request ends |
| `recorded_use` | 2 leases and a request over 2 ids, 2 service processes, 1 session, 1 deletion at a time | answers match, leases accounted for, waiting calls let in, refinement of `RecordedExclusion` (use excludes deletion) |
| `content` | 1 recording from its first byte on, an encoder and three deletions of which 2 are made, 1 clean-up, 1 change of protection, 1 failure | protection in time holds, registered files are on disk and at least one when all is quiet, every request ends |
| `streams` | 2 streams, 2 ids, files left over or not, 1 failure | nothing left of a stream that is gone, watched files kept, starts and stops answered |
| `hooks` | 1 reservation, a queue of 1 place, look-ups and children that may hang | no command is left with a child nobody signalled, held deletions are announced after the end, every command ends |
| `epg` | both products; 2 programmes or services of which 1 is near, 2 changes, 2 connections, 1 failure (of a request, of a save, or of single rows of one), 1 crash | a late synchronisation does not revive a feed, the table comes to agree with the server, changes are announced |
| `thumbnails` | 2 requests, 1 place, 1 deletion, 1 clean-up or regeneration, deletion of the recording, 1 crash | registered thumbnails keep their files, no file without a row |

Bounds. Two ids with four calls meet exhaustion, a timeout in either queue and several
wraps. In `reserve_plan` two tuners, one of which cannot receive every channel, are the
smallest case in which the sweep has a choice to make; three rows of three channels compete
for them at once, so that one is flagged; when the first row ends its tuner goes to a row
that begins then, or that row joins the other service of its channel; the relay adds a row
beside these. Time that passes, and with it the clean-up of rows that are over and the new
plan of those that are left, is a scenario of its own with fewer rows.
A cancel, and other operations that change a row without looking at all of its neighbours,
end the claim until the next sweep (section 4). Two rules on one programme are the smallest case for duplicate
plans. For the schedule, two slots give a move to earlier, to later and of the end
alone; two changes let one arrive while the other is carried out; three failures pass the
limit of two attempts. `Limits` in `Reservation` and `RecordingManage` is a set of
scenarios: a behaviour picks one at its start and keeps to its counts, so that one run asks
its question of several shapes without the product of all counts. In `recorder` three
disturbances are an update with the two things it may fall between, or a cancel, a deletion
and a failure of the database; two already meet each of the excused causes. In `encode`
the first id given out is the last one before the wrap; a crash meets every state with a
request in it, with one failed call or one suspension beside it. Two ids for three calls
make calls wait for an id, also for one that a lease or a late answer holds. In `content`
two requests of different kinds are what a race takes; the recording, its recorder and the
clean-up come on top. In `streams`, left-over files on one of two ids force the second
stream onto the id of the first. Ids, changes, failures and clock are capped by `Max...`
constants in the guards. `CHECK_DEADLOCK` is off because the caps, and in the lock the
finite set of calls, end every behaviour.

Fairness. `exec_lock`: a caller that was granted the lock releases it (every caller does
so in a `finally`); the timers have no fairness, so `EveryCallSettles` says that a call
does not need its timeout. `record`: the controller's steps and the session
operations (Node runs queued work), and the waits they are in (timers fire, and the
awaited answers have timeouts). `recorder`: the answers of the database and the ends of
streams, writers and drop checkers that were told to end, as one action; the data, the
stream and the users need do nothing. `encode`: what a running service and store do by
themselves, as one action: Node runs queued work, processes end, a dead service is
started again, suspensions end. `recorded_use`: messages are served, and holders of a
lease release it (in a `finally`, or at the end of the job). `content`: every request and
the clean-up go on. `streams`: the manager's own timers and turns and the deletions of
files go on; nothing is assumed of the tuner server, the writer process or the listing of
the directory, so `StreamsEnd` rests on the deadline. `hooks`: timers fire and the queue
goes on; nothing is assumed of look-ups and children. `epg`: the updater's cycles and
timers go on, and the server answers after at most the counted failures. Nothing is
assumed of the clock or the users anywhere.

Every property has a mutant: a change of one definition, as a plausible bug of the code
would be, under which the same run finds a violation. These operators (`Bug...`, or the
name of the definition with a suffix) stand right before the definition they replace and
are used nowhere else. The `TypeOK` of a module with proofs is proved and not a
property of a run.

## 4. Observations

Met while modelling. The models contain these behaviours; the properties say what holds
beside them, and where a property excuses one of them its comment says so.

* Reservations. Two manual time-specified rows of two services on one physical channel
  share the diff key of `createReserveKey` (`ReservationManageModel.ts:1172`), while
  `findTimeSpecification` compares services: cancelling one of them deletes nothing.
  Cancelling the first of three chained rows clears the second's conflict although the
  third, outside of the window of `createDiff` (:989), has its tuner. The conflict flag
  is part of the key that keeps a programme from being planned for two rules (:1863):
  after a cancel both rows may be planned. Between two end events of one instant a row
  can be flagged at an instant that is not part of its time (:1754). The last three heal
  with the next `updateAll`. Its pass over the rules visits existing rules only (:1236), so
  the rows of a deleted rule whose `updateRule` failed stay until they are over.
* Recordings. A reservation is skipped while it records and taken back while the old
  recorder finalises; the old recorder's finish removes the new one from the index
  (`RecordingManageModel.ts:257`), and skipping again does not stop it (`CanResume = TRUE`
  shows it as a violation of `RemovedIsStopped`). A second update while the first waits for
  an attempt to stop makes the put-back compare an old generation (`RecorderModel.ts:2805`):
  the session stays in `Preparing` and nobody prepares it. An update between the dispatch of
  a preparation or of a time-specified end and its turn drops that dispatch
  (`RecordingManageModel.ts:174`, :200).
* Recorder. `RecordingSession` calls the causes by the names in its `lost`. *missed*: the id
  of an insert arrives after an update was accepted and before the recorder is bound again;
  `ownsRegistrationState` is false, `recordedId` (or `videoFileId`) stays null, the session
  is current again when the registration ends, and the recording goes on without knowing
  its row (`RecorderModel.ts:1951`). At its end the row keeps `isRecording`, and a write
  error unlinks its file (:1481). *overwritten*: `update` builds the row with
  `isRecording` and writes it without waiting (:2841), possibly behind `removeRecording`
  (:2353). *forsaken*: the stream fails during the first insert, `settleFailure` finds no
  id to delete, and a failure of the second insert then finds the outcome settled and cleans
  nothing: the recorded row stays (:1804). *unfinished*: a failed `removeRecording`
  leaves the flag. *stuck*: a failed delete of a row is only logged. Besides: a cancel
  while the first data is awaited leaves file, writer and drop log behind (:1688); the
  failure path does not delete the row of the drop log (:1653); first data that arrive
  while an accepted update is not yet bound end the attempt without a notice (:1757); and
  a registration that fails after an update ends silently in `Registering` (:1801).
* Encodes. `list()` fails at the start of the service, a new request is converted
  meanwhile, and the retry lists its record between the end of the conversion and the
  removal of the record: the restoration takes the finished output for an interrupted one
  and deletes it (`EncodeManageModel.ts:454`). `FinishedKept` leaves out behaviours with
  failed lists for that reason.
* Recorded files. The clean-up of video files reads the table, then the directories; a file
  that a recorder or an encoder registers in between is unlinked though it is registered by
  then (`RecordedManageModel.ts:1419`). `IIPCClient.deleteVideoFile` documents
  `isIgnoreProtection` (`ipc/IIPCClient.ts:58`); `IPCServer` does not pass it on
  (`ipc/IPCServer.ts:712`), so an encoder with `removeOriginal` cannot delete the source of a
  protected recording, and `finishEncode` throws before it notifies anybody. A deletion of
  the whole recording that was asked for because a file was its last one also deletes a file
  that is registered before the commit. A recording that is protected after its recorder was
  stopped for a deletion, and before the commit, keeps `isRecording` without a recorder
  until the next start. `cleanupPendingRegistration` does not look at the protection.
* Streams. A stream that is stopped while its writer process is being made leaves the
  manager before the late writer runs; `HlsStreamIdAllocator.release` moves the cursor
  back, so its id may go to the next stream, and for a moment two writers write files of
  one id.
* EPG. Mirakurun's feed may end without an error; nobody is told, and `isEventStreamAlive`
  keeps polling away while no changes arrive (`MirakurunChangeAdapter.ts:184`). A change
  queued before a break is written after the synchronisation of the next connection, over a
  newer row (`EPGUpdateManageModel.ts:288`). A service that is reported again while its
  programmes are being saved loses the new mark with the old one (:510). mirakc's first
  notification of a connection, and those of the second after it, are passed over
  (`MirakcChangeAdapter.ts:92`); what they reported is lost if the synchronisation of the
  connection has been answered by then. `ProgramDB.update` logs a row that can neither be
  deleted, inserted nor updated, and commits the others (`db/ProgramDB.ts:342`, :350);
  `saveProgram` takes the save as done, so this change is neither put back nor marked.
  `ProgramDB.insert`, which full updates and services use, fails as a whole. `saveService`
  takes its queue out and does not put it back when the write fails (:397). The next full
  update repairs the table; while the feed is alive there is none.
* Commands. A thumbnail that is refused at the end of a recording ends the handler
  (`EventSetter.ts:254`, which a test expects): encodes, tags and the end command are left
  out, and held deletions wait for their limit.
* Thumbnails. A file name given up and taken again while the clean-up works through its list
  is unlinked although it is registered by then (`ThumbnailManageModel.ts:761`). The two
  look-ups that recognise BS4K come before the preparation and have no time limit (:196). A
  thumbnail registered while its recording is being deleted makes the database refuse the
  recording's row when its files are already gone. Temporary directories left by a crash
  stay: the clean-up unlinks only files.

## 5. Proofs

The theorems hold for every value of the constants that satisfies the assumptions: any
number of calls, reservations, recordings, streams, requests and programmes, any id space,
any limit of a queue, and any number of failures and crashes.

| Module | Theorem | States |
|---|---|---|
| `ExecutionManagementProofs` | `TypeCorrect` | `TypeOK` |
| | `Exclusive` | `MutualExclusion` |
| | `DistinctIds` | `IdsDistinct` |
| | `NoLostWakeup` | `NoIdleLock` |
| | `NoLostId` | `IdsExhausted`: a call waits for an id only while all are in use |
| | `QueuesHoldPendingCalls` | `QueuesConsistent`: the two queues hold exactly the pending calls |
| | `Refinement` | `ImplementsContract`: the lock implements `ExclusiveRight` |
| `RecordedUseProofs` | `TypeCorrect` | `TypeOK` |
| | `AnswersReachTheirCall` | `AnswersMatch` |
| | `LeasesAreAccounted` | `LeasesAccounted` |
| | `Refinement` | `ImplementsExclusion`: leases, sessions and gates implement `RecordedExclusion` |
| `EPGUpdateProofs` | `TypeCorrect` | `TypeOK` |
| | `ReductionLosesNothing` | a batch and its reduced form write the same table, whichever rows fail |
| | `AliveOnlyIfSynced` | `AliveIsSynced` |
| | `NothingIsForgotten` | `NothingForgotten`: while the feed is alive every programme is up to date, queued in its last version, or marked, unless a cause in `excuse` has occurred |
| `HookCommandsProofs` | `TypeCorrect` | `TypeOK`, with the limit of the queue |
| | `ChildrenAreSignalled` | `NoStrayChild` |
| | `HeldDeletionsFollow` | `HeldDeletionOrder` |
| | `AnnouncedOnce` | `OfferedOnce`: no event is announced twice |
| `RecordedContentProofs` | `TypeCorrect` | `TypeOK` |
| | `ProtectionHolds` | `ProtectedKept`: a recording protected in time keeps its row and the rows of its files |
| | `LockExcludes` | `OneAtWork`: one deletion at a time works on a recording |
| | `SettleInvariance` | `SettleInv`: the relations of rows, files, requests and clean-up below |
| | `ContentIsSettled` | `ContentSettles`: in the end registered files are on disk and at least one, except where the clean-up swept one |
| `StreamsProofs` | `TypeCorrect` | `TypeOK` |
| | `NothingStays` | `NothingLeft` |
| | `NobodyElseDeletes` | `WatchedFilesKept` |
| `RecordingManageProofs` | `TypeCorrect` | `TypeOK` of the schedule and the manager |
| | `NoWakeIsLost` | `NoLostWake` |
| | `RegistryFollows` | `RegistryFollowsTable` |
| `EncodeQueueProofs` | `TypeCorrect` | `TypeOK`; of `nextId` see `NextIdIsAnId` |
| | `OneJob` | `OneJobPerRequest` |
| | `NextIdIsAnId` | the next id is one of the id space, also after a restart computed it from the rows |
| | `OutputsAreApart` | `OutputInv`, as long as no `list()` fails |
| | `WorkedForOnce` | `OnceInv`, as long as no call fails: one conversion of a request at a time |
| | `FinishedIsKept` | `FinishedKept` |
| | `NoRequestIsLost` | `NoRequestLost`, if the ids suffice (`EnoughIds`) |

Theorems whose statement is no property of a run (`NothingForgotten`, `OfferedOnce`,
`OneAtWork`, `IdsExhausted`, `QueuesConsistent`, `SettleInv`, `OutputInv`, `OnceInv`, the
range of `nextId` and the types) say for every instance what
the proofs of the others rest on or what a reader would ask next.

### Assumptions

Each is a named ASSUME of the module that declares the constants and is evaluated by the
runs of that module. They fix the shape of the constants and nothing else: at least one id
and integer priorities for the lock, with a null that is no call; limits that are naturals;
a recording of each file and each call. Four say more. `EncodeAssumption` asks for one
request at least, which stands in the message of a `list()` that names none;
`ManageAssumption` asks for finitely many reservations, because start-up enumerates the
rows of the table, and for times that are naturals; `ScheduleAssumption` asks for a scan
interval above zero. `ContentAssumption` is about the names of files: the file of a
recorder is none of an encoder's, and no two requests for an encode make the same file,
because each takes a name that is free (`RecordingUtilModel.ts:263`,
`EncodeFileManageModel.ts:22`), and a file that takes the name of a deleted one counts as
another; what an encoder makes belongs to the recording whose file it read. The theorems
about recordings hold for either value of `CanResume`.

One theorem has a hypothesis of its own. `NoRequestIsLost` assumes `EnoughIds`: finitely
many requests, the square of whose number is below `MaxId`, which is 2^53 - 1 in the code.
After a restart the next id follows the widest gap between the ids of the rows
(`orderByAcceptance`). That gap has room for every request still to come only if it is wide
enough, however the rows lie, and without room an id would be given out again while its
record exists. The run's instance satisfies it (two requests, `MaxId` 5).

### Inductive invariants

None of the properties is inductive alone. Each invariant below was first checked by TLC as
an invariant of the run's instance: `EPGUpdate` with 726 516 states, `HookCommands` with
one reservation and with two (9.2 million states), `RecordedContent` with 202 464 and, for
a finished recording of two files with an encoder and three other requests, with 656 607,
`Streams` with 237 031, `RecordingManage` with 466 253, `EncodeQueue` with 402 981 and, in
a second instance with other failures, with 358 904.

* Lock. That an id is unused depends on the queue holding exactly the waiting calls, that
  the owner's id is its own depends on the ids being distinct, and that one turn assigns at
  most one id depends on ids being exhausted while a call waits; `IInv` is their
  conjunction, with types. The proof first shows what `Enqueue` and `Remove` do to the
  members of a queue and that `AllocateExecutionId` returns a free id (a minimum over a
  well-founded order), then that the two tails `GrantNext` and `AssignAllocationWaiters`
  re-establish the invariant from a state in which one id was freed or one call was queued,
  and last that each action leads into such a state. For the refinement the queue is also
  ordered: by priority, and by arrival among calls of one priority, so that its head is the
  call that the contract grants.
* Leases. An id is in one of `pending`, `retired` and `leased` at most (`IdsApart`), has at
  most one message under way, which belongs to the use of the id that the client has noted
  (`MessagesMatch`), and nobody waits for an id while one is free. From these follow
  `AnswersMatch` and, with what the registry holds (`LeaseInv`), that a token is covered by
  a lease until the client gives it back, and a process left behind until its time limit.
  `GatesMatch` ties the two gates to the deletions that run; the refinement maps holders of
  tokens, sessions and processes left behind to users, and every step to a step of
  `RecordedExclusion` or a stutter.
* Guide. `FeedInv`: the synchronisations that wait are in order and behind the one under
  way, the last one belongs to the connection there is, and a feed that is alive has none.
  `GuideInv`: of each programme the last queued change is the server's; an answer that is
  about to be written is current but for changes and marks that came since; and once the
  connection is synchronised so is the table. Both under the condition that no cause of
  section 4 has occurred (`excuse`) and the connection stands. That the put-back of a
  reduced batch keeps this is `ReductionLosesNothing`.
* Commands. The stage of a job bounds its child, timers and signals (`JobFits`); what waits
  in the queue has never run (`QueueIsFresh`), so that no step takes the job of a child that
  may live; `Announced` says, for each reservation, what has been announced in terms of its
  recording, row and held deletion.
* Recorded files. `ShieldInv`: a recording that was protected in time is past no deletion's
  last look; it needs that a plan names files of its own recording (`PlanInv`) and that a
  recording still to be registered has no row (`UpcomingInv`).
* Rows and files. `ContentSettles` says that in the end each registered file is on disk, and
  that a recording that is there has one; it leaves out recordings of which the clean-up has
  unlinked a file as unknown, because that file may be registered by then (section 4); a
  registered file that is lost in this way is therefore not caught. `SettleInv` says what holds on the
  way. Two parties delete: the deletions, one at a
  time under the lock of the recording, and the clean-up, which takes no lock. A row whose
  file is missing is in the plan of the deletion that unlinks, or of the clean-up that
  deletes a whole recording (`GuardInv`): so whoever comes across one does not delete what
  another still needs. The clean-up deletes a single row only where the file is gone
  (`SweeperInv`), and files and rows are made once: what either of them has in its plan was
  written and registered before (`PastInv`), so no row is added behind their backs. A
  recording without a row is about to get its first one, or is being deleted; the deletion
  of one file leaves the recording another, because under the lock it would otherwise have
  turned into the deletion of the whole (`LastRowInv`). A file without a row is one whose
  recorder or encoder is still to register it (`FileInv`). `EarlyInv` keeps deletions off a
  recording whose first file is not registered. Each part speaks of recordings that no
  counted failure and none of the listed races has touched (`Unharmed`), as the property
  does. That files and rows are written once is the action `Onwards`, shown of every step
  first.
* Streams. Per stream, `ActiveFits` and `SessionFits` say which steps of the start, the stop
  and the session go together; `TurnInv` that a turn belongs to a stream that waits for it
  and only the first one deletes; `OwnerInv` that a session that goes on owns the files of
  its id; `FileInv` that whoever has files, or may still write some, will delete them. The
  steps are proved in two groups: those that change one stream (`Becomes`, `FitsAfter`) and
  the turns.
* Schedule. Most steps, those of recorders and of session operations, keep row and
  generation of each candidate and add no deadline or make the controller evaluate at once;
  `KeepsSchedule` states this, and one lemma shows that it keeps everything. The others are
  changes of the table, evaluations and start-up. `WakeInv` adds to `NoLostWake` that the
  coalescing flag is up exactly while a microtask is queued. `RegistryInv` adds to
  `RegistryFollowsTable` that the last queued mutation of a reservation has its row, that a
  reservation without one is a candidate with that row (or is over), and the same of the
  mutations and rows that wait for start-up. `FailureInv` says that a failure under look-up
  has the row its session had, so that a retry does not put an old row back. The delay of
  the timer is a minimum over a well-founded order.
* Encodes. `OneName`: wherever a request is known, in the table, a message, the list of a
  restoration, an encoder or an admission, it is known by the same id; a new one is known
  nowhere. `OneAdd`: only an admission without a record sends `add`, and once, and an `add`
  that a failed call leaves behind is of a request that is over. With
  `AdmittedIsNotQueued`, the check of `isEncodeIdInUse` therefore recognises every record
  that restoration, message and retry bring again. The proof needs neither `NoRequestLost`
  nor that ids are never used again.
* Encodes, outputs. `OutputInv` holds as long as no `list()` fails: no request is admitted
  and nothing converted while the list is under way (`PhaseInv`); every path in a row or a
  message is that of an output that was begun (`PathInv`); an encoder's step says how far
  its output is, and no two encoders share one (`EncoderInv`); the output of a record that
  a restoration is still to judge is no encoder's (`TodoInv`), so what it deletes as
  interrupted is nobody's; what is registered is whole, and an original that is gone has a
  registered conversion (`KeptInv`). With failing lists `PhaseInv` is false, which is the
  observation of section 4.
* Encodes, once. That a request is converted once needs more, and that no call fails at
  all, but crashes of either process at any moment. `OnceInv`: a conversion has its record,
  and a record one conversion (`WorkInv`); what is to be restored, admitted or announced by
  a message is a record that nobody works for (`RestoreInv`, `AdmitInv`, `MessageInv`); a
  request that is not made yet, or whose record is still to be added, has no output
  (`FreshInv`); the operations that a dead service leaves behind are done before the list
  of the next one is (`LeftInv`), so that the list shows what they did; an output path and
  a removal are sent once, by the one who works for the record (`PendingInv`,
  `RemovalInv`); and a registered output is the only one of its request and the one that
  its record names (`FirstInv`), by which a restoration recognises it as done. Two lemmas
  carry most steps: one for what changes a conversion without making one (`Later`), one for
  what the store does with the operation at the head of its queue.
* Encodes, ids. `NextIdIsAnId` needs that the sort of `orderByAcceptance` lists every id
  once: `Ascending` defines it by counting, which the prover can expand, where the
  library's `SetToSortSeq` is a `CHOOSE` over permutations that it cannot; the property
  `ListOrder` still sorts with the latter, so TLC compares the two.
* Encodes, none lost. `NoRequestLost` needs that ids are not used again, and that whoever
  knows of a record says so. Whatever fails: an id is one request's and a request has one id
  (`TieInv`); the ids to be given out next are unused, which a restart keeps because the
  widest gap is no narrower than the requests to come need (`AheadInv`); an open request has
  a record, and what removes or abandons a record is of a request that is over
  (`RecordInv`); there is one list of a restoration at most (`ListInv`). As long as no call
  but `list()` failed: an `add` nobody waits for is done while the service is down or before
  its list (`BehindInv`), and from the list on each record has an encoder, an admission, a
  removal under way, a place in what is still to be restored, or a message that no list has
  seen (`CoverInv`).
  That the widest gap is wide enough is an argument about the sum of the gaps between the
  ids in ascending order.

### Only model-checked

* Liveness, and with it ENABLED, is out of the prover's reach: `EveryCallSettles`,
  `DuePrepared`, `RecordersEnd`, `EveryRequestEnds`, `WaitersLeave`, `RequestsEnd`,
  `StreamsEnd`, `CommandsEnd`, `Converges`, `ChangesAnnounced`.
* Induction over data: `PlanFits` is about the sweep of `createReserves`, a fold over a
  list of events. `ListOrder` compares the spans between ids with the size of the id space;
  that the ids in use stay closer together than half of it follows from `MaxId` being large
  against their number, which is no assumption of the module.
* The rest of `Reservation` (`NoOrphanRows`, `SkipIsPerProgram`, `OneRulePlansProgram`,
  `DecisionsKept`, `ManualRowsKept`): these rest on distinct rows having distinct diff keys,
  which is no invariant of the code (section 4: a relay's row and the rule's own row, or two
  services of one physical channel at one time). They hold of the scenarios of the runs; a
  theorem needs the scenarios' shape as a hypothesis.
* `RemovedIsStopped` is false with `CanResume` (section 4).
* `FilesMatchRows`, `NothingHalfRecorded` and `UseCoversRecording` have no proof yet: each
  excuses causes that its history variable records, and an invariant has to say of every
  step how far the excuse reaches.

## 6. Plan

Done: all modules of section 2. Left, in this order:

1. Proofs: `RemovedIsStopped` with `CanResume` false; the reservation properties under
   distinct diff keys.
2. `UseCoversRecording` of the recorder and `FilesMatchRows` of the thumbnails, which need
   an account of the causes in their history variables.
3. Models that are still missing: the queue of rule changes with its 10 s advance, the
   clean-up of interrupted recordings at start-up, upload (admission and adoption), streams
   of recordings, the preparation of a recorder (path selection, retries), the snapshots of
   recordings in use asked for over IPC.

### Not modelled

Not planned: the web client, HTTP routes and formatting, database entities, migrations and
SQL, configuration, logging, the migration tools, device and snapshot test scripts, stream
buffers, tags, and notifications, which keep no state that another part reads. These are
most of the repository's lines (the client, the tests and the tools alone are the larger
half), so the share of all lines that the map covers stays small even where a component is
modelled whole: the models cover the coordination of the three processes, not the text of
the program.
