---------------------------- MODULE EncodeQueue ----------------------------
(***************************************************************************)
(* The encode queue: EncodeManageModel and its EncoderModels in the service *)
(* process, EncodeQueueStore in the operator process, and the IPC channel   *)
(* between them.                                                            *)
(*                                                                          *)
(* The store runs its operations one after the other, so an operation is    *)
(* one step (StoreStep) of the FIFO `toStore`, and its answer is received   *)
(* in that step.  A call that times out goes on without the answer while    *)
(* its operation stays in the queue.  The awaits of the manager are the     *)
(* places where its methods are cut; the execution right it takes           *)
(* (ExecutionManagement) is `lock`.                                         *)
(***************************************************************************)
EXTENDS Naturals, FiniteSets, Sequences, SequencesExt, FiniteSetsExt

CONSTANTS
    Requests,           \* encode requests, each made once
    FromRecording,      \* the ones made by a finished recording (enqueueFromRecording)
    SourceOf,           \* request -> the video file it converts
    RemoveOriginal,     \* the requests with removeOriginal
    MaxId,              \* the last encode id (Number.MAX_SAFE_INTEGER)
    FirstIds,           \* what nextId may be when the behaviour begins
    concurrentEncodeNum,
    encodeQueueLimit,
    Disturbances        \* bound: a set of functions kind -> count, the disturbances that
                        \* may come together ("fault": IPC timeouts, database errors, refused
                        \* leases; "list": failed list() calls; "crash"; "suspend": times of
                        \* encodeSuspendTimes; "starts": conversions that are started)

ASSUME EncodeAssumption ==
    /\ Requests # {} /\ FromRecording \subseteq Requests /\ RemoveOriginal \subseteq Requests
    /\ concurrentEncodeNum \in Nat \ {0} /\ encodeQueueLimit \in Nat \ {0}
    /\ MaxId \in Nat \ {0} /\ FirstIds \subseteq 1 .. MaxId

VARIABLES
    rows,               \* table encode_queue in the order of insertion: [id, req, out]
    nextId,             \* EncodeQueueStore.nextId
    tokens,             \* requestTokens: the set of [req, id]
    toStore,            \* operations sent to the store: [op, id, req, out, by]
    toService,          \* pushEncode messages: [id, req]
    up,                 \* whether the service process runs
    restoring,          \* "off", "listing", "restoring", or "retry" while its timer runs
    todo,               \* listed records that are still to be restored
    listed,             \* listedEncodeIds
    admit,              \* request -> [step, id] of its admit() call
    encoders,           \* waitQueue, runningQueue and the encoders being settled, oldest first
    lock,               \* the owner of the execution right, or Free
    checks,             \* checkQueue calls that wait for the execution right
    suspended,          \* whether it is a time of encodeSuspendTimes
    timer,              \* suspendResumeTimer
    leases,             \* leases on recordings this service holds
    sources,            \* the video files that exist
    files,              \* the output files, in the order of their starts: [req, state, registered]
    faults,             \* kind of disturbance -> how many there were
    job                 \* history: request -> "new"; "open" once accepted; "over" once refused
                        \* or once the removal of its record is asked for

store == <<rows, nextId, tokens>>
restoration == <<restoring, todo, listed>>
wake == <<checks, suspended, timer>>
disk == <<sources, files>>
vars == <<store, toStore, toService, up, restoration, admit, encoders, lock,
          wake, leases, disk, faults, job>>

Free == <<"free", 0>>
NoPath == 0
Idle == [step |-> "none", id |-> 0]
Sources == {SourceOf[r] : r \in Requests}
Ids == 1 .. MaxId
Bounded(f) == \E d \in Disturbances : \A k \in DOMAIN f : f[k] <= d[k]
Disturb(kind) ==
    /\ faults' = [faults EXCEPT ![kind] = @ + 1]
    /\ Bounded(faults')
Fault == Disturb("fault")

-----------------------------------------------------------------------------
(* EncodeQueueStore. *)

\* advance: the id after MaxId is 1.
Advance(id) == IF id = MaxId THEN 1 ELSE id + 1

\* What separates an id from the one before it; the first one follows the last.
GapBefore(sorted, i) ==
    IF i = 1 THEN MaxId - Last(sorted) + sorted[1] ELSE sorted[i] - sorted[i - 1]

\* The ids in ascending order: in place i the one that i of them do not exceed.
Ascending(S) ==
    [i \in 1 .. Cardinality(S) |-> CHOOSE x \in S : Cardinality({y \in S : y <= x}) = i]

\* Variant: they are left so.
OrderByAcceptance_Ascending(S) == Ascending(S)

\* orderByAcceptance: begin after the largest gap; the wrap-around wins a tie.
OrderByAcceptance(S) ==
    LET sorted == Ascending(S)
        largest == Max({GapBefore(sorted, i) : i \in 1 .. Len(sorted)})
        start == Min({i \in 1 .. Len(sorted) : GapBefore(sorted, i) = largest})
    IN  IF Len(sorted) <= 1 THEN sorted
        ELSE SubSeq(sorted, start, Len(sorted)) \o SubSeq(sorted, 1, start - 1)

RowIds == {rows[i].id : i \in DOMAIN rows}

\* load: what nextId is after the table has been read.
LoadedNextId == IF rows = <<>> THEN 1 ELSE Advance(Last(OrderByAcceptance(RowIds)))

\* The first id from nextId on, going round, that no row has; without one addRecord goes on
\* looking for ever.
Distance(id) == (id + MaxId - nextId) % MaxId
IsNextFree(id) == id \notin RowIds /\ \A other \in Ids \ RowIds : Distance(id) <= Distance(other)

\* addRecord(r) with the id it finds: insertOnce, then the new nextId.
AddRecord(r, id) ==
    /\ IsNextFree(id)
    /\ rows' = Append(rows, [id |-> id, req |-> r, out |-> NoPath])
    /\ nextId' = Advance(id)

\* deleteRecord: the row and the tokens that name it.
DeleteRecord(id) ==
    /\ \/ id \notin RowIds /\ UNCHANGED rows
       \/ \E k \in DOMAIN rows : rows[k].id = id /\ rows' = RemoveAt(rows, k)
    /\ tokens' = {t \in tokens : t.id # id}
    /\ UNCHANGED nextId

\* list: copies of the records in the order of their acceptance.
InOrderOfAcceptance(records) ==
    \A i \in DOMAIN rows : records[i].id = OrderByAcceptance(RowIds)[i]
ListedRecords == {records \in [DOMAIN rows -> Range(rows)] : InOrderOfAcceptance(records)}

Op(op, id, r, out, by) == [op |-> op, id |-> id, req |-> r, out |-> out, by |-> by]
Send(op) == toStore' = Append(toStore, op)

-----------------------------------------------------------------------------
(* The queues of EncodeManageModel. *)

Waiting == {i \in DOMAIN encoders : encoders[i].step = "wait"}
Running == {i \in DOMAIN encoders : encoders[i].step \in {"starting", "spawning", "started", "exited", "startFailed"}}
Queued == Waiting \cup Running
Reservations == {r \in Requests : admit[r].step \in {"lock", "lease", "adding"}}
FreeSlots == IF concurrentEncodeNum > Cardinality(Running) THEN concurrentEncodeNum - Cardinality(Running) ELSE 0

\* admit: admissionReservations + waitQueue.length against encodeQueueLimit.
IsFull == Cardinality(Reservations) + Cardinality(Waiting) >= encodeQueueLimit

\* Variant: running requests are forgotten.
InUse_WaitingOnly(id) == \E i \in Waiting : encoders[i].id = id

\* isEncodeIdInUse.
InUse(id) ==
    \/ \E i \in Queued : encoders[i].id = id
    \/ \E r \in FromRecording : admit[r].step # "none" /\ admit[r].id = id

NewEncoder(id, r) == [id |-> id, req |-> r, step |-> "wait", file |-> NoPath,
                      settle |-> "none", wakes |-> FALSE]
WithoutEncoder(i) == encoders' = RemoveAt(encoders, i)
StepEncoder(i, step) == encoders' = [encoders EXCEPT ![i].step = step]

\* emitNeedsCheckQueue, n times, when `waiting` requests wait: requestCheckQueue.
Emit(n, waiting) ==
    /\ checks' = IF suspended THEN checks ELSE checks + n
    /\ timer' = (timer \/ (suspended /\ n > 0 /\ waiting > 0))
    /\ UNCHANGED suspended

-----------------------------------------------------------------------------
(* Admission: push, pushPersisted, admit, addRecord. *)

\* push waits for a restoration that runs; a full queue refuses it.
PushEnter(r) ==
    /\ up /\ restoring \in {"off", "retry"} /\ r \notin FromRecording /\ job[r] = "new"
    /\ admit[r] = Idle
    /\ IF IsFull THEN job' = [job EXCEPT ![r] = "over"] /\ UNCHANGED admit
       ELSE admit' = [admit EXCEPT ![r].step = "lock"] /\ UNCHANGED job
    /\ UNCHANGED <<store, toStore, toService, up, restoration, encoders, lock, wake,
                   leases, disk, faults>>

\* Variant: pushEncode is sent only to a service that restores nothing.
EnqueueFromRecording_SendWhenIdle(r) ==
    /\ r \in FromRecording /\ job[r] = "new"
    /\ job' = [job EXCEPT ![r] = "open"]
    /\ \E id \in Ids :
          /\ AddRecord(r, id) /\ UNCHANGED tokens
          /\ toService' = IF up /\ restoring = "off"
                          THEN Append(toService, [id |-> id, req |-> r]) ELSE toService
    /\ UNCHANGED <<toStore, up, restoration, admit, encoders, lock, wake, leases, disk, faults>>

\* enqueueFromRecording: the record is kept, then pushEncode is sent to a service that runs.
EnqueueFromRecording(r) ==
    /\ r \in FromRecording /\ job[r] = "new"
    /\ job' = [job EXCEPT ![r] = "open"]
    /\ \E id \in Ids :
          /\ AddRecord(r, id) /\ UNCHANGED tokens
          /\ toService' = IF up THEN Append(toService, [id |-> id, req |-> r]) ELSE toService
    /\ UNCHANGED <<toStore, up, restoration, admit, encoders, lock, wake, leases, disk, faults>>

\* pushPersisted: what the queue or a list already has is not taken on again.
HandOver ==
    /\ up /\ restoring \in {"off", "retry"} /\ toService # <<>>
    /\ LET m == Head(toService) IN
       \/ /\ InUse(m.id) \/ m.id \in listed
          /\ UNCHANGED <<admit, toStore, job>>
       \/ /\ ~InUse(m.id) /\ m.id \notin listed /\ IsFull
          /\ admit' = [admit EXCEPT ![m.req] = [step |-> "rejecting", id |-> m.id]]
          /\ Send(Op("remove", m.id, m.req, NoPath, "admit"))
          /\ job' = [job EXCEPT ![m.req] = "over"]
       \/ /\ ~InUse(m.id) /\ m.id \notin listed /\ ~IsFull
          /\ admit' = [admit EXCEPT ![m.req] = [step |-> "lock", id |-> m.id]]
          /\ UNCHANGED <<toStore, job>>
    /\ toService' = Tail(toService)
    /\ UNCHANGED <<store, up, restoration, encoders, lock, wake, leases, disk, faults>>

TakeLock(r) ==
    /\ admit[r].step = "lock" /\ lock = Free
    /\ lock' = <<"admit", r>>
    /\ admit' = [admit EXCEPT ![r].step = "lease"]
    /\ UNCHANGED <<store, toStore, toService, up, restoration, encoders, wake, leases, disk, faults, job>>

\* waitQueue.push, the end of the reservation and of the execution right, the check.
Enqueue(r, id) ==
    /\ encoders' = Append(encoders, NewEncoder(id, r))
    /\ admit' = [admit EXCEPT ![r] = Idle]
    /\ lock' = Free
    /\ Emit(1, Cardinality(Waiting) + 1)

\* The lease is granted; a persisted request has its id, another one is recorded first.
Acquire(r) ==
    /\ admit[r].step = "lease"
    /\ leases' = leases + 1
    /\ IF r \in FromRecording
       THEN Enqueue(r, admit[r].id) /\ UNCHANGED toStore
       ELSE /\ admit' = [admit EXCEPT ![r].step = "adding"]
            /\ Send(Op("add", 0, r, NoPath, "admit"))
            /\ UNCHANGED <<encoders, lock, wake>>
    /\ UNCHANGED <<store, toService, up, restoration, disk, faults, job>>

\* The lease is refused: admit fails, and pushPersisted removes the record.
AcquireRefused(r) ==
    /\ admit[r].step = "lease" /\ Fault
    /\ lock' = Free
    /\ IF r \in FromRecording
       THEN /\ admit' = [admit EXCEPT ![r].step = "rejecting"]
            /\ Send(Op("remove", admit[r].id, r, NoPath, "admit"))
       ELSE /\ admit' = [admit EXCEPT ![r] = Idle]
            /\ UNCHANGED toStore
    /\ job' = [job EXCEPT ![r] = "over"]
    /\ UNCHANGED <<store, toService, up, restoration, encoders, wake, leases, disk>>

-----------------------------------------------------------------------------
(* What the caller of an operation does next, with the rest of the queue.   *)

\* add answers: the encoder is made and queued.
AddAnswered(r, id) ==
    /\ Enqueue(r, id)
    /\ job' = [job EXCEPT ![r] = "open"]
    /\ UNCHANGED <<leases, restoration>>

\* add fails: abandon is sent and not awaited, the lease is released.
AddFailed(r, rest) ==
    /\ toStore' = Append(rest, Op("abandon", 0, r, NoPath, "nobody"))
    /\ admit' = [admit EXCEPT ![r] = Idle]
    /\ lock' = Free
    /\ leases' = leases - 1
    /\ job' = [job EXCEPT ![r] = "over"]
    /\ UNCHANGED <<encoders, restoration, wake>>

\* updateOutputPath answers or fails: start goes on to spawn the process.
OutputRecorded(id) ==
    /\ encoders' = [i \in DOMAIN encoders |->
                       IF encoders[i].id = id /\ encoders[i].step = "starting"
                       THEN [encoders[i] EXCEPT !.step = "spawning"] ELSE encoders[i]]
    /\ UNCHANGED <<admit, lock, wake, leases, restoration, job>>

\* removeRecord returns to pushPersisted.
RejectionDone(r) ==
    /\ admit' = [admit EXCEPT ![r] = Idle]
    /\ UNCHANGED <<encoders, lock, wake, leases, restoration, job>>

\* removeRecord returns to releaseRecordedUseForEncoder: the lease is released, a
\* canceled request gives the execution right back, a failed start looks for the next one.
EncoderDone(id) ==
    \E i \in DOMAIN encoders :
        /\ encoders[i].id = id /\ encoders[i].step = "removing"
        /\ WithoutEncoder(i)
        /\ leases' = leases - 1
        /\ lock' = IF lock = <<"cancel", id>> THEN Free ELSE lock
        /\ IF encoders[i].wakes THEN Emit(1, Cardinality(Waiting)) ELSE UNCHANGED wake
        /\ UNCHANGED <<admit, restoration, job>>

\* list answers: the records are noted and restored one after the other.
Listed ==
    /\ restoring' = "restoring"
    /\ todo' \in ListedRecords
    /\ listed' = listed \cup RowIds
    /\ UNCHANGED <<admit, encoders, lock, wake, leases, job>>

\* list fails: whoever waits for the restoration goes on, and a timer tries again.
ListFailed ==
    /\ restoring' = "retry"
    /\ UNCHANGED <<todo, listed, admit, encoders, lock, wake, leases, job>>

NobodyWaits == UNCHANGED <<admit, encoders, lock, wake, leases, restoration, job>>

\* removeRecord of a restoration: it goes on with the next record.
Returned(op) ==
    CASE op.op = "output" /\ op.by = "encoder" -> OutputRecorded(op.id)
      [] op.op = "remove" /\ op.by = "encoder" -> EncoderDone(op.id)
      [] op.op = "remove" /\ op.by = "admit" -> RejectionDone(op.req)
      [] OTHER -> NobodyWaits

\* EncodeQueueStore.run: the oldest operation is done and answered.
StoreStep ==
    /\ toStore # <<>>
    /\ toStore' = Tail(toStore)
    /\ LET op == Head(toStore) IN
       \/ /\ op.op = "add"
          /\ \E id \in Ids :
                /\ AddRecord(op.req, id)
                /\ tokens' = tokens \cup {[req |-> op.req, id |-> id]}
                /\ IF op.by = "admit" THEN AddAnswered(op.req, id) ELSE NobodyWaits
       \/ /\ op.op = "abandon"
          /\ IF \E t \in tokens : t.req = op.req
             THEN DeleteRecord((CHOOSE t \in tokens : t.req = op.req).id)
             ELSE UNCHANGED store
          /\ NobodyWaits
       \/ /\ op.op = "output"
          /\ rows' = [i \in DOMAIN rows |->
                         IF rows[i].id = op.id THEN [rows[i] EXCEPT !.out = op.out] ELSE rows[i]]
          /\ UNCHANGED <<nextId, tokens>>
          /\ Returned(op)
       \/ op.op = "remove" /\ DeleteRecord(op.id) /\ Returned(op)
       \/ /\ op.op = "list"
          /\ IF op.by = "restore" THEN Listed ELSE NobodyWaits
          /\ UNCHANGED store
    /\ UNCHANGED <<toService, up, disk, faults>>

\* The database refuses the oldest operation, or the answer to the i-th one does not
\* come in time: the operation is dropped, or it stays with nobody waiting for it (a list
\* that nobody waits for has no effect, so it is dropped).
CallFails(i, dropped) ==
    /\ i \in DOMAIN toStore
    /\ dropped => i = 1
    /\ toStore[i].op = "list" => dropped
    /\ LET op == toStore[i]
           rest == IF dropped THEN Tail(toStore) ELSE [toStore EXCEPT ![i].by = "nobody"]
       IN  /\ ~dropped => op.by # "nobody"
           /\ IF op.op = "list" THEN Disturb("list") ELSE Fault
           /\ \/ op.op = "add" /\ op.by = "admit" /\ AddFailed(op.req, rest)
              \/ op.op = "list" /\ op.by = "restore" /\ ListFailed /\ toStore' = rest
              \/ ~(op.op = "add" /\ op.by = "admit") /\ op.op # "list" /\ Returned(op) /\ toStore' = rest
    /\ UNCHANGED <<store, toService, up, disk>>

-----------------------------------------------------------------------------
(* checkQueue and EncoderModel.start. *)

CheckQueue ==
    /\ up /\ checks > 0 /\ lock = Free
    /\ checks' = checks - 1
    /\ IF FreeSlots = 0 \/ Waiting = {}
       THEN UNCHANGED <<encoders, lock, toStore, files, faults>>
       ELSE LET i == Min(Waiting)
                e == encoders[i]
                others == RemoveAt(encoders, i)
                started == [e EXCEPT !.step = "starting", !.file = Len(files) + 1]
                failed == [e EXCEPT !.step = "startFailed", !.wakes = TRUE]
            IN  IF SourceOf[e.req] \notin sources
                THEN /\ encoders' = Append(others, failed)
                     /\ UNCHANGED <<lock, toStore, files, faults>>
                ELSE /\ Disturb("starts")
                     /\ encoders' = Append(others, started)
                     /\ lock' = <<"start", e.id>>
                     /\ files' = Append(files, [req |-> e.req, state |-> "none", registered |-> FALSE])
                     /\ Send(Op("output", e.id, e.req, Len(files) + 1, "encoder"))
    /\ UNCHANGED <<store, toService, up, restoration, admit, suspended, timer, leases, sources, job>>

\* createManaged: the process runs and the execution right is given back.
StartDone(i) ==
    /\ encoders[i].step = "spawning"
    /\ StepEncoder(i, "started")
    /\ files' = [files EXCEPT ![encoders[i].file].state = "partial"]
    /\ lock' = Free
    /\ UNCHANGED <<store, toStore, toService, up, restoration, admit, wake, leases, sources, faults, job>>

\* createManaged fails: checkQueue settles the request as it does a finished one.
StartFails(i) ==
    /\ encoders[i].step = "spawning" /\ Fault
    /\ encoders' = [encoders EXCEPT ![i].step = "startFailed", ![i].wakes = TRUE]
    /\ lock' = Free
    /\ UNCHANGED <<store, toStore, toService, up, restoration, admit, wake, leases, disk, job>>

-----------------------------------------------------------------------------
(* The end of a conversion: childEndProcessing, onFinish, finish, finishEncode. *)

\* hasSamVideoFileIdItem: another request of the queues converts the same file.
SourceStillQueued(i) ==
    \E k \in Queued : encoders[k].id # encoders[i].id
                      /\ SourceOf[encoders[k].req] = SourceOf[encoders[i].req]

\* The process ends well; createFinishEncodeInfo decides about the original here.
ExitWell(i) ==
    /\ encoders[i].step = "started"
    /\ files' = [files EXCEPT ![encoders[i].file].state = "whole"]
    /\ encoders' = [encoders EXCEPT ![i].step = "exited",
                        ![i].settle = IF encoders[i].req \in RemoveOriginal /\ ~SourceStillQueued(i)
                                      THEN "registerAndDelete" ELSE "register"]
    /\ UNCHANGED <<store, toStore, toService, up, restoration, admit, lock, wake, leases,
                   sources, faults, job>>

\* The process fails: its output is deleted.
ExitBadly(i) ==
    /\ encoders[i].step = "started"
    /\ files' = [files EXCEPT ![encoders[i].file].state = "none"]
    /\ StepEncoder(i, "exited")
    /\ UNCHANGED <<store, toStore, toService, up, restoration, admit, lock, wake, leases,
                   sources, faults, job>>

\* finishEncode: addVideoFile, which may fail; then the original is deleted or not.
Register(i, ok) ==
    /\ encoders[i].settle \in {"register", "registerAndDelete"}
    /\ IF ok THEN /\ files' = [files EXCEPT ![encoders[i].file].registered = TRUE]
                  /\ UNCHANGED faults
             ELSE Fault /\ UNCHANGED files
    /\ encoders' = [encoders EXCEPT ![i].settle =
                       IF ok /\ encoders[i].settle = "registerAndDelete" THEN "delete" ELSE "none"]
    /\ UNCHANGED <<store, toStore, toService, up, restoration, admit, lock, wake, leases, sources, job>>

DeleteOriginal(i) ==
    /\ encoders[i].settle = "delete"
    /\ sources' = sources \ {SourceOf[encoders[i].req]}
    /\ encoders' = [encoders EXCEPT ![i].settle = "none"]
    /\ UNCHANGED <<store, toStore, toService, up, restoration, admit, lock, wake, leases,
                   files, faults, job>>

\* finalize: off the running queue, and the check for the next request.
Finalize(i) ==
    /\ encoders[i].step \in {"exited", "startFailed"} /\ lock = Free
    /\ StepEncoder(i, "out")
    /\ IF encoders[i].wakes THEN UNCHANGED wake ELSE Emit(1, Cardinality(Waiting))
    /\ UNCHANGED <<store, toStore, toService, up, restoration, admit, lock, leases, disk, faults, job>>

\* releaseRecordedUseForEncoder, once finalize and the settlement are over.
ReleaseEncoder(i) ==
    /\ encoders[i].step = "out" /\ encoders[i].settle = "none"
    /\ StepEncoder(i, "removing")
    /\ Send(Op("remove", encoders[i].id, encoders[i].req, NoPath, "encoder"))
    /\ job' = [job EXCEPT ![encoders[i].req] = "over"]
    /\ UNCHANGED <<store, toService, up, restoration, admit, lock, wake, leases, disk, faults>>

\* cancel: a running process is stopped; a waiting request leaves the queue at once and
\* the execution right is kept until its record and its lease are gone.
CancelRunning(i) == restoring \in {"off", "retry"} /\ lock = Free /\ ExitBadly(i)
CancelWaiting(i) ==
    /\ restoring \in {"off", "retry"} /\ lock = Free
    /\ encoders[i].step = "wait"
    /\ encoders' = [encoders EXCEPT ![i].step = "removing", ![i].wakes = TRUE]
    /\ lock' = <<"cancel", encoders[i].id>>
    /\ Send(Op("remove", encoders[i].id, encoders[i].req, NoPath, "encoder"))
    /\ job' = [job EXCEPT ![encoders[i].req] = "over"]
    /\ UNCHANGED <<store, toService, up, restoration, admit, wake, leases, disk, faults>>

\* scheduleSuspendResume: one check for each free slot that has a request.
TimerFires ==
    /\ up /\ timer
    /\ LET n == Min({FreeSlots, Cardinality(Waiting)}) IN
       /\ checks' = IF suspended THEN checks ELSE checks + n
       /\ timer' = (suspended /\ n > 0)
    /\ UNCHANGED <<store, toStore, toService, up, restoration, admit, encoders, lock,
                   suspended, leases, disk, faults, job>>

SuspendBegins ==
    /\ ~suspended /\ Disturb("suspend")
    /\ suspended' = TRUE
    /\ UNCHANGED <<store, toStore, toService, up, restoration, admit, encoders, lock,
                   checks, timer, leases, disk, job>>

SuspendEnds ==
    /\ suspended /\ suspended' = FALSE
    /\ UNCHANGED <<store, toStore, toService, up, restoration, admit, encoders, lock,
                   checks, timer, leases, disk, faults, job>>

-----------------------------------------------------------------------------
(* restore, restoreRecords, restoreRecord, judgeRestorableRecord. *)

StartRestoration ==
    /\ restoring' = "listing"
    /\ Send(Op("list", 0, CHOOSE r \in Requests : TRUE, NoPath, "restore"))
    /\ UNCHANGED <<todo, listed>>

ServiceStart ==
    /\ ~up /\ up' = TRUE
    /\ StartRestoration
    /\ UNCHANGED <<store, toService, admit, encoders, lock, wake, leases, disk, faults, job>>

\* restoreRetryTimer fires.
RetryList ==
    /\ restoring = "retry" 
    /\ StartRestoration
    /\ UNCHANGED <<store, toService, up, admit, encoders, lock, wake, leases, disk, faults, job>>

\* Variant: the output path of the record is not looked at.
Restorable_AnyOutput(record) == SourceOf[record.req] \in sources

Restorable(record) ==
    /\ SourceOf[record.req] \in sources
    /\ record.out # NoPath => ~files[record.out].registered

RestoreReady == restoring = "restoring" /\ todo # <<>>
                /\ \A i \in DOMAIN toStore : toStore[i].by # "restore"

\* The record is in use, or it is judged: gone or converted already, its record is
\* removed; otherwise an interrupted output is deleted and the request waits again.
RestoreNext ==
    /\ RestoreReady
    /\ todo' = Tail(todo)
    /\ LET record == Head(todo) IN
       \/ /\ InUse(record.id)
          /\ UNCHANGED <<toStore, encoders, leases, files, job>>
       \/ /\ ~InUse(record.id) /\ ~Restorable(record)
          /\ Send(Op("remove", record.id, record.req, NoPath, "restore"))
          /\ job' = [job EXCEPT ![record.req] = "over"]
          /\ UNCHANGED <<encoders, leases, files>>
       \/ /\ ~InUse(record.id) /\ Restorable(record)
          /\ files' = IF record.out = NoPath THEN files
                      ELSE [files EXCEPT ![record.out].state = "none"]
          /\ leases' = leases + 1
          /\ encoders' = Append(encoders, NewEncoder(record.id, record.req))
          /\ UNCHANGED <<toStore, job>>
    /\ UNCHANGED <<store, toService, up, restoring, listed, admit, lock, wake, sources, faults>>

\* The lease is refused, and the record is removed; or a read fails, and it is left.
RestoreNextFails ==
    /\ RestoreReady /\ Fault
    /\ todo' = Tail(todo)
    /\ LET record == Head(todo) IN
       /\ ~InUse(record.id)
       /\ \/ /\ Restorable(record)
             /\ Send(Op("remove", record.id, record.req, NoPath, "restore"))
             /\ files' = IF record.out = NoPath THEN files
                         ELSE [files EXCEPT ![record.out].state = "none"]
             /\ job' = [job EXCEPT ![record.req] = "over"]
          \/ UNCHANGED <<toStore, files, job>>
    /\ UNCHANGED <<store, toService, up, restoring, listed, admit, encoders, lock, wake, leases, sources>>

\* Variant: the restoration asks for no check.
RestoreEnd_NoCheck ==
    /\ restoring = "restoring" /\ todo = <<>>
    /\ \A i \in DOMAIN toStore : toStore[i].by # "restore"
    /\ restoring' = "off"
    /\ UNCHANGED <<store, toStore, toService, up, todo, listed, admit, encoders, lock, wake, leases,
                   disk, faults, job>>

RestoreEnd ==
    /\ restoring = "restoring" /\ todo = <<>>
    /\ \A i \in DOMAIN toStore : toStore[i].by # "restore"
    /\ restoring' = "off"
    /\ Emit(Min({FreeSlots, Cardinality(Waiting)}), Cardinality(Waiting))
    /\ UNCHANGED <<store, toStore, toService, up, todo, listed, admit, encoders, lock, leases,
                   disk, faults, job>>

-----------------------------------------------------------------------------
(* Crashes. *)

\* ServiceChildTerminationCleanup: the outputs of the conversions that ran are deleted
\* by the rule of the restoration.
CleanedFiles ==
    [f \in DOMAIN files |->
        IF \E i \in DOMAIN encoders :
              /\ encoders[i].step = "started" /\ encoders[i].file = f
              /\ \E row \in Range(rows) : row.id = encoders[i].id /\ row.out = f
              /\ SourceOf[encoders[i].req] \in sources /\ ~files[f].registered
        THEN [files[f] EXCEPT !.state = "none"] ELSE files[f]]

ServiceGone ==
    /\ up /\ Disturb("crash")
    /\ up' = FALSE
    /\ restoring' = "off" /\ todo' = <<>> /\ listed' = {}
    /\ admit' = [r \in Requests |-> Idle]
    /\ job' = [r \in Requests |-> IF r \notin FromRecording /\ admit[r] # Idle THEN "over" ELSE job[r]]
    /\ encoders' = <<>> /\ lock' = Free /\ checks' = 0 /\ timer' = FALSE /\ leases' = 0
    /\ toService' = <<>>
    /\ UNCHANGED <<suspended, sources>>

\* The first n operations have reached the store.
ServiceCrash(n) ==
    /\ ServiceGone
    /\ n \in 0 .. Len(toStore)
    /\ toStore' = [i \in 1 .. n |-> [toStore[i] EXCEPT !.by = "nobody"]]
    /\ files' = CleanedFiles
    /\ UNCHANGED store

\* The operator process ends too; its store is read again at the next start.
WholeCrash ==
    /\ ServiceGone
    /\ toStore' = <<>>
    /\ tokens' = {} /\ nextId' = LoadedNextId
    /\ UNCHANGED <<rows, files>>

-----------------------------------------------------------------------------

Init ==
    /\ rows = <<>> /\ nextId \in FirstIds /\ tokens = {}
    /\ toStore = <<>> /\ toService = <<>>
    /\ up = FALSE /\ restoring = "off" /\ todo = <<>> /\ listed = {}
    /\ admit = [r \in Requests |-> Idle]
    /\ encoders = <<>> /\ lock = Free
    /\ checks = 0 /\ suspended = FALSE /\ timer = FALSE
    /\ leases = 0 /\ sources = Sources /\ files = <<>>
    /\ faults = [fault |-> 0, list |-> 0, crash |-> 0, suspend |-> 0, starts |-> 0]
    /\ job = [r \in Requests |-> "new"]

\* What a running system goes on doing by itself.
Progress ==
    \/ \E r \in Requests : TakeLock(r) \/ Acquire(r)
    \/ HandOver \/ StoreStep \/ CheckQueue \/ TimerFires \/ SuspendEnds
    \/ ServiceStart \/ RetryList \/ RestoreNext \/ RestoreEnd
    \/ \E i \in DOMAIN encoders :
          \/ StartDone(i) \/ ExitWell(i) \/ ExitBadly(i) \/ Register(i, TRUE)
          \/ DeleteOriginal(i) \/ Finalize(i) \/ ReleaseEncoder(i)

Environment ==
    \/ \E r \in Requests : PushEnter(r) \/ EnqueueFromRecording(r) \/ AcquireRefused(r)
    \/ \E i \in DOMAIN toStore, dropped \in BOOLEAN : CallFails(i, dropped)
    \/ \E i \in DOMAIN encoders :
          StartFails(i) \/ Register(i, FALSE) \/ CancelRunning(i) \/ CancelWaiting(i)
    \/ SuspendBegins \/ RestoreNextFails
    \/ \E n \in 0 .. Len(toStore) : ServiceCrash(n)
    \/ WholeCrash

Next == Progress \/ Environment

Spec == Init /\ [][Next]_vars

\* The service goes on by itself while it runs; encodeSuspendTimes end.
FairSpec == Spec /\ WF_vars(Progress)

-----------------------------------------------------------------------------
(* Properties. *)

\* A request is never in the queues twice, though restore(), pushEncode messages and
\* retries of the restoration bring the same record more than once.
OneJobPerRequest ==
    \A i, k \in Queued : encoders[i].req = encoders[k].req => i = k

\* No request is lost. One that was accepted is in the database until it comes to an
\* end, over every crash and error path; and once the restoration is over the service
\* knows every record: nothing falls between the list and the messages about new ones.
NoRequestLost ==
    /\ \A r \in Requests : job[r] = "open" => \E k \in DOMAIN rows : rows[k].req = r
    /\ (up /\ restoring = "off" /\ faults.fault = 0) =>
          \A k \in DOMAIN rows :
             \/ \E i \in DOMAIN encoders : encoders[i].id = rows[k].id
             \/ \E i \in DOMAIN toService : toService[i].id = rows[k].id
             \/ admit[rows[k].req] # Idle
             \/ \E i \in DOMAIN toStore : toStore[i].op = "remove" /\ toStore[i].id = rows[k].id

\* orderByAcceptance recovers the order of the acceptances from the ids alone: of the
\* rows there are, and of any that are left of the ids handed out from nextId on, also
\* past MaxId, as long as they span less than half of the ids.
ListOrder ==
    LET Id(n) == ((nextId + n - 1) % MaxId) + 1
    IN  /\ OrderByAcceptance(RowIds) = [i \in DOMAIN rows |-> rows[i].id]
        /\ \A left \in SUBSET (0 .. (MaxId - 1) \div 2) :
              OrderByAcceptance({Id(n) : n \in left})
                  = [i \in 1 .. Cardinality(left) |-> Id(SetToSortSeq(left, <)[i])]

\* A conversion that has ended well is kept and not made again, crashes included: what
\* the restoration deletes as interrupted was not registered as a file of the recording,
\* an original is deleted only after a conversion of it was registered, and (without
\* failing calls) a request whose record is still there is recognised by its output path.
\* A list() that fails is left out: its retry may see a record whose output is finished.
FinishedKept ==
    faults.list = 0 =>
        /\ \A f \in DOMAIN files : files[f].registered => files[f].state = "whole"
        /\ \A s \in Sources \ sources :
              \E f \in DOMAIN files : files[f].registered /\ SourceOf[files[f].req] = s
        /\ faults.fault = 0 =>
              \A f, g \in DOMAIN files :
                  (files[f].registered /\ files[g].registered /\ files[f].req = files[g].req) => f = g

\* An accepted request comes to an end, over crashes, failed lists and suspensions,
\* unless a call of the service or of the database failed (or the bound on starts is met).
EveryRequestEnds ==
    \A r \in Requests :
        (job[r] = "open") ~> (job[r] = "over" \/ faults.fault > 0
                              \/ ~Bounded([faults EXCEPT !.starts = @ + 1]))
=============================================================================
