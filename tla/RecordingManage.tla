-------------------------- MODULE RecordingManage --------------------------
(***************************************************************************)
(* RecordingManageModel with its recorders: the index of recorders, the     *)
(* chain of session operations, the start of the scheduler, retries after a *)
(* failed recording and stops for deletion.  A recorder (RecorderModel) is  *)
(* reduced to what its schedule session sees of it.                         *)
(*                                                                          *)
(* A recorder is bound to a session by (gen, token) and moves the phase of  *)
(* the session only while both are current.  An update of the reservation   *)
(* changes the generation at once, but the recorder is bound again only     *)
(* when its operation is the first of `tail`.                               *)
(***************************************************************************)
EXTENDS RecordingSchedule

CONSTANTS
    Slots,              \* the [startAt, endAt] a reservation may have
    Deletable,          \* reservations whose recording a user may delete while it runs
    CanResume,          \* whether a skipped reservation may be taken back
    AttemptLimit,       \* RECORDING_ATTEMPT_LIMIT
    Limits,             \* bounds, of which a behaviour has one: [reserves: the reservations that
                        \*  are not gone, mutations: changes of the reservation table, failures:
                        \*  failed preparations and recordings]
    MaxTime             \* bound: the clock

ASSUME ManageAssumption ==
    IsFiniteSet(Reserves) /\ Slots \subseteq [startAt : Nat, endAt : Nat]

VARIABLES
    table,              \* ReserveDB: reservation -> row, NoRow when there is none
    startup,            \* candidateStartupState, "Reading" once the rows are read
    saved,              \* the rows findLists has returned
    pending,            \* pendingStartupMutations
    recorders,          \* every recorder made: [res, gen, token, row, mode, stop, registered,
                        \*  failed, deletion]
    index,              \* recordingIndex: reservation -> position in recorders, 0: none
    indexToken,         \* recordingSessionTokens
    claims,             \* recordingFailureClaims
    failures,           \* processRecordingFailure calls that await the database
    attempts,           \* recorded rows per reservation
    deletionStops,      \* deletionStops: reservation -> recorder, 0: none
    changes             \* [mutations, failures, used: ids given out, limit: one of Limits]

manager == <<recorders, index, indexToken, claims, failures, attempts, deletionStops>>
world == <<now, table, startup, saved, pending, changes>>
vars == <<schedule, tail, busy, manager, world>>

Init ==
    /\ now = 0
    /\ candidates = [i \in Reserves |-> NoCandidate]
    /\ generation = 0 /\ sessionToken = 0
    /\ ends = [i \in Reserves |-> NoEnd]
    /\ queue = <<>>
    /\ started = FALSE /\ evaluating = FALSE
    /\ wake = [scheduled |-> FALSE, microtask |-> FALSE, timer |-> NoTime]
    /\ tail = <<>> /\ busy = NotBusy
    /\ table \in [Reserves -> {NoRow} \cup {[startAt |-> s.startAt, endAt |-> s.endAt,
                                             isSkip |-> FALSE] : s \in Slots}]
    /\ \E limit \in Limits :
          LET rows == {i \in Reserves : table[i] # NoRow}
          IN  /\ rows \subseteq limit.reserves
              /\ changes = [mutations |-> 0, failures |-> 0, limit |-> limit,
                            used |-> rows \cup (Reserves \ limit.reserves)]
    /\ startup = "NotStarted" /\ saved = [i \in Reserves |-> NoRow] /\ pending = <<>>
    /\ recorders = <<>>
    /\ index = [i \in Reserves |-> 0] /\ indexToken = [i \in Reserves |-> 0]
    /\ claims = {} /\ failures = {}
    /\ attempts = [i \in Reserves |-> 0]
    /\ deletionStops = [i \in Reserves |-> 0]

-----------------------------------------------------------------------------
(* Reservations change, and the scheduler is started. *)

\* acceptMutation: kept back until the scheduler has started, dropped if that failed.
Accept(m) ==
    \/ /\ startup = "Started"
       /\ AcceptMutations(<<m>>)
       /\ UNCHANGED pending
    \/ /\ startup \in {"NotStarted", "Starting", "Reading"}
       /\ pending' = Append(pending, m)
       /\ UNCHANGED <<queue, wake>>
    \/ /\ startup = "Failed"
       /\ UNCHANGED <<pending, queue, wake>>

Change(i, source, row) ==
    /\ Quiet
    /\ changes.mutations < changes.limit.mutations
    /\ changes' = [changes EXCEPT !.mutations = @ + 1, !.used = @ \cup {i}]
    /\ table' = [table EXCEPT ![i] = row]
    /\ Accept([source |-> source, res |-> i, row |-> row])
    /\ UNCHANGED <<now, candidates, generation, sessionToken, ends, started, evaluating, tail,
                   busy, manager, startup, saved>>

\* An id is given out once.
Insert(i, s) ==
    /\ i \notin changes.used
    /\ Change(i, "insert", [startAt |-> s.startAt, endAt |-> s.endAt, isSkip |-> FALSE])
Update(i, s, skip) ==
    LET row == [startAt |-> s.startAt, endAt |-> s.endAt, isSkip |-> skip]
    IN  /\ table[i] # NoRow
        /\ CanResume \/ skip \/ ~table[i].isSkip
        /\ Change(i, "update", row)
Delete(i) == table[i] # NoRow /\ Change(i, "delete", NoRow)

\* rebuildCandidatesAndStart: findLists is called, the rows are read, the answer comes.
StartupBegin ==
    /\ Quiet /\ startup = "NotStarted"
    /\ startup' = "Starting"
    /\ UNCHANGED <<schedule, tail, busy, manager, now, table, saved, pending, changes>>
StartupRead ==
    /\ startup = "Starting"
    /\ startup' = "Reading"
    /\ saved' = table
    /\ UNCHANGED <<schedule, tail, busy, manager, now, table, pending, changes>>

\* The rows that are left become candidates, the mutations that came in the meantime
\* follow them, and the controller evaluates for the first time.
StartupDone ==
    LET keep == {i \in Reserves : ~saved[i].isSkip /\ saved[i].endAt > now}
        ids  == CHOOSE s \in [1 .. Cardinality(keep) -> keep] : \A i \in keep : \E k \in DOMAIN s : s[k] = i
        rows == [k \in DOMAIN ids |-> [source |-> "insert", res |-> ids[k], row |-> saved[ids[k]]]]
    IN  /\ Quiet /\ startup = "Reading"
        /\ candidates' = [i \in Reserves |->
               IF i \notin keep THEN NoCandidate
               ELSE [row |-> saved[i], gen |-> generation + 1, token |-> sessionToken + 1,
                     phase |-> "Waiting"]]
        /\ generation' = generation + 1 /\ sessionToken' = sessionToken + 1
        /\ queue' = rows \o pending
        /\ pending' = <<>>
        /\ started' = TRUE /\ evaluating' = TRUE /\ wake' = InvalidateScheduledWake
        /\ startup' = "Started" /\ saved' = [i \in Reserves |-> NoRow]
        /\ UNCHANGED <<ends, tail, busy, manager, now, table, changes>>

\* findLists fails: what comes later is ignored.
StartupFails ==
    /\ Quiet /\ startup \in {"Starting", "Reading"}
    /\ startup' = "Failed" /\ pending' = <<>> /\ saved' = [i \in Reserves |-> NoRow]
    /\ UNCHANGED <<schedule, tail, busy, manager, now, table, changes>>

ResetTimer ==
    /\ Quiet /\ startup = "Started"
    /\ RequestCoalescedEvaluation
    /\ UNCHANGED <<candidates, generation, sessionToken, ends, queue, started, evaluating, tail,
                   busy, manager, world>>

Tick ==
    /\ Quiet /\ now < MaxTime
    /\ now' = now + 1
    /\ UNCHANGED <<schedule, tail, busy, manager, table, startup, saved, pending, changes>>

\* The controller's own steps; dispatchMutation takes back the claim of a failure.
ControllerStep ==
    /\ \/ EvalApply /\ claims' = IF tail' # tail THEN claims \ {Head(queue).res} ELSE claims
       \/ /\ \/ \E i \in Reserves : EvalPrepare(i) \/ EvalEnd(i)
             \/ EvalDone \/ MicrotaskRuns \/ TimerFires
          /\ UNCHANGED claims
    /\ UNCHANGED <<busy, recorders, index, indexToken, failures, attempts, deletionStops, world>>

-----------------------------------------------------------------------------
(* Recorders. *)

IsBoundTo(r, c) == c.gen # 0 /\ r.gen = c.gen /\ r.token = c.token

\* isPrepRecording; "lost" is a recorder whose attempt has ended without a word.
Preps == {"preparing", "retrying", "lost"}

\* deleteRecording(i)
DeleteRecording(i) ==
    IF deletionStops[i] # 0 THEN UNCHANGED <<index, indexToken>>
    ELSE /\ index' = [index EXCEPT ![i] = 0]
         /\ indexToken' = [indexToken EXCEPT ![i] = 0]

LivePhases == {"Waiting", "Preparing", "RetryWaiting", "Recording"}

\* emitCancelEvent of the recorder r in its record form
Cancelled(r) == [r EXCEPT !.mode = "idle", !.stop = FALSE]

\* Mutant: a retry that waits is overlooked.
BugStopped(r) == IF r.mode \in {"preparing", "lost"} THEN [r EXCEPT !.stop = TRUE] ELSE r

\* cancel(false): an attempt is told to stop, a retry that waits is given up; a
\* recording ends when its stream is closed (Drained).
Stopped(r) ==
    CASE r.mode \in {"preparing", "lost"} -> [r EXCEPT !.stop = TRUE]
      [] r.mode = "retrying" -> Cancelled(r)
      [] OTHER -> r

Await(what, k) == busy' = [what |-> what, rec |-> k] /\ UNCHANGED tail
OperationDone == busy' = NotBusy /\ tail' = Tail(tail)

IsFirst(kind) == ~evaluating /\ busy = NotBusy /\ tail # <<>> /\ Head(tail).kind = kind

\* Whether a stop for deletion owns the recorder of reservation i
OwnedByDeletion(i) == deletionStops[i] # 0 /\ deletionStops[i] = index[i]

\* applyScheduleRemoval, when the recorder need not be stopped.
SkipRemoval ==
    LET op == Head(tail)
        k  == index[op.res]
    IN  /\ IsFirst("remove")
        /\ \/ OwnedByDeletion(op.res) \/ k = 0
           \/ op.prev # 0 /\ indexToken[op.res] # 0 /\ indexToken[op.res] # op.prev
        /\ OperationDone
        /\ UNCHANGED <<schedule, manager, world>>

\* applyScheduleRemoval: the recorder leaves the index and is cancelled.
Remove ==
    LET op == Head(tail)
        i  == op.res
        k  == index[i]
        r  == recorders[k]
    IN  /\ IsFirst("remove")
        /\ ~OwnedByDeletion(i) /\ k # 0
        /\ op.prev = 0 \/ indexToken[i] \in {0, op.prev}
        /\ DeleteRecording(i)
        /\ recorders' = [recorders EXCEPT ![k] = Stopped(r)]
        /\ CASE r.mode \in {"preparing", "lost"} -> Await("cancel", k)
             [] r.mode = "recording" -> Await("drain", k)
             [] OTHER -> OperationDone
        /\ UNCHANGED <<schedule, claims, failures, attempts, deletionStops, world>>

\* applyScheduleMutation for a session that is not current, or whose recorder is not.
SkipApply ==
    LET op == Head(tail)
        c  == candidates[op.res]
    IN  /\ IsFirst("apply")
        /\ \/ OwnedByDeletion(op.res)
           \/ c.gen = 0 \/ c.token # op.token
           \/ index[op.res] # 0 /\ indexToken[op.res] # c.token
        /\ OperationDone
        /\ UNCHANGED <<schedule, manager, world>>

IsApplied(i, token) ==
    ~OwnedByDeletion(i) /\ IsCandidate(i) /\ candidates[i].token = token

NewRecorder(i, c) ==
    [res |-> i, gen |-> c.gen, token |-> c.token, row |-> c.row, mode |-> "idle", stop |-> FALSE,
     registered |-> FALSE, failed |-> "no", deletion |-> FALSE]

\* applyScheduleMutation without a recorder: one is made, unless the row is over.
Make ==
    LET op == Head(tail)
        i  == op.res
        c  == candidates[i]
    IN  /\ IsFirst("apply")
        /\ IsApplied(i, op.token) /\ index[i] = 0
        /\ OperationDone
        /\ IF now >= c.row.endAt
             THEN /\ LeavePhase(i, c.gen, c.token, {c.phase}, "Completed")
                  /\ UNCHANGED <<recorders, index, indexToken>>
             ELSE /\ recorders' = Append(recorders, NewRecorder(i, c))
                  /\ index' = [index EXCEPT ![i] = Len(recorders) + 1]
                  /\ indexToken' = [indexToken EXCEPT ![i] = c.token]
                  /\ UNCHANGED schedule
        /\ UNCHANGED <<claims, failures, attempts, deletionStops, world>>

\* bindScheduleSession: a retry that waits goes on for the new generation.
Rebound(r, c) ==
    [r EXCEPT !.gen = c.gen, !.token = c.token, !.row = c.row,
              !.mode = IF @ = "retrying" /\ r.gen # c.gen /\ c.phase # "RetryWaiting"
                         THEN "lost" ELSE @]

IsLater(r, c) == r.res \notin TimeSpecified /\ r.row.startAt < c.row.startAt

\* applyScheduleMutation with the recorder of the session: it is bound to the new
\* generation and follows the new row.
Follow ==
    LET op == Head(tail)
        i  == op.res
        k  == index[i]
        c  == candidates[i]
        r  == recorders[k]
        n  == Rebound(r, c)
    IN  /\ IsFirst("apply")
        /\ IsApplied(i, op.token) /\ k # 0 /\ indexToken[i] \in {0, c.token}
        /\ CASE n.mode \in {"retrying", "lost"} /\ c.phase = "RetryWaiting" /\ IsLater(r, c) ->
                  \* cancelled, and put back to wait for the new start
                  /\ recorders' = [recorders EXCEPT ![k] = Cancelled(n)]
                  /\ candidates' = [candidates EXCEPT ![i].phase = "Waiting"]
                  /\ WakeNow
                  /\ OperationDone
                  /\ UNCHANGED ends
             [] n.mode \in {"preparing", "lost"} /\ IsLater(r, c) ->
                  /\ recorders' = [recorders EXCEPT ![k] = [n EXCEPT !.stop = TRUE]]
                  /\ Await("reschedule", k)
                  /\ UNCHANGED <<candidates, ends, wake, evaluating>>
             [] n.mode \in Preps /\ i \in TimeSpecified /\ r.row.endAt # c.row.endAt ->
                  /\ recorders' = [recorders EXCEPT ![k] = n]
                  /\ Await("endAt", k)
                  /\ UNCHANGED <<candidates, ends, wake, evaluating>>
             [] OTHER ->
                  /\ recorders' = [recorders EXCEPT ![k] = n]
                  /\ IF n.mode = "recording" /\ n.registered /\ i \in TimeSpecified
                       THEN Await("save", k) ELSE OperationDone
                  /\ RegisterTimeSpecifiedEnd(i, c, c.gen, c.token, c.row.endAt + EndMargin)
                  /\ UNCHANGED candidates
        /\ UNCHANGED <<generation, sessionToken, queue, started, index, indexToken, claims, failures,
                       attempts, deletionStops, world>>

\* Whether the operation op still is about the session it was launched for
IsCurrent(op, phase) ==
    LET c == candidates[op.res]
    IN  /\ c.gen = op.gen /\ c.token = op.token /\ c.phase = phase
        /\ index[op.res] # 0 /\ indexToken[op.res] = op.token

\* dispatchPreparation, after the operations before it: the recorder prepares
\* (a recorder that was told to stop gives up at once), or nothing happens.
Prepare ==
    LET op == Head(tail)
        k  == index[op.res]
    IN  /\ IsFirst("prepare")
        /\ IF ~IsCurrent(op, "Preparing") THEN UNCHANGED <<recorders, schedule>>
           ELSE IF recorders[k].stop
             THEN /\ recorders' = [recorders EXCEPT ![k] = Cancelled(@)]
                  /\ LeavePhase(op.res, op.gen, op.token, LivePhases, "Cancelled")
             ELSE /\ recorders' = [recorders EXCEPT ![k].mode = "preparing", ![k].gen = op.gen]
                  /\ UNCHANGED schedule
        /\ OperationDone
        /\ UNCHANGED <<index, indexToken, claims, failures, attempts, deletionStops, world>>

\* dispatchTimeSpecifiedEnd: the recorder ends the recording.
Finish ==
    LET op == Head(tail)
        k  == index[op.res]
    IN  /\ IsFirst("finish")
        /\ recorders' = IF IsCurrent(op, "Finishing") /\ recorders[k].mode = "recording"
                          THEN [recorders EXCEPT ![k].mode = "finalizing"] ELSE recorders
        /\ OperationDone
        /\ UNCHANGED <<schedule, index, indexToken, claims, failures, attempts, deletionStops, world>>

-----------------------------------------------------------------------------
(* The end of what an operation awaits. *)

\* requeueAfterReschedule, for the candidate c of a recorder that was cancelled
Requeue(i, c) ==
    IF c.phase = "Cancelled"
      THEN /\ candidates' = [candidates EXCEPT ![i] = [c EXCEPT !.phase = "Waiting"]]
           /\ WakeNow
      ELSE /\ candidates' = [candidates EXCEPT ![i] = c]
           /\ UNCHANGED <<wake, evaluating>>

\* The attempt stops, because it was told to, or the programme or the reservation is
\* gone; an operation that waits for it goes on.
PrepCancelled(k) ==
    LET r == recorders[k]
        i == r.res
        c == IF r.deletion THEN candidates[i]
             ELSE Transition(candidates[i], r.gen, r.token, LivePhases, "Cancelled")
        mine == busy.rec = k /\ busy.what \in {"cancel", "reschedule"}
    IN  /\ Quiet /\ r.mode = "preparing"
        /\ r.stop \/ table[i] = NoRow \/ i \notin TimeSpecified
        /\ recorders' = [recorders EXCEPT ![k] = Cancelled(r)]
        /\ IF mine /\ busy.what = "reschedule" /\ IsBoundTo(r, c)
             THEN Requeue(i, c)
             ELSE candidates' = [candidates EXCEPT ![i] = c] /\ UNCHANGED <<wake, evaluating>>
        /\ IF mine /\ busy.what = "cancel" THEN DeleteRecording(i) ELSE UNCHANGED <<index, indexToken>>
        /\ IF mine THEN OperationDone ELSE UNCHANGED <<busy, tail>>
        /\ UNCHANGED <<generation, sessionToken, ends, queue, started, claims, failures, attempts,
                       deletionStops, world>>

\* The attempt does not stop within its sixty seconds, or the recording does not start.
WaitTimesOut ==
    /\ Quiet /\ busy.what \in {"cancel", "reschedule"}
    /\ OperationDone
    /\ UNCHANGED <<schedule, manager, world>>

\* update of a time-specified row: the recording has started, or the wait is over.
EndAtWaitOver ==
    LET r == recorders[busy.rec]
    IN  /\ Quiet /\ busy.what = "endAt"
        /\ OperationDone
        /\ IF r.mode = "recording"
             THEN RegisterTimeSpecifiedEnd(r.res, candidates[r.res], r.gen, r.token,
                                           r.row.endAt + EndMargin)
             ELSE UNCHANGED <<ends, wake, evaluating>>
        /\ UNCHANGED <<candidates, generation, sessionToken, queue, started, manager, world>>

SaveDone ==
    /\ Quiet /\ busy.what = "save"
    /\ OperationDone
    /\ UNCHANGED <<schedule, manager, world>>

\* What has arrived is written and the stream of a cancelled recorder is closed.
Drained ==
    LET k == busy.rec
        r == recorders[k]
    IN  /\ Quiet /\ busy.what = "drain"
        /\ OperationDone
        /\ IF r.mode = "recording"
             THEN /\ recorders' = [recorders EXCEPT ![k].mode = "finalizing"]
                  /\ LeavePhase(r.res, r.gen, r.token, {"Recording"}, "Cancelled")
             ELSE UNCHANGED <<recorders, schedule>>
        /\ UNCHANGED <<index, indexToken, claims, failures, attempts, deletionStops, world>>

-----------------------------------------------------------------------------
(* What happens to a recorder by itself. *)

\* The stream is open: the session is handed over to the recording.
PrepSucceeds(k) ==
    LET r == recorders[k]
        i == r.res
        c == Transition(candidates[i], r.gen, r.token, {"Preparing"}, "Recording")
    IN  /\ Quiet /\ r.mode = "preparing" /\ ~r.stop /\ table[i] # NoRow
        /\ IF c = candidates[i]
             THEN /\ recorders' = [recorders EXCEPT ![k].mode = "lost"]
                  /\ UNCHANGED schedule
             ELSE /\ recorders' = [recorders EXCEPT ![k].mode = "recording", ![k].row = c.row]
                  /\ candidates' = [candidates EXCEPT ![i] = c]
                  /\ RegisterTimeSpecifiedEnd(i, c, r.gen, r.token, c.row.endAt + EndMargin)
                  /\ UNCHANGED <<generation, sessionToken, queue, started>>
        /\ UNCHANGED <<tail, busy, index, indexToken, claims, failures, attempts, deletionStops, world>>

\* The first data has come: the recorded row is written.
Registers(k) ==
    LET r == recorders[k]
    IN  /\ Quiet /\ r.mode = "recording" /\ ~r.registered
        /\ recorders' = [recorders EXCEPT ![k].registered = TRUE]
        /\ attempts' = [attempts EXCEPT ![r.res] = @ + 1]
        /\ UNCHANGED <<schedule, tail, busy, index, indexToken, claims, failures, deletionStops, world>>

Fail ==
    /\ changes.failures < changes.limit.failures
    /\ changes' = [changes EXCEPT !.failures = @ + 1]
    /\ UNCHANGED <<now, table, startup, saved, pending>>

\* The attempt fails, before the stream is there or before its data is: it is tried
\* again after a while, as long as the reservation is not over.
PrepFails(k) ==
    LET r == recorders[k]
        i == r.res
        c == candidates[i]
    IN  /\ Quiet /\ r.mode \in {"preparing", "recording"} /\ ~r.registered
        /\ ~r.stop /\ ~r.deletion
        /\ Fail
        /\ IF ~IsBoundTo(r, c) \/ c.phase \notin {"Preparing", "Recording"}
             THEN /\ recorders' = [recorders EXCEPT ![k].mode = "lost"]
                  /\ UNCHANGED <<schedule, index, indexToken>>
           ELSE IF now + 1 < r.row.endAt
             THEN /\ recorders' = [recorders EXCEPT ![k].mode = "retrying"]
                  /\ candidates' = [candidates EXCEPT ![i].phase = "RetryWaiting"]
                  /\ UNCHANGED <<generation, sessionToken, ends, queue, started, evaluating, wake,
                                 index, indexToken>>
             ELSE /\ recorders' = [recorders EXCEPT ![k].mode = "idle"]
                  /\ LeavePhase(i, r.gen, r.token, {c.phase}, "Completed")
                  /\ DeleteRecording(i)
        /\ UNCHANGED <<tail, busy, claims, failures, attempts, deletionStops>>

\* The retry timer of the recorder.
RetryFires(k) ==
    LET r == recorders[k]
        c == Transition(candidates[r.res], r.gen, r.token, {"RetryWaiting"}, "Preparing")
    IN  /\ Quiet /\ r.mode = "retrying"
        /\ recorders' = [recorders EXCEPT ![k].mode = IF c = candidates[r.res] THEN "lost" ELSE "preparing"]
        /\ candidates' = [candidates EXCEPT ![r.res] = c]
        /\ UNCHANGED <<generation, sessionToken, ends, queue, started, evaluating, wake, tail, busy,
                       index, indexToken, claims, failures, attempts, deletionStops, world>>

\* The stream ends when the reservation is about to be over.  (When it ends before, that
\* is a failure: RecFails.)
StreamEnds(k) ==
    LET r == recorders[k]
    IN  /\ Quiet /\ r.mode = "recording" /\ r.row.endAt <= now + Lead
        /\ recorders' = [recorders EXCEPT ![k].mode = "finalizing"]
        /\ LeavePhase(r.res, r.gen, r.token, {"Recording"}, "Finishing")
        /\ UNCHANGED <<tail, busy, index, indexToken, claims, failures, attempts, deletionStops, world>>

\* recFailed: the stream or the file fails; the failure is published only if the
\* session is current when it is seen.
RecFails(k, kind) ==
    LET r == recorders[k]
        current == IsBoundTo(r, candidates[r.res]) /\ candidates[r.res].phase = "Recording"
    IN  /\ Quiet /\ r.mode = "recording"
        /\ Fail
        /\ recorders' = [recorders EXCEPT ![k].mode = "finalizing",
                                          ![k].failed = IF current THEN kind ELSE "no"]
        /\ LeavePhase(r.res, r.gen, r.token, {"Recording"}, "Finishing")
        /\ UNCHANGED <<tail, busy, index, indexToken, claims, failures, attempts, deletionStops>>

\* finalizeRecording has ended; a recording that was registered is announced, and the
\* announcement takes the reservation out of the index.
Finalized(k) ==
    LET r == recorders[k]
    IN  /\ Quiet /\ r.mode = "finalizing"
        /\ recorders' = [recorders EXCEPT ![k].mode = IF r.failed = "no" THEN "ended" ELSE "reporting"]
        /\ LeavePhase(r.res, r.gen, r.token, {"Finishing"}, "Completed")
        /\ IF r.registered THEN DeleteRecording(r.res) ELSE UNCHANGED <<index, indexToken>>
        /\ UNCHANGED <<tail, busy, claims, failures, attempts, deletionStops, world>>

\* The failure is published and taken up by processRecordingFailure.
FailureReported(k) ==
    LET r == recorders[k]
        i == r.res
        valid == /\ IsBoundTo(r, candidates[i])
                 /\ candidates[i].phase \in {"Recording", "Finishing", "Completed"}
                 /\ deletionStops[i] = 0 /\ i \notin claims
    IN  /\ Quiet /\ r.mode = "reporting"
        /\ recorders' = [recorders EXCEPT ![k].mode = "ended"]
        /\ IF valid
             THEN /\ claims' = claims \cup {i}
                  /\ failures' = failures \cup {[res |-> i, gen |-> r.gen, token |-> r.token,
                                                 row |-> candidates[i].row, kind |-> r.failed]}
                  /\ DeleteRecording(i)
             ELSE UNCHANGED <<claims, failures, index, indexToken>>
        /\ UNCHANGED <<schedule, tail, busy, attempts, deletionStops, world>>

\* A failure that is retried: the database knows of fewer recordings than the limit
\* and the reservation is not over.
IsRetried(f) == f.kind = "retryable" /\ attempts[f.res] < AttemptLimit /\ f.row.endAt > now

\* Mutant: the session is not looked at again after the database has answered.
BugRetryDecided(f) ==
    /\ Quiet /\ f \in failures
    /\ failures' = failures \ {f}
    /\ IF IsRetried(f)
         THEN AcceptMutations(<<[source |-> "insert", res |-> f.res, row |-> f.row]>>)
         ELSE UNCHANGED <<queue, wake>>
    /\ UNCHANGED <<candidates, generation, sessionToken, ends, started, evaluating, tail, busy,
                   recorders, index, indexToken, claims, attempts, deletionStops, world>>

\* processRecordingFailure, when the database has answered: the session must still be
\* the one that failed.
RetryDecided(f) ==
    /\ Quiet /\ f \in failures
    /\ failures' = failures \ {f}
    /\ IF candidates[f.res].gen = f.gen /\ candidates[f.res].token = f.token /\ IsRetried(f)
         THEN AcceptMutations(<<[source |-> "insert", res |-> f.res, row |-> f.row]>>)
         ELSE UNCHANGED <<queue, wake>>
    /\ UNCHANGED <<candidates, generation, sessionToken, ends, started, evaluating, tail, busy,
                   recorders, index, indexToken, claims, attempts, deletionStops, world>>

\* cancel(i, true): a recording is stopped because its files are to be deleted.  The
\* recorder that is indexed need not be the one that wrote them.
StopForDeletion(i) ==
    LET k == index[i]
        r == recorders[k]
        prepares == \/ r.mode = "preparing"
                    \/ /\ r.mode = "lost"
                       /\ IsBoundTo(r, candidates[i]) /\ candidates[i].phase = "Preparing"
    IN  /\ Quiet /\ i \in Deletable /\ k # 0 /\ deletionStops[i] = 0
        /\ \E m \in DOMAIN recorders : recorders[m].res = i /\ recorders[m].registered
                                       /\ recorders[m].mode \in {"recording", "finalizing"}
        /\ deletionStops' = [deletionStops EXCEPT ![i] = k]
        /\ recorders' = [recorders EXCEPT ![k] =
               [r EXCEPT !.deletion = TRUE, !.stop = prepares,
                         !.mode = CASE r.mode = "recording" -> "finalizing"
                                    [] r.mode \in {"retrying", "lost"} /\ ~prepares -> "idle"
                                    [] OTHER -> r.mode]]
        /\ LeavePhase(i, r.gen, r.token, LivePhases \cup {"Finishing"}, "StoppingForDeletion")
        /\ UNCHANGED <<tail, busy, index, indexToken, claims, failures, attempts, world>>

\* Everything the recorder had under way is over.
DeletionTerminal(i) ==
    LET k == deletionStops[i]
        r == recorders[k]
    IN  /\ Quiet /\ k # 0 /\ r.mode \in {"idle", "ended"}
        /\ deletionStops' = [deletionStops EXCEPT ![i] = 0]
        /\ index' = [index EXCEPT ![i] = 0]
        /\ indexToken' = [indexToken EXCEPT ![i] = 0]
        /\ LeavePhase(i, r.gen, r.token, {"StoppingForDeletion"}, "Cancelled")
        /\ recorders' = [recorders EXCEPT ![k].mode = "ended"]
        /\ UNCHANGED <<tail, busy, claims, failures, attempts, world>>

-----------------------------------------------------------------------------
SessionOperation == SkipRemoval \/ Remove \/ SkipApply \/ Make \/ Follow \/ Prepare \/ Finish
WaitEnds == WaitTimesOut \/ EndAtWaitOver \/ SaveDone \/ Drained

RecorderStep(k) ==
    \/ PrepSucceeds(k) \/ PrepFails(k) \/ PrepCancelled(k) \/ RetryFires(k) \/ StreamEnds(k)
    \/ \E kind \in {"retryable", "fatal"} : RecFails(k, kind)
    \/ Finalized(k) \/ Registers(k)
    \/ FailureReported(k)

Next ==
    \/ \E i \in Reserves : \/ \E s \in Slots : Insert(i, s) \/ \E skip \in BOOLEAN : Update(i, s, skip)
                           \/ Delete(i) \/ StopForDeletion(i) \/ DeletionTerminal(i)
    \/ StartupBegin \/ StartupRead \/ StartupDone \/ StartupFails
    \/ ResetTimer \/ Tick
    \/ ControllerStep
    \/ SessionOperation \/ WaitEnds
    \/ \E k \in DOMAIN recorders : RecorderStep(k)
    \/ \E f \in failures : RetryDecided(f)

\* Node runs what is queued, timers fire, and awaited answers come.
Fairness ==
    /\ WF_vars(ControllerStep)
    /\ WF_vars(SessionOperation)
    /\ WF_vars(WaitEnds)

Spec == Init /\ [][Next]_vars
FairSpec == Spec /\ Fairness

-----------------------------------------------------------------------------
(* Properties. *)

\* While the controller runs and is not evaluating, an evaluation is on its way: at
\* once if a mutation is queued, and never later than the next preparation or
\* time-specified end is due or a scan interval has passed.  (Tokens that invalidate
\* wakes, coalescing and the single timer make it easy to lose one.)
NoLostWake ==
    started /\ ~evaluating /\ ~wake.microtask =>
        /\ queue = <<>>
        /\ wake.timer # NoTime /\ wake.timer <= now + ScanInterval
        /\ \A d \in Deadlines(ends) : wake.timer <= d

\* Once a mutation is applied the candidates are the reservations that are to be
\* recorded, with the rows of the database: whatever was changed while the scheduler
\* started, and whichever failed recording is put back.
RegistryFollowsTable ==
    startup = "Started" /\ Quiet /\ queue = <<>> =>
        \A i \in Reserves :
            /\ IsCandidate(i) => candidates[i].row = table[i] /\ ~table[i].isSkip
            /\ ~table[i].isSkip /\ table[i].endAt > now => IsCandidate(i)

\* applyScheduleRemoval stops the recording: when no session operation is left, a
\* recorder that prepares or records (and was not told to stop) belongs to the current
\* session of a reservation that is to be recorded.
RemovedIsStopped ==
    Quiet /\ tail = <<>> /\ queue = <<>> =>
        \A k \in DOMAIN recorders :
            recorders[k].mode \in {"preparing", "retrying", "recording"} /\ ~recorders[k].stop =>
                IsCandidate(recorders[k].res) /\ candidates[recorders[k].res].token = recorders[k].token

\* The preparation of a candidate that is due begins (dispatchDuePreparations), or the
\* candidate is over or gone.
DuePrepared ==
    \A i \in Reserves :
        candidates[i].phase = "Waiting" /\ candidates[i].row.startAt - Lead <= now
            ~> candidates[i].phase # "Waiting" \/ candidates[i].row.startAt - Lead > now
=============================================================================
