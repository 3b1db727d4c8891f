-------------------------- MODULE RecordingSession --------------------------
(***************************************************************************)
(* One recorder (RecorderModel) from the wait for the first data to the end *)
(* of the recording: the registration of the recording in two inserts, its  *)
(* end, the removal of the reservation, the end of a time-specified         *)
(* recording, a stop for deletion and failures, all of which interleave at  *)
(* every await.  What the scheduler and the index of recorders do is in     *)
(* RecordingManage; here the session only says whether the recorder may     *)
(* still move its phase.                                                    *)
(*                                                                          *)
(* The promise of doRecord is settled by whoever takes the outcome first:   *)
(* the registration (reg), a failure of the start (failing) or a            *)
(* termination.  The registration cannot be interrupted; a termination      *)
(* leaves an intent with its owner, and the registration cleans up after    *)
(* itself when it ends.                                                     *)
(***************************************************************************)
EXTENDS Naturals, Sequences

CONSTANTS
    DropCheck,          \* config.isEnabledDropCheck
    MaxDisturbances     \* bound: updates, a removal, an end that is due, a stop for deletion, and
                        \*  failed streams, writes and database calls, in all

ASSUME ConfigAssumption == DropCheck \in BOOLEAN /\ MaxDisturbances \in Nat

VARIABLES
    session,    \* [phase, bound: what the recorder's binding is to the session (current, behind
                \*  an accepted update, gone with the reservation), rebound: bound again since
                \*  the attempt began, so that no owner matches]
    wait,       \* the closure of doRecord: [observed: firstDataObserved, settled: outcomeSettled,
                \*  pending: cancellationPending, promise, owner: intent of registrationOwner]
    reg,        \* onData: [at: the call that is awaited, todo: the steps of its clean-up that are
                \*  left, result: why it ends, recorded, video: the ids in its resources]
    failing,    \* settleFailure: the steps that are left, <<"idle">> when it is not running
    cleaning,   \* cleanupLifetime of the resources: the next step
    rec,        \* the recorder: [isRecording, plan: isPlanToDelete, canceled:
                \*  isCanceledCallingFinished, recordedId, videoFileId, dropLogFileId:
                \*  known, hasStream, hasFile: stream and recFile are not null, started, fin: finalizationLifetime, tails:
                \*  finalizationContinuations, normal: settleNormalRecordingTerminal waits]
    io,         \* [stream, writer, drop]: the stream, the writer of the file, the drop checker
    stop,       \* deletionStop: [state, prep, final, tails]: what its latch observes
    db,         \* [recorded, flag: isRecording of the row, video] and [file]: what is stored
    use,        \* the recording in use: none, active or released
    calls,      \* [removal, end: calls of the manager, save: updateOnce is under way, indexed:
                \*  the recorder is in recordingIndex, commit: the deletion is done]
    disturbances,   \* their number so far
    lost        \* history: causes for which rows stay behind, see NothingHalfRecorded

vars == <<session, wait, reg, failing, cleaning, rec, io, stop, db, use, calls, disturbances, lost>>

-----------------------------------------------------------------------------
(* The session. *)

RegistrationPhases == {"Registering", "RegistrationOverdue"}
ActivePhases == {"Recording", "AwaitingFirstData"} \cup RegistrationPhases

\* isCurrent and tryTransition of the binding: they only act on the session as it is now.
IsCurrent(phases) == session.bound = "current" /\ session.phase \in phases
Transition(from, to) == IF IsCurrent(from) THEN [session EXCEPT !.phase = to] ELSE session

\* promoteRegistrationTerminationIntent for the owner that matches the binding.
Priority == [absent |-> 9, None |-> 0, Cancel |-> 1, Replacement |-> 2, Deletion |-> 3]
Promoted(intent) ==
    IF ~session.rebound /\ Priority[intent] > Priority[wait.owner] THEN intent ELSE wait.owner

\* settleCancelled as the waiting recorder's cancel calls it.
CancelFirstDataWait(w) ==
    IF w.settled THEN w
      ELSE IF w.observed THEN [w EXCEPT !.settled = TRUE, !.pending = TRUE]
      ELSE [w EXCEPT !.settled = TRUE, !.promise = "resolved"]

Disturb == disturbances < MaxDisturbances /\ disturbances' = disturbances + 1

\* The controller accepts an update (the generation changes); later the recorder is bound
\* again and told.
Update ==
    /\ session.bound = "current" /\ calls.indexed
    /\ Disturb
    /\ session' = [session EXCEPT !.bound = "behind"]
    /\ UNCHANGED <<wait, reg, failing, cleaning, rec, io, stop, db, use, calls, lost>>

Rebind ==
    /\ session.bound = "behind"
    /\ session' = [session EXCEPT !.bound = "current", !.rebound = TRUE]
    /\ wait' = [wait EXCEPT !.owner = Promoted("Replacement")]
    /\ calls' = [calls EXCEPT !.save = @ \/ (rec.isRecording /\ rec.recordedId)]
    /\ UNCHANGED <<reg, failing, cleaning, rec, io, stop, db, use, disturbances, lost>>

\* updateOnce writes the whole row, isRecording included as it was when update was called.
SaveWrites ==
    /\ calls.save
    /\ calls' = [calls EXCEPT !.save = FALSE]
    /\ db' = [db EXCEPT !.flag = db.recorded]
    /\ lost' = IF db.recorded /\ ~db.flag THEN lost \cup {"overwritten"} ELSE lost
    /\ UNCHANGED <<session, wait, reg, failing, cleaning, rec, io, stop, use, disturbances>>

-----------------------------------------------------------------------------
(* Stopping the stream, and the end of the recording. *)

\* destroyStream: the recorder lets go of stream and writer, and their ends are observed by
\* the latch of a deletion or become continuations of the finalisation.
Observed(stopDrop) ==
    (IF rec.hasStream /\ io.stream = "open" THEN {"stream"} ELSE {})
      \cup (IF rec.hasFile /\ io.writer # "closed" THEN {"writer"} ELSE {})
      \cup (IF stopDrop /\ io.drop # "off" THEN {"drop"} ELSE {})
DestroyedIo(stopDrop) ==
    [stream |-> IF rec.hasStream /\ io.stream = "open" THEN "closing" ELSE io.stream,
     writer |-> IF rec.hasFile /\ io.writer = "open" THEN "ending" ELSE io.writer,
     drop   |-> IF stopDrop /\ io.drop = "on" THEN "stopping" ELSE io.drop]
DestroyedRec(stopDrop) ==
    [rec EXCEPT !.hasStream = FALSE, !.hasFile = FALSE,
                !.tails = IF stop.state = "none" THEN @ \cup Observed(stopDrop) ELSE @]
DestroyedStop(stopDrop) ==
    IF stop.state = "none" THEN stop ELSE [stop EXCEPT !.tails = @ \cup Observed(stopDrop)]

\* recEnd: the one finalisation begins, and stops the stream.
FinBegins(r) == IF r.plan THEN "stopDrop" ELSE IF r.recordedId THEN "removeRecording" ELSE "last"
RecEnd(isFinishing) ==
    IF rec.fin # "none" THEN UNCHANGED <<session, rec, io, stop>>
      ELSE /\ session' = IF isFinishing THEN session ELSE Transition(ActivePhases, "Finishing")
           /\ rec' = [DestroyedRec(~rec.plan) EXCEPT !.fin = FinBegins(rec)]
           /\ io' = IF rec.plan /\ io.drop = "on"
                      THEN [DestroyedIo(FALSE) EXCEPT !.drop = "stopping"] ELSE DestroyedIo(~rec.plan)
           /\ stop' = DestroyedStop(~rec.plan)

\* The promise of the finalisation settles; settleNormalRecordingTerminal waits for the
\* continuations unless the recording is to be deleted.
FinOver(how) == [rec EXCEPT !.fin = how, !.normal = ~rec.plan]
Over == {"done", "failed"}

\* removeRecording, then the file's size is to be measured.
RemoveRecording ==
    /\ rec.fin = "removeRecording"
    /\ \/ /\ db' = [db EXCEPT !.flag = FALSE]
          /\ rec' = [rec EXCEPT !.isRecording = FALSE, !.fin = "dropLog",
                                !.tails = IF rec.videoFileId THEN @ \cup {"size"} ELSE @]
          /\ UNCHANGED <<disturbances, lost>>
       \/ /\ Disturb
          /\ rec' = FinOver("failed")
          /\ lost' = lost \cup {"unfinished"}
          /\ UNCHANGED db
    /\ UNCHANGED <<session, wait, reg, failing, cleaning, io, stop, use, calls>>

UpdateDropFileLog ==
    /\ rec.fin = "dropLog"
    /\ rec' = [rec EXCEPT !.fin = "findId"]
    /\ UNCHANGED <<session, wait, reg, failing, cleaning, io, stop, db, use, calls, disturbances, lost>>

\* findId, the notice of the end (the manager takes the recorder out of its index).
FinishRecording ==
    /\ rec.fin = "findId"
    /\ \/ /\ rec' = FinOver("done")
          /\ session' = Transition({"Finishing"}, "Completed")
          /\ calls' = [calls EXCEPT !.indexed = @ /\ (~db.recorded \/ stop.state = "stopping")]
          /\ UNCHANGED disturbances
       \/ /\ Disturb
          /\ rec' = FinOver("failed")
          /\ UNCHANGED <<session, calls>>
    /\ UNCHANGED <<wait, reg, failing, cleaning, io, stop, db, use, lost>>

\* The other two ends of finalizeRecording: for a deletion when the drop checker has
\* stopped, and without a recording.
FinishEmpty ==
    /\ \/ rec.fin = "stopDrop" /\ io.drop = "off" /\ UNCHANGED session
       \/ rec.fin = "last" /\ session' = Transition({"Finishing"}, "Completed")
    /\ rec' = FinOver("done")
    /\ UNCHANGED <<wait, reg, failing, cleaning, io, stop, db, use, calls, disturbances, lost>>

\* A continuation ends: stream, writer and drop checker by themselves, the size of the
\* file is measured when the writer has closed.
Closed(what) ==
    /\ rec' = [rec EXCEPT !.tails = @ \ {what}]
    /\ stop' = [stop EXCEPT !.tails = @ \ {what}]
    /\ UNCHANGED <<session, wait, reg, failing, cleaning, db, use, calls, disturbances, lost>>
StreamCloses == io.stream = "closing" /\ io' = [io EXCEPT !.stream = "closed"] /\ Closed("stream")
WriterCloses == io.writer = "ending" /\ io' = [io EXCEPT !.writer = "closed"] /\ Closed("writer")
DropStops == io.drop = "stopping" /\ io' = [io EXCEPT !.drop = "off"] /\ Closed("drop")
SizeUpdated == "size" \in rec.tails /\ io.writer = "closed" /\ UNCHANGED io /\ Closed("size")

\* The normal terminal: the recording is no longer in use.
ReleaseNow_WithoutTails == rec.normal
ReleaseNow == rec.normal /\ rec.tails = {}
NormalTerminal ==
    /\ ReleaseNow
    /\ rec' = [rec EXCEPT !.normal = FALSE]
    /\ use' = IF use = "active" THEN "released" ELSE use
    /\ UNCHANGED <<session, wait, reg, failing, cleaning, io, stop, db, calls, disturbances, lost>>

-----------------------------------------------------------------------------
(* The registration. *)

\* onData: the session goes to Registering, or the wait is over without a recording.
FirstData ==
    /\ ~wait.observed /\ ~wait.settled /\ rec.hasStream /\ io.stream = "open"
    /\ IF IsCurrent({"AwaitingFirstData"})
         THEN /\ session' = [session EXCEPT !.phase = "Registering"]
              /\ wait' = [wait EXCEPT !.observed = TRUE, !.owner = "None"]
              /\ reg' = [reg EXCEPT !.at = "create"]
         ELSE /\ wait' = [wait EXCEPT !.observed = TRUE, !.settled = TRUE, !.promise = "resolved"]
              /\ UNCHANGED <<session, reg>>
    /\ UNCHANGED <<failing, cleaning, rec, io, stop, db, use, calls, disturbances, lost>>

\* The watchdog of the registration.
RegistrationOverdue ==
    /\ reg.at \in {"create", "insertRecorded", "recordedIn", "insertVideo", "videoIn", "nullClean"}
    /\ ~session.rebound /\ IsCurrent({"Registering"})
    /\ session' = [session EXCEPT !.phase = "RegistrationOverdue"]
    /\ UNCHANGED <<wait, reg, failing, cleaning, rec, io, stop, db, use, calls, disturbances, lost>>

\* addRecorded asks after each call whether the recording is to be deleted; then it cleans
\* up and returns null.  A failed call is thrown, and the clean-up is left to onData.
OwnsRegistrationState == IsCurrent(RegistrationPhases)
GoOn(r, next) == IF rec.plan THEN [r EXCEPT !.at = "nullClean"] ELSE [r EXCEPT !.at = next]
CallFails ==
    /\ reg.at \in {"create", "insertRecorded", "insertVideo"}
    /\ Disturb
    /\ reg' = IF rec.plan THEN [reg EXCEPT !.at = "nullClean"]
                ELSE [reg EXCEPT !.at = "returned", !.result = "error"]
    /\ UNCHANGED <<session, wait, failing, cleaning, rec, io, stop, db, use, calls, lost>>
CreateRecorded ==
    /\ reg.at = "create"
    /\ reg' = GoOn(reg, "insertRecorded")
    /\ UNCHANGED <<session, wait, failing, cleaning, rec, io, stop, db, use, calls, disturbances, lost>>

\* The row is in the table before its id arrives; a user may see it and delete it.
InsertRecorded ==
    /\ reg.at = "insertRecorded"
    /\ db' = [db EXCEPT !.recorded = TRUE, !.flag = TRUE]
    /\ reg' = [reg EXCEPT !.at = "recordedIn"]
    /\ UNCHANGED <<session, wait, failing, cleaning, rec, io, stop, use, calls, disturbances, lost>>
RecordedInserted ==
    /\ reg.at = "recordedIn"
    /\ rec' = [rec EXCEPT !.recordedId = @ \/ OwnsRegistrationState]
    /\ reg' = GoOn([reg EXCEPT !.recorded = TRUE], "insertVideo")
    /\ UNCHANGED <<session, wait, failing, cleaning, io, stop, db, use, calls, disturbances, lost>>
InsertVideoFile ==
    /\ reg.at = "insertVideo"
    /\ db' = [db EXCEPT !.video = TRUE]
    /\ reg' = [reg EXCEPT !.at = "videoIn"]
    /\ UNCHANGED <<session, wait, failing, cleaning, rec, io, stop, use, calls, disturbances, lost>>
VideoFileInserted ==
    /\ reg.at = "videoIn"
    /\ rec' = [rec EXCEPT !.videoFileId = @ \/ OwnsRegistrationState]
    /\ reg' = GoOn([reg EXCEPT !.video = TRUE, !.result = "ok"], "returned")
    /\ UNCHANGED <<session, wait, failing, cleaning, io, stop, db, use, calls, disturbances, lost>>
ReturnsNull ==
    /\ reg.at = "nullClean" /\ cleaning = "done"
    /\ reg' = [reg EXCEPT !.at = "returned", !.result = "null"]
    /\ UNCHANGED <<session, wait, failing, cleaning, rec, io, stop, db, use, calls, disturbances, lost>>

\* cleanupRegistrationFailureResources: the writer is closed, the file may be unlinked, and
\* a recorded row without a video row is deleted.  "pending" is cleanupPendingRegistration,
\* "continuations" awaitFinalizationContinuations.
FailureResources == <<"close", "unlink", "row">>
Kept(steps, cond) == IF cond THEN steps ELSE <<>>

\* The registration has ended and goes on to clean up `todo` before it ends as `result`.
CleansUp(todo, result) == reg' = [reg EXCEPT !.at = "clean", !.todo = todo, !.result = result]
ClosesWriter(i, todo) ==
    IF todo # <<>> /\ Head(todo) = "close" /\ i.writer = "open" THEN [i EXCEPT !.writer = "ending"] ELSE i
\* destroyReplacedWaitingStream
ReplacedIo ==
    IF wait.owner = "Replacement" /\ io.stream = "open" THEN [io EXCEPT !.stream = "closing"] ELSE io

\* settleTerminatedRegistration and settleAfterRegistrationCancelled.
Terminated_NoPending == Kept(FailureResources, wait.owner # "Deletion")
Terminated == Kept(FailureResources, wait.owner # "Deletion") \o <<"pending">>
SettleTerminated ==
    /\ CleansUp(Terminated, "terminated")
    /\ io' = ClosesWriter(ReplacedIo, Terminated)
    /\ UNCHANGED <<wait, rec, stop, lost>>

RegistrationFailed ==
    /\ reg.at = "returned" /\ reg.result = "error"
    /\ \/ /\ wait.owner # "None"
          /\ SettleTerminated
       \/ /\ wait.owner = "None" /\ wait.settled
          /\ CleansUp(Kept(<<"pending">>, wait.pending), "null")
          /\ lost' = IF ~wait.pending /\ reg.recorded /\ failing \in {<<"over">>, <<>>}
                       THEN lost \cup {"forsaken"} ELSE lost
          /\ UNCHANGED <<wait, rec, io, stop>>
       \/ /\ wait.owner = "None" /\ ~wait.settled
          /\ wait' = [wait EXCEPT !.settled = TRUE]
          /\ IF IsCurrent(RegistrationPhases)
               THEN /\ CleansUp(FailureResources, "failure")
                    /\ rec' = DestroyedRec(TRUE) /\ stop' = DestroyedStop(TRUE)
                    /\ io' = ClosesWriter(DestroyedIo(TRUE), FailureResources)
               ELSE /\ CleansUp(FailureResources, "stale")
                    /\ io' = ClosesWriter(io, FailureResources)
                    /\ UNCHANGED <<rec, stop>>
          /\ UNCHANGED lost
    /\ UNCHANGED <<session, failing, cleaning, db, use, calls, disturbances>>

RegistrationGivenUp ==
    /\ reg.at = "returned" /\ reg.result = "null"
    /\ CleansUp(<<>>, "null")
    /\ UNCHANGED <<session, wait, failing, cleaning, rec, io, stop, db, use, calls, disturbances, lost>>

RegistrationCancelled ==
    /\ reg.at = "returned" /\ reg.result = "ok" /\ wait.settled
    /\ SettleTerminated
    /\ UNCHANGED <<session, failing, cleaning, db, use, calls, disturbances>>

\* The recording is being deleted by the storage: tryRegisterSessionUse refuses.
UseRefused ==
    LET todo == <<"close", "row", "continuations", "pending">>
    IN  /\ reg.at = "returned" /\ reg.result = "ok" /\ ~wait.settled
        /\ Disturb
        /\ CleansUp(todo, "refused")
        /\ rec' = DestroyedRec(TRUE) /\ stop' = DestroyedStop(TRUE)
        /\ io' = ClosesWriter(DestroyedIo(TRUE), todo)
        /\ UNCHANGED <<session, wait, failing, cleaning, db, use, calls, lost>>

\* The session has been taken away, or moved on, while the registration ran.
RegistrationUnowned ==
    LET todo == Kept(<<"close", "row">>, ~rec.plan) \o <<"continuations", "pending">>
    IN  /\ reg.at = "returned" /\ reg.result = "ok" /\ ~wait.settled
        /\ ~IsCurrent(RegistrationPhases)
        /\ CleansUp(todo, "null")
        /\ io' = ClosesWriter(ReplacedIo, todo)
        /\ UNCHANGED <<session, wait, failing, cleaning, rec, stop, db, use, calls, disturbances, lost>>

\* The recording begins: it is in use, and the ends of stream and writer are observed.
StartRecording ==
    /\ reg.at = "returned" /\ reg.result = "ok" /\ ~wait.settled
    /\ IsCurrent(RegistrationPhases)
    /\ session' = [session EXCEPT !.phase = "Recording"]
    /\ wait' = [wait EXCEPT !.settled = TRUE, !.promise = "resolved", !.owner = "absent"]
    /\ reg' = [reg EXCEPT !.at = "idle"]
    /\ rec' = [rec EXCEPT !.started = TRUE]
    /\ use' = "active"
    /\ lost' = IF rec.recordedId /\ rec.videoFileId THEN lost ELSE lost \cup {"missed"}
    /\ UNCHANGED <<failing, cleaning, io, stop, db, calls, disturbances>>

-----------------------------------------------------------------------------
(* Clean-up. *)

\* cleanupPendingRegistration, once for all who ask: the rows by the ids that are known,
\* the row of the drop log, the file; then the recorder forgets them.
DeleteRow(row, isKnown) ==
    \/ /\ db' = IF ~isKnown THEN db
                  ELSE IF row = "video" THEN [db EXCEPT !.video = FALSE]
                  ELSE [db EXCEPT !.recorded = FALSE, !.flag = FALSE]
       /\ UNCHANGED <<disturbances, lost>>
    \/ /\ isKnown /\ Disturb
       /\ lost' = lost \cup {"stuck"}
       /\ UNCHANGED db
PendingAsked ==
    /\ cleaning = "none"
    /\ reg.at = "nullClean" \/ (reg.at = "clean" /\ reg.todo # <<>> /\ Head(reg.todo) = "pending")
    /\ cleaning' = "video"
    /\ UNCHANGED <<session, wait, reg, failing, rec, io, stop, db, use, calls, disturbances, lost>>
PendingVideo ==
    /\ cleaning = "video" /\ cleaning' = "recorded"
    /\ DeleteRow("video", reg.video)
    /\ UNCHANGED <<session, wait, reg, failing, rec, io, stop, use, calls>>
PendingRecorded ==
    /\ cleaning = "recorded" /\ cleaning' = "file"
    /\ DeleteRow("recorded", reg.recorded)
    /\ UNCHANGED <<session, wait, reg, failing, rec, io, stop, use, calls>>
PendingFile ==
    /\ cleaning = "file" /\ cleaning' = "done"
    /\ db' = [db EXCEPT !.file = FALSE]
    /\ rec' = [rec EXCEPT !.videoFileId = @ /\ ~reg.video, !.recordedId = @ /\ ~reg.recorded,
                          !.dropLogFileId = FALSE]
    /\ UNCHANGED <<session, wait, reg, failing, io, stop, use, calls, disturbances, lost>>

\* One step of a clean-up.
Waits(step) ==
    \/ step = "close" /\ io.writer = "closed"
    \/ step = "pending" /\ cleaning = "done"
    \/ step = "continuations" /\ rec.tails = {}
CleanStep(todo) ==
    \/ /\ Waits(Head(todo))
       /\ UNCHANGED <<db, rec, disturbances, lost>>
    \/ /\ Head(todo) = "unlink"
       /\ db' = [db EXCEPT !.file = FALSE]
       /\ UNCHANGED <<rec, disturbances, lost>>
    \/ /\ Head(todo) = "row"
       /\ DeleteRow("recorded", reg.recorded /\ ~reg.video)
       /\ rec' = IF reg.recorded /\ ~reg.video THEN [rec EXCEPT !.recordedId = FALSE] ELSE rec

\* The id of a row that is deleted leaves the resources.
Forgotten(r, step) ==
    IF step = "row" /\ r.recorded /\ ~r.video /\ ~db'.recorded THEN [r EXCEPT !.recorded = FALSE] ELSE r
RegistrationCleans ==
    /\ reg.at = "clean" /\ reg.todo # <<>>
    /\ CleanStep(reg.todo)
    /\ reg' = [Forgotten(reg, Head(reg.todo)) EXCEPT !.todo = Tail(@)]
    /\ UNCHANGED <<session, wait, failing, cleaning, io, stop, use, calls>>
FailureCleans ==
    /\ failing \notin {<<"idle">>, <<"over">>, <<>>}
    /\ CleanStep(failing)
    /\ failing' = Tail(failing)
    /\ reg' = Forgotten(reg, Head(failing))
    /\ UNCHANGED <<session, wait, cleaning, io, stop, use, calls>>

\* prepRecord's catch: an attempt that is to stop is cancelled, another is repeated while
\* the session is current (RetryWaiting; the next attempt is not modelled).
Rejected ==
    /\ session' = IF stop.prep THEN session ELSE Transition(ActivePhases, "RetryWaiting")
    /\ rec' = IF stop.prep \/ IsCurrent(ActivePhases) THEN [rec EXCEPT !.isRecording = FALSE] ELSE rec

\* The end of onData when its clean-up is done.
Settles_NotPending(w) == ~w.settled
Settles(w) == w.pending \/ ~w.settled
RegistrationOver ==
    /\ reg.at = "clean" /\ reg.todo = <<>>
    /\ reg' = [reg EXCEPT !.at = "idle"]
    /\ \/ /\ reg.result \in {"null", "terminated"}
          /\ wait' = [wait EXCEPT !.settled = TRUE, !.pending = FALSE, !.owner = "absent",
                                  !.promise = IF Settles(wait) THEN "resolved" ELSE @]
          /\ session' = IF reg.result = "terminated" /\ wait.owner = "Cancel" /\ ~session.rebound
                          THEN Transition(RegistrationPhases, "Cancelled") ELSE session
          /\ UNCHANGED <<rec, calls>>
       \/ /\ reg.result = "stale"
          /\ wait' = [wait EXCEPT !.promise = "resolved", !.owner = "absent"]
          /\ UNCHANGED <<session, rec, calls>>
       \/ /\ reg.result = "failure"
          /\ wait' = [wait EXCEPT !.promise = "rejected", !.owner = "absent"]
          /\ Rejected
          /\ UNCHANGED calls
       \/ /\ reg.result = "refused"
          /\ wait' = [wait EXCEPT !.promise = "resolved", !.owner = "absent"]
          /\ session' = IF rec.plan THEN session ELSE Transition(ActivePhases, "Cancelled")
          /\ rec' = [rec EXCEPT !.isRecording = FALSE]
          /\ calls' = [calls EXCEPT !.indexed = @ /\ stop.state = "stopping"]
    /\ UNCHANGED <<failing, cleaning, io, stop, db, use, disturbances, lost>>

\* settleFailure from outside of the registration: the stream or the writer fails, or no
\* data comes in time.
StartFails ==
    /\ ~wait.settled /\ rec.hasStream /\ failing = <<"idle">>
    /\ Disturb
    /\ wait' = [wait EXCEPT !.settled = TRUE]
    /\ rec' = DestroyedRec(TRUE) /\ stop' = DestroyedStop(TRUE)
    /\ io' = ClosesWriter(DestroyedIo(TRUE), FailureResources)
    /\ failing' = FailureResources
    /\ UNCHANGED <<session, reg, cleaning, db, use, calls, lost>>
StartFailed ==
    /\ failing = <<>>
    /\ failing' = <<"over">>
    /\ wait' = [wait EXCEPT !.promise = "rejected"]
    /\ Rejected
    /\ UNCHANGED <<reg, cleaning, io, stop, db, use, calls, disturbances, lost>>

-----------------------------------------------------------------------------
(* Ends of a recording. *)

\* The stream ends, or breaks.
StreamStops ==
    /\ rec.started /\ io.stream = "open"
    /\ io' = [io EXCEPT !.stream = "closed"]
    /\ UNCHANGED <<session, wait, reg, failing, cleaning, rec, stop, db, use, calls, disturbances, lost>>

\* setEndProcess: the end of stream or writer, early or in time, with an error (recFailed)
\* or without.
EndObserved ==
    /\ rec.started /\ io.stream = "closed" /\ rec.fin = "none" /\ ~rec.canceled
    /\ RecEnd(FALSE)
    /\ UNCHANGED <<wait, reg, failing, cleaning, db, use, calls, disturbances, lost>>

\* The writer fails: the error handler of recFile, which takes a recording whose file it
\* does not know for one that has not started and unlinks the file.
WriteFails ==
    /\ rec.started /\ rec.hasStream /\ rec.fin = "none"
    /\ Disturb
    /\ session' = Transition(ActivePhases, "Finishing")
    /\ rec' = [DestroyedRec(~rec.plan) EXCEPT !.canceled = TRUE, !.fin = FinBegins(rec)]
    /\ io' = DestroyedIo(~rec.plan) /\ stop' = DestroyedStop(~rec.plan)
    /\ db' = [db EXCEPT !.file = @ /\ rec.videoFileId]
    /\ UNCHANGED <<wait, reg, failing, cleaning, use, calls, lost>>

\* The reservation is removed from the scheduler; then the manager cancels the recorder,
\* which reads what has arrived before it cuts the stream off.
Remove ==
    /\ session.bound # "gone" /\ calls.indexed
    /\ session' = [session EXCEPT !.bound = "gone"]
    /\ calls' = [calls EXCEPT !.removal = "accepted"]
    /\ Disturb
    /\ UNCHANGED <<wait, reg, failing, cleaning, rec, io, stop, db, use, lost>>
Cancel ==
    LET acts == calls.indexed /\ stop.state = "none"
    IN  /\ calls.removal = "accepted"
        /\ wait' = IF ~acts THEN wait
                     ELSE LET w == [wait EXCEPT !.owner = Promoted("Cancel")]
                          IN  IF rec.isRecording THEN CancelFirstDataWait(w) ELSE w
        /\ calls' = [calls EXCEPT !.indexed = @ /\ stop.state # "none",
                                  !.removal = IF acts /\ rec.isRecording /\ rec.hasStream
                                                THEN "draining" ELSE "done"]
        /\ UNCHANGED <<session, reg, failing, cleaning, rec, io, stop, db, use, disturbances, lost>>
CutOff ==
    /\ calls.removal = "draining"
    /\ calls' = [calls EXCEPT !.removal = "done"]
    /\ io' = [io EXCEPT !.stream = IF @ = "open" THEN "closed" ELSE @]
    /\ UNCHANGED <<session, wait, reg, failing, cleaning, rec, stop, db, use, disturbances, lost>>

\* The end of a time-specified recording: the controller moves the session to Finishing,
\* and the recorder is called unless the session has changed since.
EndDue ==
    /\ calls.end = "none" /\ IsCurrent(ActivePhases)
    /\ session' = [session EXCEPT !.phase = "Finishing"]
    /\ calls' = [calls EXCEPT !.end = "due"]
    /\ Disturb
    /\ UNCHANGED <<wait, reg, failing, cleaning, rec, io, stop, db, use, lost>>
FinishAtTimeSpecifiedEnd ==
    LET acts == IsCurrent({"Finishing"}) /\ calls.indexed
    IN  /\ calls.end = "due"
        /\ calls' = [calls EXCEPT !.end = IF acts THEN "draining" ELSE "done"]
        /\ wait' = IF acts THEN CancelFirstDataWait([wait EXCEPT !.owner = Promoted("Cancel")]) ELSE wait
        /\ rec' = [rec EXCEPT !.canceled = @ \/ acts]
        /\ UNCHANGED <<session, reg, failing, cleaning, io, stop, db, use, disturbances, lost>>
EndDrained ==
    /\ calls.end = "draining"
    /\ calls' = [calls EXCEPT !.end = "done"]
    /\ RecEnd(TRUE)
    /\ UNCHANGED <<wait, reg, failing, cleaning, db, use, disturbances, lost>>

-----------------------------------------------------------------------------
(* Deletion of a recording that is under way. *)

\* stopForDeletion: everything that runs is told to stop and observed by one latch.
StopForDeletion ==
    LET unstarted == rec.hasStream \/ rec.hasFile \/ rec.dropLogFileId \/ rec.recordedId \/ rec.isRecording
        work      == rec.fin # "none" \/ rec.tails # {} \/ unstarted
        begins    == rec.fin = "none" /\ unstarted
    IN  /\ calls.indexed /\ db.recorded /\ stop.state = "none" /\ session.phase # "RetryWaiting"
        /\ session' = Transition(ActivePhases \cup {"Finishing"}, "StoppingForDeletion")
        /\ wait' = CancelFirstDataWait([wait EXCEPT !.owner = Promoted("Deletion")])
        /\ stop' = [state |-> "stopping", prep |-> wait.promise = "open", final |-> work,
                    tails |-> IF begins THEN Observed(FALSE) ELSE {}]
        /\ rec' = [rec EXCEPT !.plan = TRUE, !.canceled = @ \/ work,
                              !.hasStream = @ /\ ~begins, !.hasFile = @ /\ ~begins,
                              !.fin = IF begins THEN "stopDrop" ELSE @]
        /\ io' = IF ~begins THEN io
                   ELSE [DestroyedIo(FALSE) EXCEPT !.drop = IF @ = "on" THEN "stopping" ELSE @]
        /\ Disturb
        /\ UNCHANGED <<reg, failing, cleaning, db, use, calls, lost>>

LatchOpen ==
    /\ stop.prep => wait.promise # "open"
    /\ stop.final => rec.fin \in Over \cup {"none"} /\ rec.tails = {}
    /\ stop.tails = {}
DeletionTerminal ==
    /\ stop.state = "stopping" /\ LatchOpen
    /\ stop' = [stop EXCEPT !.state = "over"]
    /\ session' = Transition({"StoppingForDeletion"}, "Cancelled")
    /\ rec' = [rec EXCEPT !.isRecording = FALSE]
    /\ use' = IF use = "active" THEN "released" ELSE use
    /\ calls' = [calls EXCEPT !.indexed = FALSE]
    /\ UNCHANGED <<wait, reg, failing, cleaning, io, db, disturbances, lost>>

\* The request for the deletion (RecordedManageModel) goes on and deletes what it finds.
DeletionCommits ==
    /\ stop.state = "over" /\ ~calls.commit
    /\ calls' = [calls EXCEPT !.commit = TRUE]
    /\ db' = IF db.recorded
               THEN [recorded |-> FALSE, flag |-> FALSE, video |-> FALSE, file |-> db.file /\ ~db.video]
               ELSE db
    /\ UNCHANGED <<session, wait, reg, failing, cleaning, rec, io, stop, use, disturbances, lost>>

-----------------------------------------------------------------------------

\* The stream is open and written to a file, with or without a drop checker, and no data
\* has been seen yet.
Init ==
    /\ session = [phase |-> "AwaitingFirstData", bound |-> "current", rebound |-> FALSE]
    /\ wait = [observed |-> FALSE, settled |-> FALSE, pending |-> FALSE, promise |-> "open",
               owner |-> "absent"]
    /\ reg = [at |-> "idle", todo |-> <<>>, result |-> "none", recorded |-> FALSE, video |-> FALSE]
    /\ failing = <<"idle">> /\ cleaning = "none"
    /\ rec = [isRecording |-> TRUE, plan |-> FALSE, canceled |-> FALSE, recordedId |-> FALSE,
              videoFileId |-> FALSE, dropLogFileId |-> DropCheck, hasStream |-> TRUE,
              hasFile |-> TRUE, started |-> FALSE, fin |-> "none", tails |-> {}, normal |-> FALSE]
    /\ io = [stream |-> "open", writer |-> "open", drop |-> IF DropCheck THEN "on" ELSE "off"]
    /\ stop = [state |-> "none", prep |-> FALSE, final |-> FALSE, tails |-> {}]
    /\ db = [recorded |-> FALSE, flag |-> FALSE, video |-> FALSE, file |-> TRUE]
    /\ use = "none"
    /\ calls = [removal |-> "none", end |-> "none", save |-> FALSE, indexed |-> TRUE, commit |-> FALSE]
    /\ disturbances = 0
    /\ lost = {}

RegistrationStep ==
    \/ CreateRecorded \/ InsertRecorded \/ RecordedInserted \/ InsertVideoFile \/ VideoFileInserted
    \/ CallFails \/ ReturnsNull \/ RegistrationFailed \/ RegistrationGivenUp \/ RegistrationCancelled
    \/ UseRefused \/ RegistrationUnowned \/ StartRecording \/ RegistrationCleans \/ RegistrationOver
CleanupStep ==
    \/ PendingAsked \/ PendingVideo \/ PendingRecorded \/ PendingFile \/ FailureCleans \/ StartFailed
FinalizationStep ==
    \/ RemoveRecording \/ UpdateDropFileLog \/ FinishRecording \/ FinishEmpty
    \/ StreamCloses \/ WriterCloses \/ DropStops \/ SizeUpdated
    \/ EndObserved \/ NormalTerminal \/ DeletionTerminal

\* What goes on by itself, each step bounded: the answers of calls and the ends of streams.
Progress ==
    \/ RegistrationStep \/ CleanupStep \/ FinalizationStep
    \/ Rebind \/ SaveWrites \/ Cancel \/ CutOff \/ FinishAtTimeSpecifiedEnd \/ EndDrained

Next ==
    \/ Progress
    \/ FirstData \/ RegistrationOverdue \/ StartFails \/ StreamStops \/ WriteFails
    \/ Update \/ Remove \/ EndDue \/ StopForDeletion \/ DeletionCommits

Spec == Init /\ [][Next]_vars
\* The database, the disk and the event loop answer; nothing else need happen.
FairSpec == Spec /\ WF_vars(Progress)

-----------------------------------------------------------------------------

\* Nothing of the recorder is running.
AtRest ==
    /\ wait.promise # "open" /\ reg.at = "idle" /\ failing \in {<<"idle">>, <<"over">>}
    /\ cleaning \in {"none", "done"}
    /\ rec.fin \in Over \cup {"none"} /\ (rec.started => rec.fin # "none")
    /\ rec.tails = {} /\ ~calls.save /\ stop.state # "stopping"

\* Once a registration has begun, what is left when the recorder rests is a recording with
\* both rows and a file, no longer marked as being recorded, or nothing at all, whatever
\* ended it and wherever; a recording that is to be deleted keeps its mark until then.
\* Five causes in the code are excused: a row whose delete failed (stuck), a flag whose
\* removal failed (unfinished), an update written behind the removal of the flag
\* (overwritten), an id that arrived while an update was being taken over, so that the
\* end of the recording knows no row (missed), and a failed start followed by a failed
\* insert of the video file (forsaken).
NothingHalfRecorded ==
    AtRest /\ reg.result # "none" /\ lost = {} =>
        /\ db.recorded = db.video /\ db.video = db.file
        /\ db.flag => rec.plan

\* The use of a recording, which keeps the storage from deleting it, is given up only when
\* its writer has closed, its finalisation is over and its size is measured.
UseCoversRecording ==
    use = "released" => io.writer = "closed" /\ rec.fin \in Over /\ "size" \notin rec.tails

\* A stop for deletion comes to its end, a recording that is finalised is released, and a
\* cancelled wait is answered.
RecordersEnd ==
    /\ stop.state = "stopping" ~> stop.state = "over"
    /\ (use = "active" /\ rec.fin # "none") ~> use = "released"
    /\ wait.pending ~> wait.promise # "open"
=============================================================================
