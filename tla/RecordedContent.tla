--------------------------- MODULE RecordedContent ---------------------------
(***************************************************************************)
(* Recordings, their video files and their rows (RecordedManageModel), and  *)
(* everybody who adds to them or deletes from them at the same time:        *)
(* deletions by users, by the encoder and under storage pressure, which     *)
(* prepare a token and commit it under the lock of the recording; the       *)
(* clean-up of files, which takes no lock; recorders and encoders, which    *)
(* write a file first and register it afterwards.                           *)
(*                                                                          *)
(* The database refuses to delete a recording that has video rows and to    *)
(* insert a video row without its recording (foreign keys).  Thumbnails and *)
(* drop logs go with the video files and are left out.                      *)
(***************************************************************************)
EXTENDS Naturals, FiniteSets, Sequences

CONSTANTS
    Recs,               \* recordings
    Upcoming,           \* the ones that are recorded during the behaviour
    Videos,             \* video files
    RecOf,              \* video file -> its recording
    Recorded,           \* recording -> the file its recorder writes
    Encoded,            \* the files that encoders make
    Requests,           \* requests, each made once
    KindOf,             \* request -> "user", "video", "storage" or "encode"
    Asked,              \* request -> the video file it deletes (its recording: RecOf)
    Made,               \* request of an encoder -> the file it makes
    MaxRequests,        \* bound: requests that are made
    MaxProtects,        \* bound: changes of the protection
    MaxCleanups,        \* bound: clean-ups of the files
    MaxFailures         \* bound: failures of the database and the file system

\* A recorder writes a file of its own recording, an encoder adds one to the recording whose
\* file it reads; no two write the same file: each takes a name that is free (_getRecPath,
\* EncodeFileManageModel.getFilePath). A file that takes the name of a deleted one is another.
ASSUME ContentAssumption ==
    /\ Upcoming \subseteq Recs /\ Encoded \subseteq Videos
    /\ RecOf \in [Videos -> Recs]
    /\ Recorded \in [Recs -> Videos] /\ \A rec \in Recs : RecOf[Recorded[rec]] = rec
    /\ \A rec \in Recs : Recorded[rec] \notin Encoded
    /\ KindOf \in [Requests -> {"user", "video", "storage", "encode"}]
    /\ Asked \in [Requests -> Videos]
    /\ Made \in [{q \in Requests : KindOf[q] = "encode"} -> Encoded]
    /\ \A q \in DOMAIN Made : RecOf[Made[q]] = RecOf[Asked[q]]
    /\ \A q, r \in DOMAIN Made : Made[q] = Made[r] => q = r
    /\ {MaxRequests, MaxProtects, MaxCleanups, MaxFailures} \subseteq Nat

VARIABLES
    recorded,           \* recording -> [exists, isProtected, isRecording]
    videoFiles,         \* the rows of video files
    files,              \* the files
    recorder,           \* recording -> what its recorder does
    request,            \* request -> [step, act, isRecording, plan, left]
    tails,              \* RecordedResourceMutationLock: recording -> requests, in turn
    cleaner,            \* videoFileCleanup: [step, rows, index, list, video, plan]
    shielded,           \* history: recordings protected before any deletion had looked last
    swept,              \* history: the files the clean-up removed as unknown
    bounds              \* [protects, cleanups, failures]

content == <<recorded, videoFiles, files>>
history == <<shielded, swept>>
vars == <<content, recorder, request, tails, cleaner, history, bounds>>

RecAsked(q) == RecOf[Asked[q]]
VideosOf(rec) == {v \in Videos : RecOf[v] = rec}
RowsOf(rec) == videoFiles \cap VideosOf(rec)
Absent == [exists |-> FALSE, isProtected |-> FALSE, isRecording |-> FALSE]
Idle == [step |-> "idle", act |-> "none", isRecording |-> FALSE, plan |-> {}, left |-> {}]
CleanerIdle == [step |-> "idle", rows |-> {}, index |-> {}, list |-> {}, video |-> {}, plan |-> {}]

Fails == bounds.failures < MaxFailures /\ bounds' = [bounds EXCEPT !.failures = @ + 1]

\* A deletion has looked at the recording for the last time and is at work, or the recorder
\* would take back its own registration (cleanupPendingRegistration does not ask).
Committed(rec) ==
    \/ recorder[rec] = "registering"
    \/ \E q \in Requests : RecAsked(q) = rec /\ request[q].step \in {"unlink", "canonical"}
    \/ cleaner.step \in {"legacyRow", "wholeFiles", "wholeRows", "wholeRecorded"}
       /\ \E v \in cleaner.video : RecOf[v] = rec

\* A request is still to be made.
Fresh(q) ==
    /\ request[q].step = "idle"
    /\ Cardinality({r \in Requests : request[r].step # "idle"}) < MaxRequests

Go(q, step) == request' = [request EXCEPT ![q].step = step]

-----------------------------------------------------------------------------
(* ParentUserDeletionCoordinator, ParentVideoFileDeletionCoordinator. *)

\* A request arrives.  A user who deletes a recording stops its encoders first
\* (ServiceChildUserDeletionCoordinator); what they were writing is removed.
Ask(q) ==
    LET stopped == {e \in Requests : /\ KindOf[q] = "user" /\ KindOf[e] = "encode"
                                     /\ RecAsked(e) = RecAsked(q) /\ request[e].step = "encoding"}
    IN  /\ Fresh(q) /\ KindOf[q] # "encode"
        /\ request' = [r \in Requests |->
               IF r = q THEN [Idle EXCEPT !.step = IF KindOf[q] = "user" THEN "whole" ELSE KindOf[q]]
               ELSE IF r \in stopped THEN [Idle EXCEPT !.step = "done"] ELSE request[r]]
        /\ files' = files \ {Made[e] : e \in stopped}
        /\ UNCHANGED <<recorded, videoFiles, recorder, tails, cleaner, history, bounds>>

\* runExclusive: the commit waits for its turn.
Enqueue(q, act, isRecording) ==
    /\ request' = [request EXCEPT ![q] = [Idle EXCEPT !.step = "queued", !.act = act, !.isRecording = isRecording]]
    /\ tails' = [tails EXCEPT ![RecAsked(q)] = Append(@, q)]

\* prepareUserDeletion; a recorder at work is stopped before the commit.
PrepareUserDeletion(q) ==
    LET r == recorded[RecAsked(q)] IN
    /\ request[q].step = "whole"
    /\ IF ~r.exists \/ r.isProtected THEN Go(q, "done") /\ UNCHANGED tails
       ELSE IF r.isRecording /\ recorder[RecAsked(q)] \in {"registering", "recording"}
       THEN Go(q, "stopping") /\ UNCHANGED tails
       ELSE Enqueue(q, "whole", r.isRecording)
    /\ UNCHANGED <<content, recorder, cleaner, history, bounds>>

\* The recorder stops without taking its flag away (isPlanToDelete); one that is just
\* registering takes its rows and its file away itself.
StopRecorder(rec) ==
    IF recorder[rec] = "registering"
    THEN /\ recorder' = [recorder EXCEPT ![rec] = "stopped"]
         /\ recorded' = [recorded EXCEPT ![rec] = Absent]
         /\ files' = files \ {Recorded[rec]}
    ELSE /\ recorder' = [recorder EXCEPT ![rec] = IF @ = "recording" THEN "stopped" ELSE @]
         /\ UNCHANGED <<recorded, files>>

\* stopActiveRecording: requestCancellationForDeletion.
StopActiveRecording(q) ==
    /\ request[q].step = "stopping"
    /\ StopRecorder(RecAsked(q))
    /\ Enqueue(q, "whole", TRUE)
    /\ UNCHANGED <<videoFiles, cleaner, history, bounds>>

\* prepareVideoFileDeletion: the last file, or one being recorded, goes with its recording.
PrepareVideoFileDeletion(q) ==
    LET r == recorded[RecAsked(q)] IN
    /\ request[q].step = "video"
    /\ IF Asked[q] \notin videoFiles \/ r.isProtected THEN Go(q, "done") /\ UNCHANGED tails
       ELSE IF r.isRecording \/ Cardinality(RowsOf(RecAsked(q))) <= 1
       THEN Go(q, "whole") /\ UNCHANGED tails
       ELSE Enqueue(q, "video", FALSE)
    /\ UNCHANGED <<content, recorder, cleaner, history, bounds>>

\* getStorageDeletionRefusal, for recordings that lie on one storage.
StorageRefuses(rec) ==
    LET r == recorded[rec] IN ~r.exists \/ r.isProtected \/ r.isRecording \/ RowsOf(rec) = {}

\* prepareStorageDeletion.  The gates for recordings in use are in RecordedUse.
PrepareStorageDeletion(q) ==
    /\ request[q].step = "storage"
    /\ IF StorageRefuses(RecAsked(q)) THEN Go(q, "done") /\ UNCHANGED tails
       ELSE Enqueue(q, "storage", FALSE)
    /\ UNCHANGED <<content, recorder, cleaner, history, bounds>>

-----------------------------------------------------------------------------
(* deletePrepared, deletePreparedVideoFile, deletePreparedForStorage: the turn *)
(* of q has come, and what was prepared is looked at again.                    *)

MyTurn(q) == tails[RecAsked(q)] # <<>> /\ Head(tails[RecAsked(q)]) = q

\* Variant: a refused commit keeps its turn.
Leave_OnSuccess(q) ==
    tails' = IF request[q].step = "queued" THEN tails ELSE [tails EXCEPT ![RecAsked(q)] = Tail(@)]

Leave(q) == tails' = [tails EXCEPT ![RecAsked(q)] = Tail(@)]

\* Variant: the protection is not looked at again.
Refused_OldProtection(q) ==
    LET rec == RecAsked(q)
        r   == recorded[rec]
    IN  CASE request[q].act = "whole"   -> ~r.exists \/ r.isRecording # request[q].isRecording
          [] request[q].act = "video"   -> Asked[q] \notin videoFiles
          [] request[q].act = "storage" -> ~r.exists \/ r.isRecording \/ RowsOf(rec) = {}

Refused(q) ==
    LET rec == RecAsked(q)
        r   == recorded[rec]
    IN  CASE request[q].act = "whole"   -> ~r.exists \/ r.isProtected \/ r.isRecording # request[q].isRecording
          [] request[q].act = "video"   -> Asked[q] \notin videoFiles \/ r.isProtected
          [] request[q].act = "storage" -> StorageRefuses(rec)

\* Variant: the other files are not counted again.
NeedsWhole_OldCount(q) == request[q].act = "video" /\ recorded[RecAsked(q)].isRecording

NeedsWhole(q) ==
    /\ request[q].act = "video"
    /\ recorded[RecAsked(q)].isRecording \/ Cardinality(RowsOf(RecAsked(q))) <= 1

Reread(q) ==
    LET plan == IF request[q].act = "video" THEN {Asked[q]} ELSE RowsOf(RecAsked(q)) IN
    /\ request[q].step = "queued" /\ MyTurn(q)
    /\ IF Refused(q) THEN Go(q, "done") /\ Leave(q)
       ELSE IF NeedsWhole(q) THEN Go(q, "whole") /\ Leave(q)
       ELSE /\ request' = [request EXCEPT ![q].step = "unlink", ![q].plan = plan, ![q].left = plan]
            /\ UNCHANGED tails
    /\ UNCHANGED <<content, recorder, cleaner, history, bounds>>

\* removeManagedFile, file by file; a file that cannot be removed is passed over, unless
\* it is the single one to be deleted and its path is refused.
Unlink(q, v) ==
    /\ request[q].step = "unlink" /\ v \in request[q].left
    /\ \/ files' = files \ {v} /\ UNCHANGED <<bounds, tails>> /\ request' = [request EXCEPT ![q].left = @ \ {v}]
       \/ Fails /\ UNCHANGED <<files, tails>> /\ request' = [request EXCEPT ![q].left = @ \ {v}]
       \/ request[q].act = "video" /\ Fails /\ UNCHANGED files /\ Go(q, "done") /\ Leave(q)
    /\ UNCHANGED <<recorded, videoFiles, recorder, cleaner, history>>

\* The rows of the plan are deleted, those whose deletion does not fail.
DeleteVideoRows(q) ==
    /\ request[q].step = "unlink" /\ request[q].left = {}
    /\ \/ videoFiles' = videoFiles \ request[q].plan /\ UNCHANGED bounds
       \/ Fails /\ UNCHANGED videoFiles
    /\ IF request[q].act = "video" THEN Go(q, "done") /\ Leave(q) ELSE Go(q, "canonical") /\ UNCHANGED tails
    /\ UNCHANGED <<recorded, files, recorder, cleaner, history>>

\* recordedDB.deleteOnce; the turn ends with it, whether it succeeds or not.
DeleteRecorded(q) ==
    LET rec == RecAsked(q) IN
    /\ request[q].step = "canonical"
    /\ \/ RowsOf(rec) = {} /\ recorded' = [recorded EXCEPT ![rec] = Absent] /\ UNCHANGED bounds
       \/ RowsOf(rec) # {} /\ UNCHANGED <<recorded, bounds>>
       \/ Fails /\ UNCHANGED recorded
    /\ Go(q, "done") /\ Leave(q)
    /\ UNCHANGED <<videoFiles, files, recorder, cleaner, history>>

-----------------------------------------------------------------------------
(* EncodeFinishModel.finishEncode with removeOriginal. *)

EncoderWrites(q) ==
    /\ KindOf[q] = "encode" /\ Fresh(q) /\ Asked[q] \in videoFiles
    /\ files' = files \cup {Made[q]}
    /\ Go(q, "encoding")
    /\ UNCHANGED <<recorded, videoFiles, recorder, tails, cleaner, history, bounds>>

\* addVideoFile: the file is measured, and registered; without that the source stays.
MeasureVideoFile(q) ==
    /\ request[q].step = "encoding"
    /\ Go(q, IF Made[q] \in files THEN "measured" ELSE "done")
    /\ UNCHANGED <<content, recorder, tails, cleaner, history, bounds>>

InsertVideoFile(q) ==
    /\ request[q].step = "measured"
    /\ \/ /\ recorded[RecAsked(q)].exists
          /\ videoFiles' = videoFiles \cup {Made[q]}
          /\ Go(q, "video") /\ UNCHANGED bounds
       \/ ~recorded[RecAsked(q)].exists /\ Go(q, "done") /\ UNCHANGED <<videoFiles, bounds>>
       \/ Fails /\ Go(q, "done") /\ UNCHANGED videoFiles
    /\ UNCHANGED <<recorded, files, recorder, tails, cleaner, history>>

-----------------------------------------------------------------------------
(* RecorderModel. *)

RecorderOpens(rec) ==
    /\ rec \in Upcoming /\ recorder[rec] = "none"
    /\ recorder' = [recorder EXCEPT ![rec] = "writing"]
    /\ files' = files \cup {Recorded[rec]}
    /\ UNCHANGED <<recorded, videoFiles, request, tails, cleaner, history, bounds>>

\* addRecorded: two rows.
RegisterRecorded(rec) ==
    /\ recorder[rec] = "writing"
    /\ recorder' = [recorder EXCEPT ![rec] = "registering"]
    /\ recorded' = [recorded EXCEPT ![rec] = [exists |-> TRUE, isProtected |-> FALSE, isRecording |-> TRUE]]
    /\ UNCHANGED <<videoFiles, files, request, tails, cleaner, history, bounds>>

RegisterVideoFile(rec) ==
    /\ recorder[rec] = "registering"
    /\ recorder' = [recorder EXCEPT ![rec] = "recording"]
    /\ videoFiles' = videoFiles \cup {Recorded[rec]}
    /\ UNCHANGED <<recorded, files, request, tails, cleaner, history, bounds>>

\* finalizeRecording: removeRecording.
RecordingEnds(rec) ==
    /\ recorder[rec] = "recording"
    /\ recorder' = [recorder EXCEPT ![rec] = "ended"]
    /\ recorded' = [recorded EXCEPT ![rec].isRecording = FALSE]
    /\ UNCHANGED <<videoFiles, files, request, tails, cleaner, history, bounds>>

ChangeProtect(rec) ==
    /\ recorded[rec].exists
    /\ bounds.protects < MaxProtects /\ bounds' = [bounds EXCEPT !.protects = @ + 1]
    /\ recorded' = [recorded EXCEPT ![rec].isProtected = ~@]
    /\ shielded' = IF recorded[rec].isProtected \/ Committed(rec) THEN shielded \ {rec} ELSE shielded \cup {rec}
    /\ UNCHANGED <<swept, videoFiles, files, recorder, request, tails, cleaner>>

-----------------------------------------------------------------------------
(* videoFileCleanup, one at a time. *)

Clean(next) == cleaner' = next
CleanStep(step) == cleaner' = [cleaner EXCEPT !.step = step]

CleanupStarts ==
    /\ cleaner.step = "idle"
    /\ bounds.cleanups < MaxCleanups /\ bounds' = [bounds EXCEPT !.cleanups = @ + 1]
    /\ Clean([CleanerIdle EXCEPT !.step = "check", !.rows = videoFiles])
    /\ UNCHANGED <<content, recorder, request, tails, history>>

\* A row of the list: its file is indexed, or the row is deleted.
CleanupChecks(v) ==
    /\ cleaner.step = "check" /\ v \in cleaner.rows
    /\ IF v \in files THEN Clean([cleaner EXCEPT !.rows = @ \ {v}, !.index = @ \cup {v}])
       ELSE Clean([cleaner EXCEPT !.rows = @ \ {v}, !.step = "legacy", !.video = {v}])
    /\ UNCHANGED <<content, recorder, request, tails, history, bounds>>

\* deleteVideoFile: protected ones stay, a recording goes as a whole.
LegacyRead(v) ==
    LET r == recorded[RecOf[v]] IN
    /\ cleaner.step = "legacy" /\ v \in cleaner.video
    /\ CleanStep(IF v \notin videoFiles \/ r.isProtected THEN "check"
                 ELSE IF r.isRecording THEN "whole" ELSE "legacyRow")
    /\ UNCHANGED <<content, recorder, request, tails, history, bounds>>

LegacyDeletesRow(v) ==
    /\ cleaner.step = "legacyRow" /\ v \in cleaner.video
    /\ files' = files \ {v}
    /\ videoFiles' = videoFiles \ {v}
    /\ CleanStep("legacyReread")
    /\ UNCHANGED <<recorded, recorder, request, tails, history, bounds>>

LegacyRereads(v) ==
    /\ cleaner.step = "legacyReread" /\ v \in cleaner.video
    /\ CleanStep(IF recorded[RecOf[v]].exists /\ RowsOf(RecOf[v]) = {} THEN "whole" ELSE "check")
    /\ UNCHANGED <<content, recorder, request, tails, history, bounds>>

\* delete: the recording with what it has, without the lock.
LegacyWholeRead(v) ==
    LET r == recorded[RecOf[v]] IN
    /\ cleaner.step = "whole" /\ v \in cleaner.video
    /\ IF ~r.exists \/ r.isProtected THEN CleanStep("check") /\ UNCHANGED <<recorded, files, recorder>>
       ELSE /\ Clean([cleaner EXCEPT !.step = "wholeFiles", !.plan = RowsOf(RecOf[v])])
            /\ IF r.isRecording THEN StopRecorder(RecOf[v]) ELSE UNCHANGED <<recorded, files, recorder>>
    /\ UNCHANGED <<videoFiles, request, tails, history, bounds>>

LegacyWholeFiles ==
    /\ cleaner.step = "wholeFiles"
    /\ files' = files \ cleaner.plan
    /\ CleanStep("wholeRows")
    /\ UNCHANGED <<recorded, videoFiles, recorder, request, tails, history, bounds>>

\* videoFileDB.deleteRecordedId, when the plan had videos.
LegacyWholeRows(v) ==
    /\ cleaner.step = "wholeRows" /\ v \in cleaner.video
    /\ videoFiles' = IF cleaner.plan = {} THEN videoFiles ELSE videoFiles \ VideosOf(RecOf[v])
    /\ CleanStep("wholeRecorded")
    /\ UNCHANGED <<recorded, files, recorder, request, tails, history, bounds>>

LegacyWholeRecorded(v) ==
    /\ cleaner.step = "wholeRecorded" /\ v \in cleaner.video
    /\ recorded' = IF RowsOf(RecOf[v]) = {} THEN [recorded EXCEPT ![RecOf[v]] = Absent] ELSE recorded
    /\ Clean([cleaner EXCEPT !.step = "check", !.plan = {}])
    /\ UNCHANGED <<videoFiles, files, recorder, request, tails, history, bounds>>

\* getFileList, after all rows were checked; then the files without an index are removed.
CleanupLists ==
    /\ cleaner.step = "check" /\ cleaner.rows = {}
    /\ Clean([CleanerIdle EXCEPT !.step = "sweep", !.list = files \ cleaner.index])
    /\ UNCHANGED <<content, recorder, request, tails, history, bounds>>

CleanupSweeps(v) ==
    /\ cleaner.step = "sweep" /\ v \in cleaner.list
    /\ files' = files \ {v} /\ swept' = swept \cup {v}
    /\ Clean([cleaner EXCEPT !.list = @ \ {v}])
    /\ UNCHANGED <<recorded, videoFiles, recorder, request, tails, shielded, bounds>>

CleanupEnds ==
    /\ cleaner.step = "sweep" /\ cleaner.list = {}
    /\ Clean(CleanerIdle)
    /\ UNCHANGED <<content, recorder, request, tails, history, bounds>>

-----------------------------------------------------------------------------

\* Finished recordings have their first file; the others and the encoded ones come later.
Init ==
    /\ recorded = [rec \in Recs |-> [Absent EXCEPT !.exists = rec \notin Upcoming]]
    /\ videoFiles = {v \in Videos \ Encoded : RecOf[v] \notin Upcoming}
    /\ files = videoFiles
    /\ recorder = [rec \in Recs |-> "none"]
    /\ request = [q \in Requests |-> Idle]
    /\ tails = [rec \in Recs |-> <<>>]
    /\ cleaner = CleanerIdle /\ shielded = {} /\ swept = {}
    /\ bounds = [protects |-> 0, cleanups |-> 0, failures |-> 0]

\* A request goes on.
RequestStep(q) ==
    \/ PrepareUserDeletion(q) \/ StopActiveRecording(q) \/ PrepareVideoFileDeletion(q)
    \/ PrepareStorageDeletion(q) \/ Reread(q) \/ DeleteVideoRows(q) \/ DeleteRecorded(q)
    \/ MeasureVideoFile(q) \/ InsertVideoFile(q)
    \/ \E v \in Videos : Unlink(q, v)

CleanerStep ==
    \/ CleanupLists \/ CleanupEnds \/ LegacyWholeFiles
    \/ \E v \in Videos : \/ CleanupChecks(v) \/ CleanupSweeps(v)
                         \/ LegacyRead(v) \/ LegacyDeletesRow(v) \/ LegacyRereads(v)
                         \/ LegacyWholeRead(v) \/ LegacyWholeRows(v) \/ LegacyWholeRecorded(v)

RecorderStep(rec) ==
    RecorderOpens(rec) \/ RegisterRecorded(rec) \/ RegisterVideoFile(rec) \/ RecordingEnds(rec)

Next ==
    \/ \E q \in Requests : Ask(q) \/ EncoderWrites(q) \/ RequestStep(q)
    \/ \E rec \in Recs : RecorderStep(rec) \/ ChangeProtect(rec)
    \/ CleanupStarts \/ CleanerStep

Spec == Init /\ [][Next]_vars

\* What was started goes on.
FairSpec == Spec /\ WF_vars(CleanerStep) /\ \A q \in Requests : WF_vars(RequestStep(q))

-----------------------------------------------------------------------------
(* Properties. *)

\* A recording that was protected before any deletion looked at it for the last time
\* keeps its row and the rows of its files, whatever was prepared or asked for earlier.
ProtectedKept ==
    [][\A rec \in shielded \cap shielded' :
          recorded'[rec].exists /\ RowsOf(rec) \subseteq videoFiles']_vars

Quiet(rec) ==
    /\ tails[rec] = <<>> /\ cleaner.step = "idle" /\ bounds.failures = 0
    /\ \A q \in Requests : RecAsked(q) = rec => request[q].step \in {"idle", "done"}
    /\ recorder[rec] \in {"none", "ended", "stopped"} /\ VideosOf(rec) \cap swept = {}

\* When nothing works on a recording any more and no call has failed, a recording that is
\* there has a file to play, and each of its registered files is on disk; one that is gone
\* has left no file but one whose registration came too late.  Left out are recordings of
\* which the clean-up has swept a file away: it may have been registered meanwhile.
ContentSettles ==
    \A rec \in Recs : Quiet(rec) =>
        IF recorded[rec].exists THEN RowsOf(rec) # {} /\ RowsOf(rec) \subseteq files
        ELSE files \cap VideosOf(rec) \subseteq Encoded

\* Every request that is made comes to its end: no turn of the lock is lost, and going
\* from one file to the whole recording and back does not go on for ever.
RequestsEnd == \A q \in Requests : request[q].step # "idle" ~> request[q].step = "done"
=============================================================================
