------------------------ MODULE RecordedContentProofs ------------------------
(***************************************************************************)
(* Theorems about RecordedContent, for every number of recordings, files    *)
(* and requests: whatever is asked for, prepared or repeated, and however   *)
(* often something fails, a recording that was protected before a deletion  *)
(* looked at it for the last time keeps its rows; and when nothing works on *)
(* a recording any more, its files and its rows agree.                      *)
(***************************************************************************)
EXTENDS RecordedContent, FiniteSetTheorems, SequenceTheorems, TLAPS

-----------------------------------------------------------------------------
(* Types. *)

Rows == [exists : BOOLEAN, isProtected : BOOLEAN, isRecording : BOOLEAN]
RequestSteps == {"idle", "whole", "video", "storage", "stopping", "queued", "unlink", "canonical",
                 "encoding", "measured", "done"}
Commits == {"whole", "video", "storage"}
RequestStates == [step : RequestSteps, act : Commits \cup {"none"}, isRecording : BOOLEAN,
                  plan : SUBSET Videos, left : SUBSET Videos]
CleanerSteps == {"idle", "check", "legacy", "legacyRow", "legacyReread", "whole", "wholeFiles",
                 "wholeRows", "wholeRecorded", "sweep"}
CleanerStates == [step : CleanerSteps, rows : SUBSET Videos, index : SUBSET Videos,
                  list : SUBSET Videos, video : SUBSET Videos, plan : SUBSET Videos]

\* The variables have the values that the code can give them.
TypeOK ==
    /\ recorded \in [Recs -> Rows] /\ videoFiles \subseteq Videos /\ files \subseteq Videos
    /\ recorder \in [Recs -> {"none", "writing", "registering", "recording", "stopped", "ended"}]
    /\ request \in [Requests -> RequestStates]
    /\ tails \in [Recs -> Seq(Requests)]
    /\ cleaner \in CleanerStates
    /\ shielded \subseteq Recs /\ swept \subseteq Videos
    /\ bounds \in [protects : Nat, cleanups : Nat, failures : Nat]

-----------------------------------------------------------------------------
(* The inductive invariant. *)

\* A recording that is shielded is there and protected, and no deletion of it is past its
\* last look.
ShieldInv ==
    \A rec \in shielded :
        /\ recorded[rec].exists /\ recorded[rec].isProtected
        /\ ~Committed(rec)

\* A recording that is still to be registered is not there.
UpcomingInv ==
    \A rec \in Recs :
        /\ recorder[rec] = "writing" => ~recorded[rec].exists
        /\ recorder[rec] = "none" /\ rec \in Upcoming => ~recorded[rec].exists

\* What a request deletes belongs to the recording it was made for, and an encoder is the only
\* one that adds a file.
PlanInv ==
    \A q \in Requests :
        /\ request[q].step = "queued" => request[q].act \in Commits
        /\ request[q].step \in {"unlink", "canonical"} => request[q].plan \subseteq VideosOf(RecAsked(q))
        /\ request[q].step \in {"encoding", "measured"} => KindOf[q] = "encode"

\* Whoever is past its last look under the lock is the first in the queue of its recording.
LockInv ==
    \A q \in Requests : request[q].step \in {"unlink", "canonical"} => MyTurn(q)

\* The clean-up deletes the row of one file at a time.
CleanerInv == \A v, w \in cleaner.video : v = w

IInv == TypeOK /\ ShieldInv /\ UpcomingInv /\ PlanInv /\ LockInv /\ CleanerInv

\* What ProtectedKept says of a step.
Keeps ==
    \A rec \in shielded \cap shielded' :
        recorded'[rec].exists /\ RowsOf(rec) \subseteq videoFiles'

-----------------------------------------------------------------------------
(* Types are kept. *)

\* Going on to another step keeps the type of the requests.
LEMMA GoTypes ==
    ASSUME TypeOK, NEW q \in Requests, NEW step \in RequestSteps, Go(q, step)
    PROVE  request' \in [Requests -> RequestStates]
<1>1. request \in [Requests -> RequestStates]
  BY DEF TypeOK
<1>2. [request[q] EXCEPT !.step = step] \in RequestStates
  BY <1>1 DEF RequestStates
<1> QED BY <1>1, <1>2 DEF Go

\* So does waiting for the lock, whose turns are requests.
LEMMA EnqueueTypes ==
    ASSUME TypeOK, NEW q \in Requests, NEW act \in Commits, NEW isRecording \in BOOLEAN,
           Enqueue(q, act, isRecording)
    PROVE  request' \in [Requests -> RequestStates] /\ tails' \in [Recs -> Seq(Requests)]
<1>1. RecAsked(q) \in Recs
  BY ContentAssumption DEF RecAsked
<1>2. request' \in [Requests -> RequestStates]
  BY DEF TypeOK, Enqueue, RequestStates, RequestSteps, Commits, Idle
<1>3. tails' \in [Recs -> Seq(Requests)]
  BY <1>1 DEF TypeOK, Enqueue
<1> QED BY <1>2, <1>3

\* And so does giving a turn back.
LEMMA LeaveTypes ==
    ASSUME TypeOK, NEW q \in Requests, tails[RecAsked(q)] # <<>>, Leave(q)
    PROVE  tails' \in [Recs -> Seq(Requests)]
<1>1. RecAsked(q) \in Recs
  BY ContentAssumption DEF RecAsked
<1>2. Tail(tails[RecAsked(q)]) \in Seq(Requests)
  BY <1>1 DEF TypeOK
<1> QED BY <1>1, <1>2 DEF TypeOK, Leave

\* Stopping a recorder keeps its types.
LEMMA StopTypes ==
    ASSUME TypeOK, NEW rec \in Recs, StopRecorder(rec)
    PROVE  /\ recorder' \in [Recs -> {"none", "writing", "registering", "recording", "stopped", "ended"}]
           /\ recorded' \in [Recs -> Rows] /\ files' \subseteq Videos
<1>1. Absent \in Rows
  BY DEF Absent, Rows
<1>2. CASE recorder[rec] = "registering"
  BY <1>1, <1>2 DEF TypeOK, StopRecorder
<1>3. CASE recorder[rec] # "registering"
  BY <1>3 DEF TypeOK, StopRecorder
<1> QED BY <1>2, <1>3

\* A failure is counted.
LEMMA FailsTypes ==
    ASSUME TypeOK, Fails
    PROVE  bounds' \in [protects : Nat, cleanups : Nat, failures : Nat]
BY DEF TypeOK, Fails

\* So is a change of the protection.
LEMMA ProtectTypes ==
    ASSUME TypeOK, bounds' = [bounds EXCEPT !.protects = @ + 1]
    PROVE  bounds' \in [protects : Nat, cleanups : Nat, failures : Nat]
BY DEF TypeOK

\* A step of a request keeps the types.
LEMMA RequestTypes ==
    ASSUME TypeOK, PlanInv, LockInv, NEW q \in Requests, RequestStep(q)
    PROVE  TypeOK'
<1> DEFINE rec == RecAsked(q)
<1> USE DEF content, history
<1>0. rec \in Recs /\ Asked[q] \in Videos /\ recorded[rec] \in Rows /\ request[q] \in RequestStates
  BY ContentAssumption DEF TypeOK, RecAsked
<1>1. CASE PrepareUserDeletion(q)
  <2>1. recorded[rec].isRecording \in BOOLEAN
    BY <1>0 DEF Rows
  <2>2. ASSUME Go(q, "done") \/ Go(q, "stopping") PROVE request' \in [Requests -> RequestStates]
    BY <2>2, GoTypes DEF RequestSteps
  <2>3. ASSUME Enqueue(q, "whole", recorded[rec].isRecording)
        PROVE  request' \in [Requests -> RequestStates] /\ tails' \in [Recs -> Seq(Requests)]
    BY <2>1, <2>3, EnqueueTypes DEF Commits
  <2>4. request' \in [Requests -> RequestStates] /\ tails' \in [Recs -> Seq(Requests)]
    BY <1>1, <2>2, <2>3 DEF TypeOK, PrepareUserDeletion
  <2> QED BY <1>1, <2>4 DEF TypeOK, PrepareUserDeletion
<1>2. CASE StopActiveRecording(q)
  <2>1. request' \in [Requests -> RequestStates] /\ tails' \in [Recs -> Seq(Requests)]
    BY <1>2, EnqueueTypes DEF StopActiveRecording, Commits
  <2>2. /\ recorder' \in [Recs -> {"none", "writing", "registering", "recording", "stopped", "ended"}]
        /\ recorded' \in [Recs -> Rows] /\ files' \subseteq Videos
    BY <1>0, <1>2, StopTypes DEF StopActiveRecording
  <2> QED BY <1>2, <2>1, <2>2 DEF TypeOK, StopActiveRecording
<1>3. CASE PrepareVideoFileDeletion(q)
  <2>1. request' \in [Requests -> RequestStates] /\ tails' \in [Recs -> Seq(Requests)]
    BY <1>3, GoTypes, EnqueueTypes DEF TypeOK, PrepareVideoFileDeletion, RequestSteps, Commits
  <2> QED BY <1>3, <2>1 DEF TypeOK, PrepareVideoFileDeletion
<1>4. CASE PrepareStorageDeletion(q)
  <2>1. request' \in [Requests -> RequestStates] /\ tails' \in [Recs -> Seq(Requests)]
    BY <1>4, GoTypes, EnqueueTypes DEF TypeOK, PrepareStorageDeletion, RequestSteps, Commits
  <2> QED BY <1>4, <2>1 DEF TypeOK, PrepareStorageDeletion
<1>5. CASE Reread(q)
  <2>1. tails[rec] # <<>>
    BY <1>5 DEF Reread, MyTurn
  <2>2. CASE Refused(q) \/ NeedsWhole(q)
    <3>1. Leave(q) /\ (Go(q, "done") \/ Go(q, "whole"))
      BY <1>5, <2>2 DEF Reread
    <3>2. request' \in [Requests -> RequestStates] /\ tails' \in [Recs -> Seq(Requests)]
      BY <2>1, <3>1, GoTypes, LeaveTypes DEF RequestSteps
    <3> QED BY <1>5, <3>2 DEF TypeOK, Reread
  <2>3. CASE ~Refused(q) /\ ~NeedsWhole(q)
    <3> DEFINE plan == IF request[q].act = "video" THEN {Asked[q]} ELSE RowsOf(RecAsked(q))
    <3>1. plan \subseteq Videos
      BY <1>0 DEF RowsOf, VideosOf
    <3>2. /\ request' = [request EXCEPT ![q].step = "unlink", ![q].plan = plan, ![q].left = plan]
          /\ tails' = tails
      BY <1>5, <2>3 DEF Reread
    <3> HIDE DEF plan
    <3>3. [request[q] EXCEPT !.step = "unlink", !.plan = plan, !.left = plan] \in RequestStates
      BY <1>0, <3>1 DEF RequestStates, RequestSteps
    <3>4. request' = [request EXCEPT ![q] =
                          [request[q] EXCEPT !.step = "unlink", !.plan = plan, !.left = plan]]
      BY <3>2 DEF TypeOK
    <3>5. request' \in [Requests -> RequestStates]
      BY <3>3, <3>4 DEF TypeOK
    <3> QED BY <1>5, <3>2, <3>5 DEF TypeOK, Reread
  <2> QED BY <2>2, <2>3
<1>6. CASE DeleteVideoRows(q)
  <2>1. tails[rec] # <<>>
    BY <1>6 DEF DeleteVideoRows, LockInv, MyTurn
  <2>2. request' \in [Requests -> RequestStates] /\ tails' \in [Recs -> Seq(Requests)]
    BY <1>6, <2>1, GoTypes, LeaveTypes DEF TypeOK, DeleteVideoRows, RequestSteps
  <2>3. videoFiles' \subseteq Videos /\ bounds' \in [protects : Nat, cleanups : Nat, failures : Nat]
    BY <1>6 DEF TypeOK, DeleteVideoRows, Fails
  <2> QED BY <1>6, <2>2, <2>3 DEF TypeOK, DeleteVideoRows
<1>7. CASE DeleteRecorded(q)
  <2>1. tails[rec] # <<>>
    BY <1>7 DEF DeleteRecorded, LockInv, MyTurn
  <2>2. request' \in [Requests -> RequestStates] /\ tails' \in [Recs -> Seq(Requests)]
    BY <1>7, <2>1, GoTypes, LeaveTypes DEF DeleteRecorded, RequestSteps
  <2>3. Absent \in Rows
    BY DEF Absent, Rows
  <2>4. recorded' = recorded \/ recorded' = [recorded EXCEPT ![rec] = Absent]
    BY <1>7 DEF DeleteRecorded
  <2>5. recorded' \in [Recs -> Rows]
    BY <2>3, <2>4 DEF TypeOK
  <2>6. bounds' \in [protects : Nat, cleanups : Nat, failures : Nat]
    <3>1. UNCHANGED bounds \/ Fails
      BY <1>7 DEF DeleteRecorded
    <3> QED BY <3>1, FailsTypes DEF TypeOK
  <2> QED BY <1>7, <2>2, <2>5, <2>6 DEF TypeOK, DeleteRecorded
<1>8. CASE MeasureVideoFile(q)
  <2>1. request' \in [Requests -> RequestStates]
    BY <1>8, GoTypes DEF MeasureVideoFile, RequestSteps
  <2> QED BY <1>8, <2>1 DEF TypeOK, MeasureVideoFile
<1>9. CASE InsertVideoFile(q)
  <2>1. request' \in [Requests -> RequestStates]
    BY <1>9, GoTypes DEF InsertVideoFile, RequestSteps
  <2>3. Made[q] \in Videos
    BY <1>9, ContentAssumption DEF PlanInv, InsertVideoFile
  <2>4. videoFiles' \subseteq Videos
    BY <1>9, <2>3 DEF TypeOK, InsertVideoFile
  <2>2. bounds' \in [protects : Nat, cleanups : Nat, failures : Nat]
    <3>1. UNCHANGED bounds \/ Fails
      BY <1>9 DEF InsertVideoFile
    <3> QED BY <3>1, FailsTypes DEF TypeOK
  <2> QED BY <1>9, <2>1, <2>2, <2>4 DEF TypeOK, InsertVideoFile
<1>10. CASE \E v \in Videos : Unlink(q, v)
  <2>1. PICK v \in Videos : Unlink(q, v)
    BY <1>10
  <2>2. tails[rec] # <<>>
    BY <2>1 DEF Unlink, LockInv, MyTurn
  <2>3. ASSUME request' = [request EXCEPT ![q].left = @ \ {v}], UNCHANGED tails
        PROVE  request' \in [Requests -> RequestStates] /\ tails' \in [Recs -> Seq(Requests)]
    BY <2>3 DEF TypeOK, RequestStates
  <2>4. ASSUME Go(q, "done"), Leave(q)
        PROVE  request' \in [Requests -> RequestStates] /\ tails' \in [Recs -> Seq(Requests)]
    BY <2>2, <2>4, GoTypes, LeaveTypes DEF RequestSteps
  <2>6. request' \in [Requests -> RequestStates] /\ tails' \in [Recs -> Seq(Requests)]
    BY <2>1, <2>3, <2>4 DEF Unlink
  <2>5. files' \subseteq Videos /\ bounds' \in [protects : Nat, cleanups : Nat, failures : Nat]
    BY <2>1 DEF TypeOK, Unlink, Fails
  <2> QED BY <2>1, <2>5, <2>6 DEF TypeOK, Unlink
<1> QED BY <1>1, <1>2, <1>3, <1>4, <1>5, <1>6, <1>7, <1>8, <1>9, <1>10 DEF RequestStep

\* The clean-up keeps the types.
LEMMA CleanerTypes ==
    ASSUME TypeOK, CleanupStarts \/ CleanerStep
    PROVE  TypeOK'
<1> USE DEF content, history
<1> DEFINE CleanerGoes == cleaner' \in CleanerStates
<1>0. cleaner \in CleanerStates /\ CleanerIdle \in CleanerStates
  BY DEF TypeOK, CleanerIdle, CleanerStates, CleanerSteps
<1>a. ASSUME NEW step \in CleanerSteps, CleanStep(step) PROVE CleanerGoes
  BY <1>0, <1>a DEF CleanStep, CleanerStates
<1>1. CASE CleanupStarts
  <2>1. CleanerGoes
    BY <1>0, <1>1 DEF TypeOK, CleanupStarts, Clean, CleanerStates, CleanerSteps
  <2>2. bounds' \in [protects : Nat, cleanups : Nat, failures : Nat]
    BY <1>1 DEF TypeOK, CleanupStarts
  <2> QED BY <1>1, <2>1, <2>2 DEF TypeOK, CleanupStarts
<1>2. CASE CleanupLists
  <2>1. CleanerGoes
    BY <1>0, <1>2 DEF TypeOK, CleanupLists, Clean, CleanerStates, CleanerSteps
  <2> QED BY <1>2, <2>1 DEF TypeOK, CleanupLists
<1>3. CASE CleanupEnds
  BY <1>0, <1>3 DEF TypeOK, CleanupEnds, Clean
<1>4. CASE LegacyWholeFiles
  <2>1. CleanerGoes
    BY <1>4, <1>a DEF LegacyWholeFiles, CleanerSteps
  <2> QED BY <1>4, <2>1 DEF TypeOK, LegacyWholeFiles
<1>5. ASSUME NEW v \in Videos, CleanupChecks(v) PROVE TypeOK'
  <2>1. /\ [cleaner EXCEPT !.rows = @ \ {v}, !.index = @ \cup {v}] \in CleanerStates
        /\ [cleaner EXCEPT !.rows = @ \ {v}, !.step = "legacy", !.video = {v}] \in CleanerStates
    BY <1>0 DEF CleanerStates, CleanerSteps
  <2>2. CleanerGoes
    BY <1>5, <2>1 DEF CleanupChecks, Clean
  <2> QED BY <1>5, <2>2 DEF TypeOK, CleanupChecks
<1>6. ASSUME NEW v \in Videos, CleanupSweeps(v) PROVE TypeOK'
  <2>1. CleanerGoes
    BY <1>0, <1>6 DEF CleanupSweeps, Clean, CleanerStates
  <2> QED BY <1>6, <2>1 DEF TypeOK, CleanupSweeps
<1>7. ASSUME NEW v \in Videos, LegacyRead(v) PROVE TypeOK'
  <2>1. CleanerGoes
    BY <1>7, <1>a DEF LegacyRead, CleanerSteps
  <2> QED BY <1>7, <2>1 DEF TypeOK, LegacyRead
<1>8. ASSUME NEW v \in Videos, LegacyDeletesRow(v) PROVE TypeOK'
  <2>1. CleanerGoes
    BY <1>8, <1>a DEF LegacyDeletesRow, CleanerSteps
  <2> QED BY <1>8, <2>1 DEF TypeOK, LegacyDeletesRow
<1>9. ASSUME NEW v \in Videos, LegacyRereads(v) PROVE TypeOK'
  <2>1. CleanerGoes
    BY <1>9, <1>a DEF LegacyRereads, CleanerSteps
  <2> QED BY <1>9, <2>1 DEF TypeOK, LegacyRereads
<1>10. ASSUME NEW v \in Videos, LegacyWholeRead(v) PROVE TypeOK'
  <2>0. RecOf[v] \in Recs /\ RowsOf(RecOf[v]) \subseteq Videos
    BY ContentAssumption DEF RowsOf, VideosOf
  <2>1. ASSUME CleanStep("check") PROVE CleanerGoes
    BY <2>1, <1>a DEF CleanerSteps
  <2>2. ASSUME Clean([cleaner EXCEPT !.step = "wholeFiles", !.plan = RowsOf(RecOf[v])])
        PROVE  CleanerGoes
    BY <1>0, <2>0, <2>2 DEF Clean, CleanerStates, CleanerSteps
  <2>3. CleanerGoes
    BY <1>10, <2>1, <2>2 DEF LegacyWholeRead
  <2>4. UNCHANGED <<recorded, files, recorder>> \/ StopRecorder(RecOf[v])
    BY <1>10 DEF LegacyWholeRead
  <2>5. /\ recorder' \in [Recs -> {"none", "writing", "registering", "recording", "stopped", "ended"}]
        /\ recorded' \in [Recs -> Rows] /\ files' \subseteq Videos
    BY <2>0, <2>4, StopTypes DEF TypeOK
  <2> QED BY <1>10, <2>3, <2>5 DEF TypeOK, LegacyWholeRead
<1>11. ASSUME NEW v \in Videos, LegacyWholeRows(v) PROVE TypeOK'
  <2>1. CleanerGoes
    BY <1>11, <1>a DEF LegacyWholeRows, CleanerSteps
  <2> QED BY <1>11, <2>1 DEF TypeOK, LegacyWholeRows
<1>12. ASSUME NEW v \in Videos, LegacyWholeRecorded(v) PROVE TypeOK'
  <2>1. CleanerGoes
    BY <1>0, <1>12 DEF LegacyWholeRecorded, Clean, CleanerStates, CleanerSteps
  <2>2. Absent \in Rows /\ RecOf[v] \in Recs
    BY ContentAssumption DEF Absent, Rows
  <2>3. recorded' \in [Recs -> Rows]
    BY <1>12, <2>2 DEF TypeOK, LegacyWholeRecorded
  <2> QED BY <1>12, <2>1, <2>3 DEF TypeOK, LegacyWholeRecorded
<1> QED BY <1>1, <1>2, <1>3, <1>4, <1>5, <1>6, <1>7, <1>8, <1>9, <1>10, <1>11, <1>12 DEF CleanerStep

\* A recorder, a change of the protection, a request and the file of an encoder keep the types.
LEMMA OtherTypes ==
    ASSUME TypeOK,
           \/ \E rec \in Recs : RecorderStep(rec) \/ ChangeProtect(rec)
           \/ \E q \in Requests : Ask(q) \/ EncoderWrites(q)
    PROVE  TypeOK'
<1> USE DEF content, history
<1>1. ASSUME NEW rec \in Recs, RecorderOpens(rec) PROVE TypeOK'
  <2>1. Recorded[rec] \in Videos
    BY ContentAssumption
  <2> QED BY <1>1, <2>1 DEF TypeOK, RecorderOpens
<1>2. ASSUME NEW rec \in Recs, RegisterRecorded(rec) PROVE TypeOK'
  <2>1. [exists |-> TRUE, isProtected |-> FALSE, isRecording |-> TRUE] \in Rows
    BY DEF Rows
  <2> QED BY <1>2, <2>1 DEF TypeOK, RegisterRecorded
<1>3. ASSUME NEW rec \in Recs, RegisterVideoFile(rec) PROVE TypeOK'
  <2>1. Recorded[rec] \in Videos
    BY ContentAssumption
  <2> QED BY <1>3, <2>1 DEF TypeOK, RegisterVideoFile
<1>4. ASSUME NEW rec \in Recs, RecordingEnds(rec) PROVE TypeOK'
  <2>1. [recorded[rec] EXCEPT !.isRecording = FALSE] \in Rows
    BY DEF TypeOK, Rows
  <2>2. recorded' = [recorded EXCEPT ![rec] = [recorded[rec] EXCEPT !.isRecording = FALSE]]
    BY <1>4 DEF TypeOK, RecordingEnds
  <2>3. recorded' \in [Recs -> Rows]
    BY <2>1, <2>2 DEF TypeOK
  <2> QED BY <1>4, <2>3 DEF TypeOK, RecordingEnds
<1>5. ASSUME NEW rec \in Recs, ChangeProtect(rec) PROVE TypeOK'
  <2>0. bounds' = [bounds EXCEPT !.protects = @ + 1]
    BY <1>5 DEF ChangeProtect
  <2>1. bounds' \in [protects : Nat, cleanups : Nat, failures : Nat]
    BY <2>0, ProtectTypes
  <2> DEFINE new == [recorded[rec] EXCEPT !.isProtected = ~recorded[rec].isProtected]
  <2>2. new \in Rows
    BY DEF TypeOK, Rows
  <2>a. recorded' = [recorded EXCEPT ![rec].isProtected = ~@]
    BY <1>5 DEF ChangeProtect
  <2>3. recorded' = [recorded EXCEPT ![rec] = new]
    BY <2>a DEF TypeOK
  <2> HIDE DEF new
  <2>4. recorded' \in [Recs -> Rows]
    BY <2>2, <2>3 DEF TypeOK
  <2>5. shielded' \subseteq Recs
    BY <1>5 DEF TypeOK, ChangeProtect
  <2> QED BY <1>5, <2>1, <2>4, <2>5 DEF TypeOK, ChangeProtect
<1>6. ASSUME NEW q \in Requests, Ask(q) PROVE TypeOK'
  <2>1. \A step \in RequestSteps : [Idle EXCEPT !.step = step] \in RequestStates
    BY DEF Idle, RequestStates
  <2>2. KindOf[q] \in {"user", "video", "storage"}
    BY <1>6, ContentAssumption DEF Ask
  <2>3. request' \in [Requests -> RequestStates]
    BY <1>6, <2>1, <2>2 DEF TypeOK, Ask, RequestSteps
  <2> QED BY <1>6, <2>3 DEF TypeOK, Ask
<1>7. ASSUME NEW q \in Requests, EncoderWrites(q) PROVE TypeOK'
  <2>1. request' \in [Requests -> RequestStates]
    BY <1>7, GoTypes DEF EncoderWrites, RequestSteps
  <2>2. Made[q] \in Videos
    BY <1>7, ContentAssumption DEF EncoderWrites
  <2> QED BY <1>7, <2>1, <2>2 DEF TypeOK, EncoderWrites
<1> QED BY <1>1, <1>2, <1>3, <1>4, <1>5, <1>6, <1>7 DEF RecorderStep

-----------------------------------------------------------------------------
(* The invariant is kept, and with it the rows of the shielded recordings. *)

AtWork == {"unlink", "canonical"}

\* No deletion begins its work in this step.
NobodyBegins ==
    /\ PlanInv' /\ LockInv'
    /\ \A r \in Requests : request'[r].step \in AtWork => request[r].step \in AtWork

\* The step keeps the invariant, and the rows that are to be kept.
SafeStep == PlanInv' /\ LockInv' /\ CleanerInv' /\ UpcomingInv' /\ ShieldInv' /\ Keeps

\* A request whose step changes to one that is not at work leaves the others as they are.
LEMMA GoesOn ==
    ASSUME TypeOK, PlanInv, LockInv, NEW q \in Requests, NEW new \in RequestStates,
           request' = [request EXCEPT ![q] = new], new.step \notin AtWork,
           new.step = "queued" => new.act \in Commits,
           new.step \in {"encoding", "measured"} => KindOf[q] = "encode",
           \/ UNCHANGED tails
           \/ tails' = [tails EXCEPT ![RecAsked(q)] = Append(@, q)]
           \/ MyTurn(q) /\ Leave(q)
    PROVE  NobodyBegins
<1>1. \A r \in Requests : request'[r] = IF r = q THEN new ELSE request[r]
  BY DEF TypeOK
<1>2. PlanInv'
  BY <1>1 DEF PlanInv, AtWork, RecAsked, VideosOf
<1>3. ASSUME NEW r \in Requests, request'[r].step \in AtWork
      PROVE  request[r].step \in AtWork /\ r # q /\ MyTurn(r)
  BY <1>1, <1>3 DEF AtWork, LockInv
<1>4. ASSUME NEW r \in Requests, request'[r].step \in AtWork PROVE MyTurn(r)'
  <2> DEFINE rec == RecAsked(r)
  <2>0. rec \in Recs /\ RecAsked(q) \in Recs /\ tails \in [Recs -> Seq(Requests)]
    BY ContentAssumption DEF RecAsked, TypeOK
  <2>1. tails[rec] # <<>> /\ Head(tails[rec]) = r /\ r # q
    BY <1>3, <1>4 DEF MyTurn
  <2>2. tails'[rec] # <<>> /\ Head(tails'[rec]) = r
    <3>1. CASE UNCHANGED tails
      BY <2>1, <3>1
    <3>2. CASE tails' = [tails EXCEPT ![RecAsked(q)] = Append(@, q)]
      <4>1. CASE rec = RecAsked(q)
        <5> DEFINE s == tails[rec]
        <5>1. s \in Seq(Requests) /\ s # <<>> /\ Head(s) = r
          BY <2>0, <2>1
        <5>2. tails'[rec] = Append(s, q)
          BY <2>0, <3>2, <4>1
        <5> HIDE DEF s
        <5>3. Append(s, q) # <<>> /\ Head(Append(s, q)) = r
          BY <5>1
        <5> QED BY <5>2, <5>3
      <4>2. CASE rec # RecAsked(q)
        BY <2>0, <2>1, <3>2, <4>2
      <4> QED BY <4>1, <4>2
    <3>3. CASE MyTurn(q) /\ Leave(q)
      <4>1. rec # RecAsked(q)
        BY <2>1, <3>3 DEF MyTurn
      <4> QED BY <2>0, <2>1, <3>3, <4>1 DEF Leave
    <3> QED BY <3>1, <3>2, <3>3
  <2> QED BY <2>2 DEF MyTurn, RecAsked
<1> QED BY <1>2, <1>3, <1>4 DEF LockInv, AtWork, NobodyBegins

\* A request that goes on to another step, and keeps its turn or gives it back.
LEMMA GoGoesOn ==
    ASSUME TypeOK, PlanInv, LockInv, NEW q \in Requests, NEW step \in RequestSteps \ AtWork,
           Go(q, step), step # "queued", step \in {"encoding", "measured"} => KindOf[q] = "encode",
           UNCHANGED tails \/ (MyTurn(q) /\ Leave(q))
    PROVE  NobodyBegins
<1> DEFINE new == [request[q] EXCEPT !.step = step]
<1>1. request[q] \in RequestStates
  BY DEF TypeOK
<1>2. new \in RequestStates /\ new.step = step
  BY <1>1 DEF RequestStates
<1>3. request' = [request EXCEPT ![q] = new]
  BY DEF Go, TypeOK
<1> HIDE DEF new
<1> QED BY <1>2, <1>3, GoesOn

\* A request that waits for its turn.
LEMMA EnqueueGoesOn ==
    ASSUME TypeOK, PlanInv, LockInv, NEW q \in Requests, NEW act \in Commits,
           NEW isRecording \in BOOLEAN, Enqueue(q, act, isRecording)
    PROVE  NobodyBegins
<1> DEFINE new == [Idle EXCEPT !.step = "queued", !.act = act, !.isRecording = isRecording]
<1>2. new \in RequestStates /\ new.step = "queued" /\ new.act \in Commits
  BY DEF RequestStates, RequestSteps, Commits, Idle
<1>3. request' = [request EXCEPT ![q] = new] /\ tails' = [tails EXCEPT ![RecAsked(q)] = Append(@, q)]
  BY DEF Enqueue
<1> HIDE DEF new
<1>4. new.step \notin AtWork /\ new.step \notin {"encoding", "measured"}
  BY <1>2 DEF AtWork
<1> QED BY <1>2, <1>3, <1>4, GoesOn

\* A recording stays uncommitted when no other request is at work and its recorder does not
\* begin to register it.
LEMMA StaysUncommitted ==
    ASSUME NEW rec \in Recs, ~Committed(rec),
           recorder'[rec] = "registering" => recorder[rec] = "registering",
           \A r \in Requests : RecAsked(r) = rec /\ request'[r].step \in AtWork
                                  => request[r].step \in AtWork,
           UNCHANGED cleaner
    PROVE  ~Committed(rec)'
BY DEF Committed, AtWork, RecAsked

\* Requests that neither delete nor begin to.
LEMMA IdleRequests ==
    ASSUME IInv, NEW q \in Requests,
           \/ PrepareUserDeletion(q) \/ PrepareVideoFileDeletion(q) \/ PrepareStorageDeletion(q)
           \/ MeasureVideoFile(q) \/ InsertVideoFile(q)
    PROVE  SafeStep
<1> USE DEF content, history
<1>0. TypeOK /\ PlanInv /\ LockInv
  BY DEF IInv
<1>1. /\ UNCHANGED <<recorded, recorder, cleaner, shielded>> /\ videoFiles \subseteq videoFiles'
      /\ recorded[RecAsked(q)].isRecording \in BOOLEAN
  <2>1. RecAsked(q) \in Recs
    BY ContentAssumption DEF RecAsked
  <2>2. recorded[RecAsked(q)].isRecording \in BOOLEAN
    BY <1>0, <2>1 DEF TypeOK, Rows
  <2>3. videoFiles \subseteq videoFiles'
    BY DEF PrepareUserDeletion, PrepareVideoFileDeletion, PrepareStorageDeletion,
           MeasureVideoFile, InsertVideoFile
  <2>4. UNCHANGED <<recorded, recorder, cleaner, shielded>>
    BY DEF PrepareUserDeletion, PrepareVideoFileDeletion, PrepareStorageDeletion,
           MeasureVideoFile, InsertVideoFile
  <2> QED BY <2>2, <2>3, <2>4
<1>2. \/ \E step \in {"done", "stopping", "whole", "video"} : Go(q, step) /\ UNCHANGED tails
      \/ KindOf[q] = "encode" /\ Go(q, "measured") /\ UNCHANGED tails
      \/ \E act \in Commits : Enqueue(q, act, FALSE)
      \/ Enqueue(q, "whole", recorded[RecAsked(q)].isRecording)
  <2>1. ASSUME PrepareUserDeletion(q)
        PROVE  \/ Go(q, "done") /\ UNCHANGED tails
               \/ Go(q, "stopping") /\ UNCHANGED tails
               \/ Enqueue(q, "whole", recorded[RecAsked(q)].isRecording)
    BY <2>1 DEF PrepareUserDeletion
  <2>2. ASSUME PrepareVideoFileDeletion(q)
        PROVE  \/ Go(q, "done") /\ UNCHANGED tails
               \/ Go(q, "whole") /\ UNCHANGED tails
               \/ Enqueue(q, "video", FALSE)
    BY <2>2 DEF PrepareVideoFileDeletion
  <2>3. ASSUME PrepareStorageDeletion(q)
        PROVE  \/ Go(q, "done") /\ UNCHANGED tails
               \/ Enqueue(q, "storage", FALSE)
    BY <2>3 DEF PrepareStorageDeletion
  <2>4. ASSUME MeasureVideoFile(q)
        PROVE  \/ Go(q, "done") /\ UNCHANGED tails
               \/ KindOf[q] = "encode" /\ Go(q, "measured") /\ UNCHANGED tails
    BY <1>0, <2>4 DEF MeasureVideoFile, PlanInv
  <2>5. ASSUME InsertVideoFile(q)
        PROVE  \/ Go(q, "done") /\ UNCHANGED tails
               \/ Go(q, "video") /\ UNCHANGED tails
    BY <2>5 DEF InsertVideoFile
  <2>6. "done" \in {"done", "stopping", "whole", "video"} /\ "stopping" \in {"done", "stopping", "whole", "video"}
        /\ "whole" \in {"done", "stopping", "whole", "video"} /\ "video" \in {"done", "stopping", "whole", "video"}
        /\ "video" \in Commits /\ "storage" \in Commits
    BY DEF Commits
  <2> QED BY <2>1, <2>2, <2>3, <2>4, <2>5, <2>6
<1>3. NobodyBegins
  <2>1. ASSUME NEW step \in {"done", "stopping", "whole", "video"}, Go(q, step), UNCHANGED tails
        PROVE  NobodyBegins
    BY <1>0, <2>1, GoGoesOn DEF RequestSteps, AtWork
  <2>2. ASSUME KindOf[q] = "encode", Go(q, "measured"), UNCHANGED tails
        PROVE  NobodyBegins
    BY <1>0, <2>2, GoGoesOn DEF RequestSteps, AtWork
  <2>3. ASSUME NEW act \in Commits, Enqueue(q, act, FALSE) PROVE NobodyBegins
    BY <1>0, <2>3, EnqueueGoesOn
  <2>4. ASSUME Enqueue(q, "whole", recorded[RecAsked(q)].isRecording) PROVE NobodyBegins
    BY <1>0, <1>1, <2>4, EnqueueGoesOn DEF Commits
  <2> QED BY <1>2, <2>1, <2>2, <2>3, <2>4
<1>4. ShieldInv'
  <2>1. ASSUME NEW rec \in shielded PROVE ~Committed(rec)'
    BY <1>0, <1>1, <1>3, <2>1, StaysUncommitted DEF IInv, ShieldInv, TypeOK, NobodyBegins
  <2> QED BY <1>1, <2>1 DEF IInv, ShieldInv
<1> QED BY <1>1, <1>3, <1>4 DEF SafeStep, IInv, NobodyBegins, CleanerInv, UpcomingInv, Keeps, ShieldInv, RowsOf

\* A recorder that is stopped takes away at most a registration of its own.
LEMMA StopIsSafe ==
    ASSUME IInv, NEW rec \in Recs, StopRecorder(rec)
    PROVE  /\ UpcomingInv'
           /\ \A other \in shielded : recorded'[other] = recorded[other]
           /\ \A other \in Recs : recorder'[other] = "registering" => recorder[other] = "registering"
<1>0. /\ recorded \in [Recs -> Rows] /\ shielded \subseteq Recs /\ Absent.exists = FALSE
      /\ recorder \in [Recs -> {"none", "writing", "registering", "recording", "stopped", "ended"}]
  BY DEF IInv, TypeOK, Absent
<1>1. CASE recorder[rec] = "registering"
  <2>1. rec \notin shielded
    BY <1>1 DEF IInv, ShieldInv, Committed
  <2> QED BY <1>0, <1>1, <2>1 DEF StopRecorder, IInv, UpcomingInv
<1>2. CASE recorder[rec] # "registering"
  BY <1>0, <1>2 DEF StopRecorder, IInv, UpcomingInv
<1> QED BY <1>1, <1>2

\* The recorder is stopped, and the commit waits for its turn.
LEMMA StopActiveIsSafe ==
    ASSUME IInv, NEW q \in Requests, StopActiveRecording(q)
    PROVE  SafeStep
<1> USE DEF content, history
<1>0. TypeOK /\ PlanInv /\ LockInv /\ RecAsked(q) \in Recs
  BY ContentAssumption DEF IInv, RecAsked
<1>1. NobodyBegins
  BY <1>0, EnqueueGoesOn DEF StopActiveRecording, Commits
<1>2. /\ UpcomingInv'
      /\ \A other \in shielded : recorded'[other] = recorded[other]
      /\ \A other \in Recs : recorder'[other] = "registering" => recorder[other] = "registering"
  BY <1>0, StopIsSafe DEF StopActiveRecording
<1>3. UNCHANGED <<videoFiles, cleaner, shielded>>
  BY DEF StopActiveRecording
<1>4. ShieldInv'
  <2>1. ASSUME NEW rec \in shielded PROVE ~Committed(rec)'
    BY <1>0, <1>1, <1>2, <1>3, <2>1, StaysUncommitted DEF IInv, ShieldInv, TypeOK, NobodyBegins
  <2> QED BY <1>2, <1>3, <2>1 DEF IInv, ShieldInv
<1> QED BY <1>1, <1>2, <1>3, <1>4 DEF SafeStep, NobodyBegins, IInv, CleanerInv, Keeps, ShieldInv, RowsOf

\* A deletion looks for the last time: it does not begin to work on a protected recording.
LEMMA RereadIsSafe ==
    ASSUME IInv, NEW q \in Requests, Reread(q)
    PROVE  SafeStep
<1> USE DEF content, history
<1>0. TypeOK /\ PlanInv /\ LockInv /\ RecAsked(q) \in Recs /\ Asked[q] \in Videos
  BY ContentAssumption DEF IInv, RecAsked
<1>1. /\ UNCHANGED <<recorded, recorder, videoFiles, cleaner, shielded>>
      /\ MyTurn(q) /\ request[q].step = "queued"
  BY DEF Reread
<1>2. /\ PlanInv' /\ LockInv'
      /\ \A r \in Requests : request'[r].step \in AtWork =>
            request[r].step \in AtWork \/ (r = q /\ RecAsked(q) \notin shielded)
  <2>1. CASE Refused(q) \/ NeedsWhole(q)
    <3>1. Leave(q) /\ (Go(q, "done") \/ Go(q, "whole"))
      BY <2>1 DEF Reread
    <3> QED BY <1>0, <1>1, <3>1, GoGoesOn DEF NobodyBegins, RequestSteps, AtWork
  <2>2. CASE ~Refused(q) /\ ~NeedsWhole(q)
    <3> DEFINE plan == IF request[q].act = "video" THEN {Asked[q]} ELSE RowsOf(RecAsked(q))
               new == [request[q] EXCEPT !.step = "unlink", !.plan = plan, !.left = plan]
    <3>1. plan \subseteq VideosOf(RecAsked(q))
      BY <1>0 DEF RowsOf, VideosOf, RecAsked
    <3>2. request' = [request EXCEPT ![q].step = "unlink", ![q].plan = plan, ![q].left = plan]
          /\ UNCHANGED tails
      BY <2>2 DEF Reread
    <3> HIDE DEF plan
    <3>3. request' = [request EXCEPT ![q] = new] /\ new.step = "unlink" /\ new.plan = plan
      BY <1>0, <3>2 DEF TypeOK, RequestStates
    <3> HIDE DEF new
    <3>4. \A r \in Requests : request'[r] = IF r = q THEN new ELSE request[r]
      BY <1>0, <3>3 DEF TypeOK
    <3>5. PlanInv'
      BY <1>0, <3>1, <3>3, <3>4 DEF PlanInv, RecAsked, VideosOf
    <3>6. LockInv'
      BY <1>0, <1>1, <3>2, <3>3, <3>4 DEF LockInv, MyTurn, RecAsked
    <3>7. request[q].act \in Commits
      BY <1>0, <1>1 DEF PlanInv
    <3>8. RecAsked(q) \notin shielded
      BY <2>2, <3>7 DEF IInv, ShieldInv, Refused, StorageRefuses, Commits
    <3> QED BY <3>4, <3>5, <3>6, <3>8
  <2> QED BY <2>1, <2>2
<1>3. ShieldInv'
  <2>1. ASSUME NEW rec \in shielded PROVE ~Committed(rec)'
    BY <1>0, <1>1, <1>2, <2>1, StaysUncommitted DEF IInv, ShieldInv, TypeOK
  <2> QED BY <1>1, <2>1 DEF IInv, ShieldInv
<1> QED BY <1>1, <1>2, <1>3 DEF SafeStep, IInv, CleanerInv, UpcomingInv, Keeps, ShieldInv, RowsOf

\* A deletion at work is none of a shielded recording, and so its steps are safe.
LEMMA WorkIsSafe ==
    ASSUME IInv, NEW q \in Requests,
           \/ \E v \in Videos : Unlink(q, v)
           \/ DeleteVideoRows(q) \/ DeleteRecorded(q)
    PROVE  SafeStep
<1> USE DEF content, history
<1> DEFINE mine == RecAsked(q)
<1>0. /\ TypeOK /\ PlanInv /\ LockInv /\ mine \in Recs /\ tails \in [Recs -> Seq(Requests)]
      /\ recorded \in [Recs -> Rows]
  BY ContentAssumption DEF IInv, TypeOK, RecAsked
<1>1. /\ request[q].step \in AtWork /\ MyTurn(q) /\ request[q].plan \subseteq VideosOf(mine)
      /\ UNCHANGED <<recorder, cleaner, shielded>>
  <2>1. request[q].step \in AtWork
    BY DEF AtWork, Unlink, DeleteVideoRows, DeleteRecorded
  <2>2. UNCHANGED <<recorder, cleaner, shielded>>
    BY DEF Unlink, DeleteVideoRows, DeleteRecorded
  <2> QED BY <1>0, <2>1, <2>2 DEF AtWork, LockInv, PlanInv
<1>2. mine \notin shielded
  BY <1>1 DEF IInv, ShieldInv, Committed, AtWork
<1>3. /\ \A rec \in Recs : rec # mine => recorded'[rec] = recorded[rec]
      /\ \A rec \in Recs : recorded'[rec].exists => recorded[rec].exists
      /\ videoFiles \ VideosOf(mine) \subseteq videoFiles'
  <2>1. CASE (\E v \in Videos : Unlink(q, v)) \/ DeleteVideoRows(q)
    <3>1. UNCHANGED recorded
      BY <2>1 DEF Unlink, DeleteVideoRows
    <3>2. videoFiles' = videoFiles \/ videoFiles' = videoFiles \ request[q].plan
      BY <2>1 DEF Unlink, DeleteVideoRows
    <3> QED BY <1>1, <3>1, <3>2
  <2>2. CASE DeleteRecorded(q)
    <3>1. UNCHANGED videoFiles
      BY <2>2 DEF DeleteRecorded
    <3>2. recorded' = recorded \/ recorded' = [recorded EXCEPT ![mine] = Absent]
      BY <2>2 DEF DeleteRecorded
    <3>3. \A rec \in Recs : recorded'[rec] = recorded[rec] \/ (rec = mine /\ recorded'[rec] = Absent)
      BY <1>0, <3>2
    <3>4. ~Absent.exists
      BY DEF Absent
    <3> QED BY <3>1, <3>3, <3>4
  <2> QED BY <2>1, <2>2
<1>4. NobodyBegins
  <2>1. CASE Leave(q) /\ Go(q, "done")
    BY <1>0, <1>1, <2>1, GoGoesOn DEF RequestSteps, AtWork
  <2>2. ASSUME NEW v, request' = [request EXCEPT ![q].left = @ \ {v}], UNCHANGED tails
        PROVE  NobodyBegins
    <3> DEFINE new == [request[q] EXCEPT !.left = @ \ {v}]
    <3>1. request[q] \in RequestStates
      BY <1>0 DEF TypeOK
    <3>2. /\ request' = [request EXCEPT ![q] = new] /\ new.step = request[q].step
          /\ new.plan = request[q].plan
      BY <1>0, <2>2, <3>1 DEF TypeOK, RequestStates
    <3> HIDE DEF new
    <3>3. \A r \in Requests : request'[r] = IF r = q THEN new ELSE request[r]
      BY <1>0, <3>2 DEF TypeOK
    <3>4. PlanInv'
      BY <1>0, <1>1, <3>2, <3>3 DEF PlanInv, AtWork, RecAsked, VideosOf
    <3>5. LockInv'
      BY <1>0, <2>2, <3>2, <3>3 DEF LockInv, MyTurn, RecAsked
    <3> QED BY <3>2, <3>3, <3>4, <3>5 DEF NobodyBegins
  <2>3. ASSUME Go(q, "canonical"), UNCHANGED tails
        PROVE  NobodyBegins
    <3> DEFINE new == [request[q] EXCEPT !.step = "canonical"]
    <3>1. request[q] \in RequestStates
      BY <1>0 DEF TypeOK
    <3>2. /\ request' = [request EXCEPT ![q] = new] /\ new.step = "canonical"
          /\ new.plan = request[q].plan
      BY <1>0, <2>3, <3>1 DEF TypeOK, Go, RequestStates
    <3> HIDE DEF new
    <3>3. \A r \in Requests : request'[r] = IF r = q THEN new ELSE request[r]
      BY <1>0, <3>2 DEF TypeOK
    <3>4. PlanInv'
      BY <1>0, <1>1, <3>2, <3>3 DEF PlanInv, AtWork, RecAsked, VideosOf
    <3>5. LockInv'
      BY <1>0, <1>1, <2>3, <3>2, <3>3 DEF LockInv, MyTurn, RecAsked
    <3> QED BY <1>1, <3>2, <3>3, <3>4, <3>5 DEF NobodyBegins
  <2>4. CASE \E v \in Videos : Unlink(q, v)
    <3>1. PICK v \in Videos : Unlink(q, v)
      BY <2>4
    <3>2. \/ request' = [request EXCEPT ![q].left = @ \ {v}] /\ UNCHANGED tails
          \/ Leave(q) /\ Go(q, "done")
      BY <3>1 DEF Unlink
    <3> QED BY <2>1, <2>2, <3>2
  <2>5. CASE DeleteVideoRows(q)
    <3>1. \/ Go(q, "canonical") /\ UNCHANGED tails
          \/ Leave(q) /\ Go(q, "done")
      BY <2>5 DEF DeleteVideoRows
    <3> QED BY <2>1, <2>3, <3>1
  <2>6. CASE DeleteRecorded(q)
    BY <2>1, <2>6 DEF DeleteRecorded
  <2> QED BY <2>4, <2>5, <2>6
<1>5. ShieldInv' /\ Keeps
  <2>1. ASSUME NEW rec \in shielded PROVE ~Committed(rec)'
    BY <1>0, <1>1, <1>4, <2>1, StaysUncommitted DEF IInv, ShieldInv, TypeOK, NobodyBegins
  <2>2. ASSUME NEW rec \in shielded PROVE recorded'[rec] = recorded[rec] /\ RowsOf(rec) \subseteq videoFiles'
    BY <1>0, <1>2, <1>3, <2>2 DEF TypeOK, RowsOf, VideosOf
  <2> QED BY <1>1, <2>1, <2>2 DEF IInv, ShieldInv, Keeps
<1>6. UpcomingInv'
  BY <1>1, <1>3 DEF IInv, UpcomingInv
<1> QED BY <1>1, <1>4, <1>5, <1>6 DEF SafeStep, NobodyBegins, IInv, CleanerInv

\* A new request, and the file of an encoder: no row changes and no deletion begins.
LEMMA AskingIsSafe ==
    ASSUME IInv, NEW q \in Requests, Ask(q) \/ EncoderWrites(q)
    PROVE  SafeStep
<1> USE DEF content, history
<1>0. TypeOK /\ PlanInv /\ LockInv
  BY DEF IInv
<1>1. UNCHANGED <<recorded, recorder, videoFiles, cleaner, shielded, tails>>
  BY DEF Ask, EncoderWrites
<1>2. NobodyBegins
  <2>1. CASE EncoderWrites(q)
    BY <1>0, <1>1, <2>1, GoGoesOn DEF EncoderWrites, RequestSteps, AtWork
  <2>2. CASE Ask(q)
    <3>1. KindOf[q] \in {"user", "video", "storage"}
      BY <2>2, ContentAssumption DEF Ask
    <3>2. ASSUME NEW r \in Requests
          PROVE  request'[r] = request[r] \/ request'[r].step \in {"whole", "video", "storage", "done"}
      BY <2>2, <3>1 DEF Ask, Idle
    <3>3. PlanInv'
      BY <1>0, <3>2 DEF PlanInv, RecAsked, VideosOf
    <3>4. LockInv'
      BY <1>0, <1>1, <3>2 DEF LockInv, MyTurn, RecAsked
    <3> QED BY <3>2, <3>3, <3>4 DEF NobodyBegins, AtWork
  <2> QED BY <2>1, <2>2
<1>3. ShieldInv'
  <2>1. ASSUME NEW rec \in shielded PROVE ~Committed(rec)'
    BY <1>0, <1>1, <1>2, <2>1, StaysUncommitted DEF IInv, ShieldInv, TypeOK, NobodyBegins
  <2> QED BY <1>1, <2>1 DEF IInv, ShieldInv
<1> QED BY <1>1, <1>2, <1>3 DEF SafeStep, IInv, NobodyBegins, CleanerInv, UpcomingInv, Keeps, ShieldInv, RowsOf

\* The recorder of a recording: it registers one that is not there, and so not shielded.
LEMMA RecorderIsSafe ==
    ASSUME IInv, NEW rec \in Recs, RecorderStep(rec)
    PROVE  SafeStep
<1> USE DEF content, history
<1>0. /\ TypeOK /\ PlanInv /\ LockInv /\ recorded \in [Recs -> Rows] /\ shielded \subseteq Recs
      /\ recorder \in [Recs -> {"none", "writing", "registering", "recording", "stopped", "ended"}]
  BY DEF IInv, TypeOK
<1>1. /\ UNCHANGED <<request, tails, cleaner, shielded>> /\ videoFiles \subseteq videoFiles'
  BY DEF RecorderStep, RecorderOpens, RegisterRecorded, RegisterVideoFile, RecordingEnds
<1>2. /\ \A other \in Recs : other # rec => recorder'[other] = recorder[other]
                                            /\ recorded'[other] = recorded[other]
      /\ recorder'[rec] = "registering" => ~recorded[rec].exists
      /\ recorder'[rec] # "none" /\ (recorder'[rec] = "writing" => ~recorded'[rec].exists)
      /\ recorded[rec].exists => recorded'[rec].exists /\ recorded'[rec].isProtected = recorded[rec].isProtected
  <2>1. CASE RecorderOpens(rec)
    BY <1>0, <2>1 DEF RecorderOpens, IInv, UpcomingInv
  <2>2. CASE RegisterRecorded(rec)
    BY <1>0, <2>2 DEF RegisterRecorded, IInv, UpcomingInv
  <2>3. CASE RegisterVideoFile(rec)
    BY <1>0, <2>3 DEF RegisterVideoFile
  <2>4. CASE RecordingEnds(rec)
    BY <1>0, <2>4 DEF RecordingEnds, Rows
  <2> QED BY <2>1, <2>2, <2>3, <2>4 DEF RecorderStep
<1>3. ShieldInv'
  <2>1. ASSUME NEW other \in shielded PROVE ~Committed(other)'
    <3>1. recorder'[other] = "registering" => recorder[other] = "registering"
      BY <1>0, <1>2, <2>1 DEF IInv, ShieldInv
    <3> QED BY <1>0, <1>1, <2>1, <3>1, StaysUncommitted DEF IInv, ShieldInv
  <2> QED BY <1>0, <1>1, <1>2, <2>1 DEF IInv, ShieldInv
<1>4. UpcomingInv'
  BY <1>0, <1>2 DEF IInv, UpcomingInv
<1>5. PlanInv' /\ LockInv' /\ CleanerInv'
  BY <1>0, <1>1 DEF IInv, PlanInv, LockInv, CleanerInv, RecAsked, VideosOf, MyTurn
<1> QED BY <1>0, <1>1, <1>2, <1>3, <1>4, <1>5 DEF SafeStep, IInv, Keeps, ShieldInv, RowsOf

\* The protection changes: only a recording that nobody has committed to delete is shielded.
LEMMA ProtectIsSafe ==
    ASSUME IInv, NEW rec \in Recs, ChangeProtect(rec)
    PROVE  SafeStep
<1> USE DEF content, history
<1>0. /\ TypeOK /\ PlanInv /\ LockInv /\ recorded \in [Recs -> Rows] /\ shielded \subseteq Recs
  BY DEF IInv, TypeOK
<1>1. UNCHANGED <<request, tails, cleaner, recorder, videoFiles>> /\ recorded[rec].exists
  BY DEF ChangeProtect
<1>2. recorded' = [recorded EXCEPT ![rec].isProtected = ~@]
  BY DEF ChangeProtect
<1>3. /\ \A other \in Recs : other # rec => recorded'[other] = recorded[other]
      /\ recorded'[rec].exists
  BY <1>0, <1>1, <1>2 DEF Rows
<1>4. recorded'[rec].isProtected <=> ~recorded[rec].isProtected
  BY <1>0, <1>2 DEF Rows
<1>5. /\ shielded' \subseteq shielded \cup {rec}
      /\ rec \in shielded' => ~recorded[rec].isProtected /\ ~Committed(rec)
  BY DEF ChangeProtect
<1>6. \A other \in Recs : ~Committed(other) => ~Committed(other)'
  BY <1>1, StaysUncommitted
<1>7. ShieldInv'
  BY <1>0, <1>3, <1>4, <1>5, <1>6 DEF IInv, ShieldInv
<1>8. UpcomingInv'
  BY <1>1, <1>3 DEF IInv, UpcomingInv
<1>9. PlanInv' /\ LockInv' /\ CleanerInv'
  BY <1>0, <1>1 DEF IInv, PlanInv, LockInv, CleanerInv, RecAsked, VideosOf, MyTurn
<1> QED BY <1>1, <1>7, <1>8, <1>9 DEF SafeStep, Keeps, ShieldInv, RowsOf

\* The clean-up has looked at a recording for the last time.
Doomed == {"legacyRow", "wholeFiles", "wholeRows", "wholeRecorded"}
CleanerDooms(rec) == cleaner.step \in Doomed /\ \E v \in cleaner.video : RecOf[v] = rec

\* The step of the clean-up changes, and nothing else of it but its plan.
LEMMA CleanerGoesOn ==
    ASSUME TypeOK, NEW step \in CleanerSteps, NEW plan \in SUBSET Videos,
           cleaner' = [cleaner EXCEPT !.step = step] \/ cleaner' = [cleaner EXCEPT !.step = step, !.plan = plan]
    PROVE  cleaner'.step = step /\ cleaner'.video = cleaner.video
BY DEF TypeOK, CleanerStates

\* The clean-up takes no lock, but it does not touch a recording that is protected.
LEMMA CleanerIsSafe ==
    ASSUME IInv, CleanupStarts \/ CleanerStep
    PROVE  SafeStep
<1> USE DEF content, history
<1>0. /\ TypeOK /\ PlanInv /\ LockInv /\ CleanerInv /\ recorded \in [Recs -> Rows]
      /\ shielded \subseteq Recs /\ cleaner \in CleanerStates
  BY DEF IInv, TypeOK
<1>1. ASSUME UNCHANGED <<request, tails, shielded>>,
             \A v, w \in cleaner'.video : v = w,
             \A rec \in Recs : recorder'[rec] = "registering" => recorder[rec] = "registering",
             \A rec \in shielded : /\ recorded'[rec] = recorded[rec]
                                   /\ RowsOf(rec) \subseteq videoFiles'
                                   /\ CleanerDooms(rec)' => CleanerDooms(rec),
             UpcomingInv'
      PROVE  SafeStep
  <2>1. ASSUME NEW rec \in shielded PROVE ~Committed(rec)'
    <3>1. ~Committed(rec) /\ rec \in Recs
      BY <1>0, <2>1 DEF IInv, ShieldInv
    <3> QED BY <1>1, <2>1, <3>1 DEF Committed, CleanerDooms, Doomed, RecAsked
  <2>2. ShieldInv' /\ Keeps
    BY <1>0, <1>1, <2>1 DEF IInv, ShieldInv, Keeps
  <2>3. PlanInv' /\ LockInv' /\ CleanerInv'
    BY <1>0, <1>1 DEF PlanInv, LockInv, CleanerInv, RecAsked, VideosOf, MyTurn
  <2> QED BY <1>1, <2>2, <2>3 DEF SafeStep
<1>2. \A rec \in shielded : /\ ~CleanerDooms(rec) /\ recorded[rec].isProtected
                            /\ RowsOf(rec) \subseteq videoFiles
  BY DEF IInv, ShieldInv, Committed, CleanerDooms, Doomed, RowsOf
<1>3. CASE CleanupStarts \/ CleanupLists \/ CleanupEnds \/ \E v \in Videos : CleanupSweeps(v)
  <2>1. UNCHANGED <<request, tails, shielded, recorded, recorder, videoFiles>>
    BY <1>3 DEF CleanupStarts, CleanupLists, CleanupEnds, CleanupSweeps
  <2>2. CleanerIdle.video = {} /\ CleanerIdle.step = "idle"
    BY DEF CleanerIdle
  <2>3. cleaner'.step \notin Doomed /\ (cleaner'.video = {} \/ cleaner'.video = cleaner.video)
    <3>1. CASE CleanupStarts
      BY <3>1 DEF CleanupStarts, Clean, CleanerIdle, Doomed
    <3>2. CASE CleanupLists
      BY <3>2 DEF CleanupLists, Clean, CleanerIdle, Doomed
    <3>3. CASE CleanupEnds
      BY <2>2, <3>3 DEF CleanupEnds, Clean, Doomed
    <3>4. CASE \E v \in Videos : CleanupSweeps(v)
      BY <1>0, <3>4 DEF CleanupSweeps, Clean, CleanerStates, Doomed
    <3> QED BY <1>3, <3>1, <3>2, <3>3, <3>4
  <2>4. UpcomingInv'
    BY <2>1 DEF IInv, UpcomingInv
  <2> QED BY <1>0, <1>1, <1>2, <2>1, <2>3, <2>4 DEF CleanerDooms, CleanerInv
<1>4. ASSUME NEW v \in Videos, CleanupChecks(v) PROVE SafeStep
  <2>1. UNCHANGED <<request, tails, shielded, recorded, recorder, videoFiles>>
    BY <1>4 DEF CleanupChecks
  <2>2. cleaner'.step \notin Doomed /\ (cleaner'.video = {v} \/ cleaner'.video = cleaner.video)
    BY <1>0, <1>4 DEF CleanupChecks, Clean, CleanerStates, Doomed
  <2>3. UpcomingInv'
    BY <2>1 DEF IInv, UpcomingInv
  <2> QED BY <1>0, <1>1, <1>2, <2>1, <2>2, <2>3 DEF CleanerDooms, CleanerInv
<1>5. ASSUME NEW v \in Videos, LegacyRead(v) \/ LegacyRereads(v) PROVE SafeStep
  <2>1. UNCHANGED <<request, tails, shielded, recorded, recorder, videoFiles>> /\ v \in cleaner.video
    BY <1>5 DEF LegacyRead, LegacyRereads
  <2>2. /\ cleaner'.step \in Doomed => ~recorded[RecOf[v]].isProtected
        /\ cleaner'.video = cleaner.video
    <3>1. PICK step \in {"check", "whole", "legacyRow"} :
              /\ cleaner' = [cleaner EXCEPT !.step = step]
              /\ step = "legacyRow" => ~recorded[RecOf[v]].isProtected
      BY <1>5 DEF LegacyRead, LegacyRereads, CleanStep
    <3>2. step \in CleanerSteps /\ {} \in SUBSET Videos
      BY <3>1 DEF CleanerSteps
    <3>3. cleaner'.step = step /\ cleaner'.video = cleaner.video
      BY <1>0, <3>1, <3>2, CleanerGoesOn
    <3> QED BY <3>1, <3>3 DEF Doomed
  <2>3. UpcomingInv'
    BY <2>1 DEF IInv, UpcomingInv
  <2>4. \A rec \in shielded : CleanerDooms(rec)' => CleanerDooms(rec)
    BY <1>0, <1>2, <2>1, <2>2 DEF CleanerDooms, CleanerInv
  <2> QED BY <1>0, <1>1, <1>2, <2>1, <2>2, <2>3, <2>4 DEF CleanerInv
<1>6. ASSUME NEW v \in Videos, LegacyDeletesRow(v) PROVE SafeStep
  <2>1. UNCHANGED <<request, tails, shielded, recorded, recorder>> /\ v \in cleaner.video
        /\ videoFiles' = videoFiles \ {v} /\ cleaner.step \in Doomed
    BY <1>6 DEF LegacyDeletesRow, Doomed
  <2>2. cleaner'.step \notin Doomed /\ cleaner'.video = cleaner.video
    BY <1>0, <1>6 DEF LegacyDeletesRow, CleanStep, CleanerStates, Doomed
  <2>3. \A rec \in shielded : RowsOf(rec) \subseteq videoFiles'
    BY <1>2, <2>1 DEF CleanerDooms, RowsOf, VideosOf
  <2>4. UpcomingInv'
    BY <2>1 DEF IInv, UpcomingInv
  <2> QED BY <1>0, <1>1, <2>1, <2>2, <2>3, <2>4 DEF CleanerDooms, CleanerInv
<1>7. ASSUME NEW v \in Videos, LegacyWholeRead(v) PROVE SafeStep
  <2>1. UNCHANGED <<request, tails, shielded, videoFiles>> /\ v \in cleaner.video /\ RecOf[v] \in Recs
    BY <1>7, ContentAssumption DEF LegacyWholeRead
  <2>2. /\ cleaner'.step \in Doomed => ~recorded[RecOf[v]].isProtected
        /\ cleaner'.video = cleaner.video
    <3>1. CASE ~recorded[RecOf[v]].exists \/ recorded[RecOf[v]].isProtected
      BY <1>0, <1>7, <3>1 DEF LegacyWholeRead, CleanStep, CleanerStates, Doomed
    <3>2. CASE ~(~recorded[RecOf[v]].exists \/ recorded[RecOf[v]].isProtected)
      <4> DEFINE plan == RowsOf(RecOf[v])
      <4>1. cleaner' = [cleaner EXCEPT !.step = "wholeFiles", !.plan = plan] /\ plan \in SUBSET Videos
        BY <1>7, <3>2 DEF LegacyWholeRead, Clean, RowsOf, VideosOf
      <4> HIDE DEF plan
      <4>2. "wholeFiles" \in CleanerSteps
        BY DEF CleanerSteps
      <4> QED BY <1>0, <3>2, <4>1, <4>2, CleanerGoesOn
    <3> QED BY <3>1, <3>2
  <2>3. UNCHANGED <<recorded, recorder>> \/ StopRecorder(RecOf[v])
    BY <1>7 DEF LegacyWholeRead
  <2>4. /\ UpcomingInv'
        /\ \A other \in shielded : recorded'[other] = recorded[other]
        /\ \A other \in Recs : recorder'[other] = "registering" => recorder[other] = "registering"
    <3>1. CASE UNCHANGED <<recorded, recorder>>
      BY <3>1 DEF IInv, UpcomingInv
    <3>2. CASE StopRecorder(RecOf[v])
      BY <2>1, <3>2, StopIsSafe
    <3> QED BY <2>3, <3>1, <3>2
  <2>5. \A rec \in shielded : CleanerDooms(rec)' => CleanerDooms(rec)
    BY <1>0, <1>2, <2>1, <2>2 DEF CleanerDooms, CleanerInv
  <2> QED BY <1>0, <1>1, <1>2, <2>1, <2>2, <2>4, <2>5 DEF CleanerInv
<1>8. CASE LegacyWholeFiles
  <2>1. /\ UNCHANGED <<request, tails, shielded, recorder, recorded, videoFiles>>
        /\ cleaner.step \in Doomed
    BY <1>8 DEF LegacyWholeFiles, Doomed
  <2>2. cleaner'.video = cleaner.video
    BY <1>0, <1>8 DEF LegacyWholeFiles, CleanStep, CleanerStates
  <2>3. UpcomingInv'
    BY <2>1 DEF IInv, UpcomingInv
  <2> QED BY <1>0, <1>1, <1>2, <2>1, <2>2, <2>3 DEF CleanerDooms, CleanerInv
<1>9. ASSUME NEW v \in Videos, LegacyWholeRows(v) \/ LegacyWholeRecorded(v) PROVE SafeStep
  <2> DEFINE gone == RecOf[v]
  <2>1. /\ UNCHANGED <<request, tails, shielded, recorder>>
        /\ gone \in Recs /\ CleanerDooms(gone) /\ cleaner.step \in Doomed
    BY <1>9, ContentAssumption DEF LegacyWholeRows, LegacyWholeRecorded, CleanerDooms, Doomed
  <2>2. cleaner'.video = cleaner.video
    BY <1>0, <1>9 DEF LegacyWholeRows, LegacyWholeRecorded, Clean, CleanStep, CleanerStates
  <2>3. /\ recorded' = recorded \/ recorded' = [recorded EXCEPT ![gone] = Absent]
        /\ videoFiles' = videoFiles \/ videoFiles' = videoFiles \ VideosOf(gone)
    BY <1>9 DEF LegacyWholeRows, LegacyWholeRecorded
  <2>4. gone \notin shielded
    BY <1>2, <2>1
  <2>5. /\ \A rec \in Recs : recorded'[rec] = recorded[rec] \/ (rec = gone /\ recorded'[rec] = Absent)
        /\ ~Absent.exists
    BY <1>0, <2>3 DEF Absent
  <2>6. UpcomingInv'
    BY <2>1, <2>5 DEF IInv, UpcomingInv
  <2>7. \A rec \in shielded : RowsOf(rec) \subseteq videoFiles'
    BY <2>3, <2>4 DEF RowsOf, VideosOf
  <2> QED BY <1>0, <1>1, <2>1, <2>2, <2>4, <2>5, <2>6, <2>7 DEF CleanerDooms, CleanerInv
<1> QED BY <1>3, <1>4, <1>5, <1>6, <1>7, <1>8, <1>9 DEF CleanerStep

-----------------------------------------------------------------------------
(* The theorems. *)

\* The invariant holds at the start.
LEMMA InitInv == Init => IInv
<1> SUFFICES ASSUME Init PROVE IInv
  OBVIOUS
<1>1. TypeOK
  <2>1. /\ Absent \in Rows /\ Idle \in RequestStates /\ CleanerIdle \in CleanerStates
    BY DEF Absent, Rows, Idle, RequestStates, RequestSteps, CleanerIdle, CleanerStates, CleanerSteps
  <2>2. recorded \in [Recs -> Rows]
    <3>1. \A b \in BOOLEAN : [Absent EXCEPT !.exists = b] \in Rows
      BY DEF Absent, Rows
    <3> QED BY <3>1 DEF Init
  <2>3. videoFiles \subseteq Videos /\ files \subseteq Videos
    BY DEF Init
  <2>4. tails \in [Recs -> Seq(Requests)]
    BY DEF Init
  <2> QED BY <2>1, <2>2, <2>3, <2>4 DEF Init, TypeOK
<1>2. ShieldInv /\ CleanerInv
  BY DEF Init, ShieldInv, CleanerInv, CleanerIdle
<1>3. UpcomingInv
  BY DEF Init, UpcomingInv, Absent
<1>4. PlanInv /\ LockInv
  BY DEF Init, PlanInv, LockInv, Idle
<1> QED BY <1>1, <1>2, <1>3, <1>4 DEF IInv

\* Every step keeps the invariant and the rows of the shielded recordings.
LEMMA NextIsSafe ==
    ASSUME IInv, [Next]_vars
    PROVE  IInv' /\ Keeps
<1> USE DEF content, history
<1>1. CASE UNCHANGED vars
  <2>1. TypeOK'
    BY <1>1 DEF vars, IInv, TypeOK
  <2>2. ShieldInv' /\ Keeps
    BY <1>1 DEF vars, IInv, ShieldInv, Committed, Keeps, RowsOf, RecAsked
  <2>3. UpcomingInv' /\ PlanInv' /\ LockInv' /\ CleanerInv'
    BY <1>1 DEF vars, IInv, UpcomingInv, PlanInv, LockInv, CleanerInv, MyTurn, RecAsked, VideosOf
  <2> QED BY <2>1, <2>2, <2>3 DEF IInv
<1>2. ASSUME TypeOK', SafeStep PROVE IInv' /\ Keeps
  BY <1>2 DEF SafeStep, IInv
<1>3. ASSUME NEW q \in Requests, Ask(q) \/ EncoderWrites(q) PROVE IInv' /\ Keeps
  BY <1>2, <1>3, AskingIsSafe, OtherTypes DEF IInv
<1>4. ASSUME NEW q \in Requests, RequestStep(q) PROVE IInv' /\ Keeps
  <2>1. TypeOK'
    BY <1>4, RequestTypes DEF IInv
  <2>2. SafeStep
    BY <1>4, IdleRequests, StopActiveIsSafe, RereadIsSafe, WorkIsSafe DEF RequestStep
  <2> QED BY <1>2, <2>1, <2>2
<1>5. ASSUME NEW rec \in Recs, RecorderStep(rec) PROVE IInv' /\ Keeps
  BY <1>2, <1>5, RecorderIsSafe, OtherTypes DEF IInv
<1>6. ASSUME NEW rec \in Recs, ChangeProtect(rec) PROVE IInv' /\ Keeps
  BY <1>2, <1>6, ProtectIsSafe, OtherTypes DEF IInv
<1>7. CASE CleanupStarts \/ CleanerStep
  BY <1>2, <1>7, CleanerIsSafe, CleanerTypes DEF IInv
<1> QED BY <1>1, <1>3, <1>4, <1>5, <1>6, <1>7 DEF Next

\* The inductive invariant holds in every reachable state.
THEOREM Invariance == Spec => []IInv
<1>1. IInv /\ [Next]_vars => IInv'
  BY NextIsSafe
<1> QED BY <1>1, InitInv, PTL DEF Spec

\* The types are right in every reachable state.
THEOREM TypeCorrect == Spec => []TypeOK
<1>1. IInv => TypeOK
  BY DEF IInv
<1> QED BY <1>1, Invariance, PTL

\* A recording that was protected before any deletion looked at it for the last time keeps
\* its row and the rows of its files (deletePrepared, deletePreparedVideoFile,
\* deletePreparedForStorage, deleteVideoFile and delete all look again).
THEOREM ProtectionHolds == Spec => ProtectedKept
<1>1. IInv /\ [Next]_vars => [Keeps]_vars
  BY NextIsSafe
<1>2. [Keeps]_vars =>
        [\A rec \in shielded \cap shielded' :
            recorded'[rec].exists /\ RowsOf(rec) \subseteq videoFiles']_vars
  BY DEF Keeps
<1> QED BY <1>1, <1>2, Invariance, PTL DEF Spec, ProtectedKept

\* Under the lock of a recording one deletion is at work at a time, the first in the queue
\* (RecordedResourceMutationLock.runExclusive).
OneAtWork ==
    \A q, r \in Requests :
        /\ request[q].step \in AtWork /\ request[r].step \in AtWork
        /\ RecAsked(q) = RecAsked(r)
        => q = r

\* The lock of a recording excludes.
THEOREM LockExcludes == Spec => []OneAtWork
<1>1. IInv => OneAtWork
  BY DEF IInv, LockInv, MyTurn, AtWork, OneAtWork
<1> QED BY <1>1, Invariance, PTL

-----------------------------------------------------------------------------
(* What is left when nothing works on a recording any more. *)

\* Nothing failed, and the clean-up removed no file of the recording as unknown.
Unharmed(rec) == bounds.failures = 0 /\ VideosOf(rec) \cap swept = {}

\* The first file of the recording is still to be registered.
Unregistered(rec) ==
    recorder[rec] \in {"writing", "registering"} \/ (recorder[rec] = "none" /\ rec \in Upcoming)

\* Nobody will write this file, or add its row, any more.
Past(v) ==
    /\ ~Unregistered(RecOf[v])
    /\ \A q \in DOMAIN Made : Made[q] = v => request[q].step \notin {"idle", "encoding", "measured"}

\* Whatever has a row, and whatever anybody plans to delete, was written and registered before.
PastInv ==
    /\ \A v \in videoFiles \cup cleaner.rows \cup cleaner.video \cup cleaner.plan : Past(v)
    /\ \A q \in Requests : \A v \in request[q].plan : request[q].step \in AtWork => Past(v)

\* Before its first file is registered, a recording has no encoder and no deletion that waits
\* or works; a deletion that is to stop a recorder has seen one at work.
EarlyInv ==
    \A rec \in Recs :
        /\ recorder[rec] = "registering" => recorded[rec].exists /\ recorded[rec].isRecording
        /\ \A q \in Requests : RecAsked(q) = rec =>
              /\ Unregistered(rec) => request[q].step \in {"idle", "whole", "video", "storage", "stopping", "done"}
              /\ request[q].step = "stopping" => recorder[rec] \notin {"none", "writing"}

\* A row of a file belongs to a recording that is there.
OwnerInv == \A v \in videoFiles : recorded[RecOf[v]].exists

\* A file that was recorded has a row, unless its recorder is still to register it, or a
\* deletion has removed the file.
FileInv ==
    /\ \A v \in files \ Encoded : Unharmed(RecOf[v]) =>
          \/ v \in videoFiles
          \/ recorder[RecOf[v]] \in {"writing", "registering"} /\ v = Recorded[RecOf[v]]
    /\ \A rec \in Recs : Unharmed(rec) /\ recorder[rec] \in {"writing", "registering"} => Recorded[rec] \in files
    /\ \A q \in Requests : /\ request[q].step = "measured" /\ Unharmed(RecAsked(q)) => Made[q] \in files
                           /\ request[q].step = "unlink" => request[q].left \subseteq request[q].plan
                           /\ request[q].step = "unlink" /\ bounds.failures = 0
                                 => (request[q].plan \ request[q].left) \cap files = {}

\* A row whose file is gone is about to go: with the deletion that has the lock, or with the
\* clean-up.
GuardInv ==
    \A v \in videoFiles \ files : Unharmed(RecOf[v]) =>
        \/ \E q \in Requests : request[q].step = "unlink" /\ v \in request[q].plan
        \/ cleaner.step = "wholeRows" /\ v \in cleaner.plan

\* The clean-up deletes single rows only where the file is gone, and takes all recorded files
\* of a recording that it deletes.
SweeperInv ==
    \A v \in cleaner.video :
        /\ cleaner.step \in {"legacy", "legacyRow"} => v \notin files
        /\ cleaner.step \in {"wholeFiles", "wholeRows"} =>
              RowsOf(RecOf[v]) \ Encoded \subseteq cleaner.plan /\ cleaner.plan \subseteq VideosOf(RecOf[v])
        /\ cleaner.step = "wholeRows" => cleaner.plan \cap files = {}

\* The clean-up is about to delete the recording, if it has no rows.
CleanerTakes(rec) == cleaner.step = "wholeRecorded" /\ \E v \in cleaner.video : RecOf[v] = rec

\* A recording without rows is about to get its first one or to be deleted; the deletion of one
\* file leaves it another.
LastRowInv ==
    \A rec \in Recs : Unharmed(rec) /\ recorded[rec].exists =>
        /\ RowsOf(rec) = {} =>
              \/ recorder[rec] = "registering"
              \/ \E q \in Requests : RecAsked(q) = rec /\ request[q].step \in AtWork /\ request[q].act # "video"
              \/ CleanerTakes(rec)
        /\ \A q \in Requests : RecAsked(q) = rec /\ request[q].step = "unlink" /\ request[q].act = "video" =>
              \/ RowsOf(rec) \ request[q].plan # {}
              \/ RowsOf(rec) = {} /\ CleanerTakes(rec)

SettleInv == PastInv /\ EarlyInv /\ OwnerInv /\ FileInv /\ GuardInv /\ SweeperInv /\ LastRowInv

-----------------------------------------------------------------------------
(* Files and rows are written once. *)

\* The steps of an encoder until its row is added.
Encoding == {"idle", "encoding", "measured"}

\* No recorder and no encoder begins again.
Onwards ==
    /\ \A rec \in Recs : Unregistered(rec)' => Unregistered(rec)
    /\ \A q \in Requests : request'[q].step \in Encoding => request[q].step \in Encoding

\* The request whose step is changed keeps its plan.
LEMMA GoFacts ==
    ASSUME TypeOK, NEW q \in Requests, NEW step, Go(q, step)
    PROVE  /\ \A r \in Requests : r # q => request'[r] = request[r]
           /\ request'[q].step = step /\ request'[q].plan = request[q].plan
           /\ request'[q].left = request[q].left /\ request'[q].act = request[q].act
BY DEF TypeOK, RequestStates, Go

\* The commit waits for its turn without a plan.
LEMMA EnqueueFacts ==
    ASSUME TypeOK, NEW q \in Requests, NEW act, NEW isRecording, Enqueue(q, act, isRecording)
    PROVE  /\ \A r \in Requests : r # q => request'[r] = request[r]
           /\ request'[q].step = "queued"
BY DEF TypeOK, Enqueue, Idle

\* The steps of the clean-up: what they change of it.
LEMMA CleanerFacts ==
    ASSUME TypeOK, NEW step, CleanStep(step)
    PROVE  /\ cleaner'.step = step /\ cleaner'.video = cleaner.video /\ cleaner'.plan = cleaner.plan
           /\ cleaner'.rows = cleaner.rows
BY DEF TypeOK, CleanerStates, CleanStep

\* A stopped recorder is not at work.
LEMMA StopFacts ==
    ASSUME TypeOK, NEW rec \in Recs, StopRecorder(rec)
    PROVE  /\ \A other \in Recs : other # rec => recorder'[other] = recorder[other] /\ recorded'[other] = recorded[other]
           /\ recorder'[rec] = IF recorder[rec] \in {"registering", "recording"} THEN "stopped" ELSE recorder[rec]
           /\ recorder[rec] # "registering" => UNCHANGED <<recorded, files>>
           /\ recorder[rec] = "registering" => files' = files \ {Recorded[rec]} /\ ~recorded'[rec].exists
BY DEF TypeOK, StopRecorder, Absent

\* A step changes the requests only forwards.
LEMMA NextOnwards ==
    ASSUME TypeOK, Next
    PROVE  Onwards
<1> USE DEF content, history
<1>0. \A q \in Requests : RecAsked(q) \in Recs
  BY ContentAssumption DEF RecAsked
<1>1. ASSUME NEW rec \in Recs, StopRecorder(rec)
      PROVE  \A other \in Recs : Unregistered(other)' => Unregistered(other)
  BY <1>1, StopFacts DEF Unregistered
<1>2. ASSUME UNCHANGED recorder PROVE \A rec \in Recs : Unregistered(rec)' => Unregistered(rec)
  BY <1>2 DEF Unregistered
<1>3. ASSUME NEW q \in Requests, NEW step, Go(q, step), step \in Encoding => request[q].step \in Encoding
      PROVE  \A r \in Requests : request'[r].step \in Encoding => request[r].step \in Encoding
  BY <1>3, GoFacts
<1>4. ASSUME NEW q \in Requests, NEW act, NEW isRecording, Enqueue(q, act, isRecording)
      PROVE  \A r \in Requests : request'[r].step \in Encoding => request[r].step \in Encoding
  BY <1>4, EnqueueFacts DEF Encoding
<1>5. ASSUME NEW q \in Requests, RequestStep(q) PROVE Onwards
  <2>1. CASE PrepareUserDeletion(q)
    BY <1>2, <1>3, <1>4, <2>1 DEF PrepareUserDeletion, Encoding, Onwards
  <2>2. CASE StopActiveRecording(q)
    BY <1>0, <1>1, <1>4, <2>2 DEF StopActiveRecording, Onwards
  <2>3. CASE PrepareVideoFileDeletion(q)
    BY <1>2, <1>3, <1>4, <2>3 DEF PrepareVideoFileDeletion, Encoding, Onwards
  <2>4. CASE PrepareStorageDeletion(q)
    BY <1>2, <1>3, <1>4, <2>4 DEF PrepareStorageDeletion, Encoding, Onwards
  <2>5. CASE Reread(q)
    <3>1. CASE Go(q, "done") \/ Go(q, "whole")
      BY <1>2, <1>3, <2>5, <3>1 DEF Reread, Encoding, Onwards
    <3>2. ASSUME NEW plan, request' = [request EXCEPT ![q].step = "unlink", ![q].plan = plan, ![q].left = plan]
          PROVE  \A r \in Requests : request'[r].step \in Encoding => request[r].step \in Encoding
      BY <3>2 DEF TypeOK, RequestStates, Encoding
    <3> QED BY <1>2, <2>5, <3>1, <3>2 DEF Reread, Onwards
  <2>6. CASE DeleteVideoRows(q) \/ DeleteRecorded(q) \/ MeasureVideoFile(q) \/ InsertVideoFile(q)
    BY <1>2, <1>3, <2>6 DEF DeleteVideoRows, DeleteRecorded, MeasureVideoFile, InsertVideoFile, Encoding, Onwards
  <2>7. CASE \E v \in Videos : Unlink(q, v)
    <3>1. PICK v \in Videos : Unlink(q, v)
      BY <2>7
    <3>2. ASSUME request' = [request EXCEPT ![q].left = @ \ {v}]
          PROVE  \A r \in Requests : request'[r].step \in Encoding => request[r].step \in Encoding
      BY <3>2 DEF TypeOK, RequestStates
    <3> QED BY <1>2, <1>3, <3>1, <3>2 DEF Unlink, Encoding, Onwards
  <2> QED BY <1>5, <2>1, <2>2, <2>3, <2>4, <2>5, <2>6, <2>7 DEF RequestStep
<1>6. ASSUME NEW q \in Requests, Ask(q) PROVE Onwards
  <2>1. KindOf[q] \in {"user", "video", "storage"}
    BY <1>6, ContentAssumption DEF Ask
  <2>2. \A r \in Requests : request'[r] = request[r] \/ request'[r].step \in {"whole", "video", "storage", "done"}
    BY <1>6, <2>1 DEF Ask, Idle
  <2> QED BY <1>2, <1>6, <2>2 DEF Ask, Encoding, Onwards
<1>7. ASSUME NEW q \in Requests, EncoderWrites(q) PROVE Onwards
  BY <1>2, <1>3, <1>7 DEF EncoderWrites, Fresh, Encoding, Onwards
<1>8. ASSUME NEW rec \in Recs, RecorderStep(rec) PROVE Onwards
  BY <1>8 DEF TypeOK, RecorderStep, RecorderOpens, RegisterRecorded, RegisterVideoFile, RecordingEnds, Unregistered, Onwards
<1>9. ASSUME NEW rec \in Recs, ChangeProtect(rec) PROVE Onwards
  BY <1>2, <1>9 DEF ChangeProtect, Onwards
<1>10. CASE CleanupStarts \/ CleanerStep
  <2>1. UNCHANGED request
    BY <1>10 DEF CleanupStarts, CleanerStep, CleanupLists, CleanupEnds, LegacyWholeFiles, CleanupChecks, CleanupSweeps,
         LegacyRead, LegacyDeletesRow, LegacyRereads, LegacyWholeRead, LegacyWholeRows, LegacyWholeRecorded
  <2>2. UNCHANGED recorder \/ \E v \in Videos : StopRecorder(RecOf[v])
    BY <1>10 DEF CleanupStarts, CleanerStep, CleanupLists, CleanupEnds, LegacyWholeFiles, CleanupChecks, CleanupSweeps,
         LegacyRead, LegacyDeletesRow, LegacyRereads, LegacyWholeRead, LegacyWholeRows, LegacyWholeRecorded
  <2>3. \A v \in Videos : RecOf[v] \in Recs
    BY ContentAssumption
  <2> QED BY <1>1, <1>2, <2>1, <2>2, <2>3 DEF Onwards
<1> QED BY <1>5, <1>6, <1>7, <1>8, <1>9, <1>10 DEF Next

\* What is past stays past.
LEMMA PastStays ==
    ASSUME Onwards, NEW v \in Videos, Past(v)
    PROVE  Past(v)'
BY ContentAssumption DEF Onwards, Past, Encoding

-----------------------------------------------------------------------------
(* Steps that neither write nor delete. *)

Waiting == {"idle", "whole", "video", "storage", "stopping", "done"}

\* A request that is not at work goes on: at most it begins to delete, with a plan of what it
\* has read.
GentleRequest(q) ==
    LET rec == RecAsked(q) IN
    /\ request[q].step \notin AtWork
    /\ Unregistered(rec) => request'[q].step \in Waiting
    /\ request'[q].step = "stopping" => recorder[rec] \notin {"none", "writing"}
    /\ request'[q].step = "measured" => Made[q] \in files
    /\ \/ request'[q].step \notin AtWork
       \/ /\ request'[q].step = "unlink" /\ request'[q].left = request'[q].plan
          /\ request'[q].plan \subseteq RowsOf(rec)
          /\ request'[q].act = "video" => RowsOf(rec) \ request'[q].plan # {}

\* The clean-up goes on: at most to delete a recording whose rows it has read.
GentleCleaner ==
    /\ cleaner.step \notin {"wholeRows", "wholeRecorded"}
    /\ cleaner'.step \notin {"wholeRows", "wholeRecorded"}
    /\ cleaner'.rows \cup cleaner'.video \cup cleaner'.plan
          \subseteq videoFiles \cup cleaner.rows \cup cleaner.video \cup cleaner.plan
    /\ cleaner'.step \in {"legacy", "legacyRow"} => cleaner'.video \cap files = {}
    /\ cleaner'.step = "wholeFiles" => \A v \in cleaner'.video : cleaner'.plan = RowsOf(RecOf[v])

\* A recorder at work ends or is stopped.
GentleRecorder(rec) ==
    /\ recorded'[rec].exists = recorded[rec].exists
    /\ \/ recorder'[rec] = recorder[rec] /\ recorded'[rec].isRecording = recorded[rec].isRecording
       \/ {recorder[rec], recorder'[rec]} \subseteq {"recording", "stopped", "ended"}

Gentle ==
    /\ UNCHANGED <<files, videoFiles, swept>> /\ bounds'.failures = bounds.failures
    /\ \A rec \in Recs : GentleRecorder(rec)
    /\ \A q \in Requests : request'[q] = request[q] \/ GentleRequest(q)
    /\ UNCHANGED cleaner \/ GentleCleaner

\* What the constants say of each request and each file.
LEMMA OwnersKnown ==
    /\ \A q \in Requests : RecAsked(q) \in Recs /\ Asked[q] \in Videos
    /\ \A v \in Videos : RecOf[v] \in Recs /\ v \in VideosOf(RecOf[v])
    /\ \A q \in DOMAIN Made : q \in Requests /\ Made[q] \in Encoded /\ Made[q] \in VideosOf(RecAsked(q))
    /\ \A rec \in Recs : Recorded[rec] \in Videos \ Encoded /\ RecOf[Recorded[rec]] = rec
BY ContentAssumption DEF RecAsked, VideosOf

\* The plans grow by files that are past.
LEMMA PastGrows ==
    ASSUME TypeOK, TypeOK', PastInv, Onwards,
           \A v \in videoFiles' \cup cleaner'.rows \cup cleaner'.video \cup cleaner'.plan :
              v \in videoFiles \cup cleaner.rows \cup cleaner.video \cup cleaner.plan \/ Past(v)',
           \A q \in Requests : request'[q].step \in AtWork =>
              \/ request[q].step \in AtWork /\ request'[q].plan \subseteq request[q].plan
              \/ request'[q].plan \subseteq videoFiles
    PROVE  PastInv'
<1>1. ASSUME NEW v \in videoFiles \cup cleaner.rows \cup cleaner.video \cup cleaner.plan PROVE Past(v)'
  <2>1. v \in Videos
    BY DEF TypeOK, CleanerStates
  <2> QED BY <2>1, PastStays DEF PastInv
<1>2. ASSUME NEW q \in Requests, NEW v \in request'[q].plan, request'[q].step \in AtWork PROVE Past(v)'
  <2>1. v \in Videos
    BY <1>2 DEF TypeOK, RequestStates
  <2> QED BY <1>1, <1>2, <2>1, PastStays DEF PastInv
<1> QED BY <1>1, <1>2 DEF PastInv

\* Such a step leaves everything settled that was.
LEMMA GentleSettles ==
    ASSUME IInv, TypeOK', SettleInv, Onwards, Gentle
    PROVE  SettleInv'
<1> USE OwnersKnown
<1>0. TypeOK
  BY DEF IInv
<1>1. \A rec \in Recs : /\ Unharmed(rec)' <=> Unharmed(rec)
                        /\ RowsOf(rec)' = RowsOf(rec)
                        /\ recorded'[rec].exists = recorded[rec].exists
                        /\ recorder'[rec] \in {"none", "writing", "registering"} => recorder'[rec] = recorder[rec]
                        /\ recorder[rec] \in {"none", "writing", "registering"} => recorder'[rec] = recorder[rec]
  BY DEF Gentle, GentleRecorder, Unharmed, RowsOf, VideosOf
<1>2. \A v \in videoFiles' \cup files' : v \in Videos
  BY <1>0 DEF TypeOK, Gentle
<1>3. PastInv'
  <2>1. \A v \in videoFiles' \cup cleaner'.rows \cup cleaner'.video \cup cleaner'.plan :
           v \in videoFiles \cup cleaner.rows \cup cleaner.video \cup cleaner.plan
    BY DEF Gentle, GentleCleaner
  <2>2. ASSUME NEW q \in Requests, request'[q].step \in AtWork
        PROVE  \/ request[q].step \in AtWork /\ request'[q].plan \subseteq request[q].plan
               \/ request'[q].plan \subseteq videoFiles
    BY <2>2 DEF Gentle, GentleRequest, RowsOf
  <2> QED BY <1>0, <2>1, <2>2, PastGrows DEF SettleInv
<1>4. EarlyInv'
  <2>1. ASSUME NEW rec \in Recs, recorder'[rec] = "registering"
        PROVE  recorded'[rec].exists /\ recorded'[rec].isRecording
    BY <1>1, <2>1 DEF SettleInv, EarlyInv, Gentle, GentleRecorder
  <2>2. ASSUME NEW q \in Requests
        PROVE  /\ Unregistered(RecAsked(q))' => request'[q].step \in Waiting
               /\ request'[q].step = "stopping" => recorder'[RecAsked(q)] \notin {"none", "writing"}
    <3>1. CASE request'[q] = request[q]
      BY <1>1, <3>1 DEF SettleInv, EarlyInv, Unregistered, Waiting
    <3>2. CASE GentleRequest(q)
      BY <1>1, <3>2 DEF GentleRequest, Unregistered
    <3> QED BY <3>1, <3>2 DEF Gentle
  <2> QED BY <2>1, <2>2 DEF EarlyInv, Waiting, RecAsked, Unregistered
<1>5. OwnerInv'
  BY <1>1, <1>2 DEF SettleInv, OwnerInv, Gentle
<1>6. FileInv'
  <2>1. ASSUME NEW v \in files' \ Encoded, Unharmed(RecOf[v])'
        PROVE  v \in videoFiles' \/ (recorder'[RecOf[v]] \in {"writing", "registering"} /\ v = Recorded[RecOf[v]])
    BY <1>1, <1>2, <2>1 DEF SettleInv, FileInv, Gentle
  <2>2. ASSUME NEW rec \in Recs, Unharmed(rec)', recorder'[rec] \in {"writing", "registering"}
        PROVE  Recorded[rec] \in files'
    BY <1>1, <2>2 DEF SettleInv, FileInv, Gentle
  <2>3. ASSUME NEW q \in Requests
        PROVE  /\ request'[q].step = "measured" /\ Unharmed(RecAsked(q))' => Made[q] \in files'
               /\ request'[q].step = "unlink" => request'[q].left \subseteq request'[q].plan
               /\ request'[q].step = "unlink" /\ bounds'.failures = 0
                     => (request'[q].plan \ request'[q].left) \cap files' = {}
    <3>1. CASE request'[q] = request[q]
      BY <1>1, <3>1 DEF SettleInv, FileInv, Gentle
    <3>2. CASE GentleRequest(q)
      BY <1>1, <3>2 DEF GentleRequest, AtWork, Gentle
    <3> QED BY <3>1, <3>2 DEF Gentle
  <2> QED BY <2>1, <2>2, <2>3 DEF FileInv, RecAsked, Unharmed, VideosOf
<1>7. GuardInv'
  <2>1. ASSUME NEW v \in videoFiles \ files, Unharmed(RecOf[v])
        PROVE  \/ \E q \in Requests : request'[q].step = "unlink" /\ v \in request'[q].plan
               \/ cleaner'.step = "wholeRows" /\ v \in cleaner'.plan
    <3>1. ASSUME NEW q \in Requests, request[q].step = "unlink" PROVE request'[q] = request[q]
      BY <3>1 DEF Gentle, GentleRequest, AtWork
    <3>2. ASSUME cleaner.step = "wholeRows" PROVE UNCHANGED cleaner
      BY <3>2 DEF Gentle, GentleCleaner
    <3> QED BY <2>1, <3>1, <3>2 DEF SettleInv, GuardInv
  <2> QED BY <1>1, <1>2, <2>1 DEF GuardInv, Gentle
<1>8. SweeperInv'
  <2>1. CASE UNCHANGED cleaner
    <3>1. \A v \in cleaner.video : RowsOf(RecOf[v])' = RowsOf(RecOf[v])
      BY DEF Gentle, RowsOf, VideosOf
    <3> QED BY <2>1, <3>1 DEF SettleInv, SweeperInv, Gentle, VideosOf
  <2>2. CASE GentleCleaner
    <3>1. \A v \in cleaner'.video : RowsOf(RecOf[v])' = RowsOf(RecOf[v])
      BY DEF Gentle, RowsOf, VideosOf
    <3> QED BY <2>2, <3>1 DEF SweeperInv, Gentle, GentleCleaner, RowsOf, VideosOf
  <2> QED BY <2>1, <2>2 DEF Gentle
<1>9. LastRowInv'
  <2> SUFFICES ASSUME NEW rec \in Recs, Unharmed(rec)', recorded'[rec].exists
               PROVE  /\ RowsOf(rec)' = {} =>
                            \/ recorder'[rec] = "registering"
                            \/ \E q \in Requests : RecAsked(q)' = rec /\ request'[q].step \in AtWork /\ request'[q].act # "video"
                            \/ CleanerTakes(rec)'
                      /\ \A q \in Requests : RecAsked(q)' = rec /\ request'[q].step = "unlink" /\ request'[q].act = "video" =>
                            \/ RowsOf(rec)' \ request'[q].plan # {}
                            \/ RowsOf(rec)' = {} /\ CleanerTakes(rec)'
    BY DEF LastRowInv, AtWork
  <2>1. Unharmed(rec) /\ recorded[rec].exists /\ RowsOf(rec)' = RowsOf(rec)
    BY <1>1
  <2>2. CleanerTakes(rec)' <=> CleanerTakes(rec)
    BY DEF Gentle, GentleCleaner, CleanerTakes
  <2>3. \A q \in Requests : RecAsked(q)' = RecAsked(q)
    BY DEF RecAsked
  <2>4. ASSUME RowsOf(rec)' = {}
        PROVE  \/ recorder'[rec] = "registering"
               \/ \E q \in Requests : RecAsked(q)' = rec /\ request'[q].step \in AtWork /\ request'[q].act # "video"
               \/ CleanerTakes(rec)'
    <3>1. ASSUME NEW q \in Requests, request[q].step \in AtWork PROVE request'[q] = request[q]
      BY <3>1 DEF Gentle, GentleRequest
    <3> QED BY <1>1, <2>1, <2>2, <2>3, <2>4, <3>1 DEF SettleInv, LastRowInv
  <2>5. ASSUME NEW q \in Requests, RecAsked(q)' = rec, request'[q].step = "unlink", request'[q].act = "video"
        PROVE  \/ RowsOf(rec)' \ request'[q].plan # {}
               \/ RowsOf(rec)' = {} /\ CleanerTakes(rec)'
    <3>1. CASE request'[q] = request[q]
      BY <2>1, <2>2, <2>3, <2>5, <3>1 DEF SettleInv, LastRowInv
    <3>2. CASE GentleRequest(q)
      BY <2>1, <2>3, <2>5, <3>2 DEF GentleRequest, AtWork
    <3> QED BY <3>1, <3>2 DEF Gentle
  <2> QED BY <2>4, <2>5
<1> QED BY <1>3, <1>4, <1>5, <1>6, <1>7, <1>8, <1>9 DEF SettleInv

\* A request that prepares, measures, or is refused after its turn has come.
LEMMA RequestIsGentle ==
    ASSUME IInv, SettleInv, NEW q \in Requests,
           \/ PrepareUserDeletion(q) \/ PrepareVideoFileDeletion(q) \/ PrepareStorageDeletion(q)
           \/ MeasureVideoFile(q) \/ Reread(q)
    PROVE  Gentle
<1> USE OwnersKnown DEF content, history
<1> DEFINE rec == RecAsked(q)
<1>0. TypeOK /\ PlanInv /\ LockInv
  BY DEF IInv
<1>1. UNCHANGED <<content, recorder, cleaner, history, bounds>>
  BY DEF PrepareUserDeletion, PrepareVideoFileDeletion, PrepareStorageDeletion, MeasureVideoFile, Reread
<1>2. request[q].step \notin AtWork
  BY DEF PrepareUserDeletion, PrepareVideoFileDeletion, PrepareStorageDeletion, MeasureVideoFile, Reread, AtWork
<1>3. ASSUME Unregistered(rec)
      PROVE  RowsOf(rec) = {} /\ (recorded[rec].exists => recorder[rec] = "registering" /\ recorded[rec].isRecording)
  <2>1. RowsOf(rec) = {}
    BY <1>3 DEF SettleInv, PastInv, Past, RowsOf, VideosOf
  <2>2. recorded[rec].exists => recorder[rec] = "registering"
    BY <1>0, <1>3 DEF IInv, UpcomingInv, Unregistered
  <2>3. recorder[rec] = "registering" => recorded[rec].isRecording
    BY DEF SettleInv, EarlyInv
  <2> QED BY <2>1, <2>2, <2>3
<1>4. ASSUME NEW step, Go(q, step) PROVE request'[q].step = step /\ \A r \in Requests : r # q => request'[r] = request[r]
  BY <1>0, <1>4, GoFacts
<1>5. ASSUME NEW act, NEW isRecording, Enqueue(q, act, isRecording)
      PROVE  request'[q].step = "queued" /\ \A r \in Requests : r # q => request'[r] = request[r]
  BY <1>0, <1>5, EnqueueFacts
<1>6. GentleRequest(q) /\ \A r \in Requests : r # q => request'[r] = request[r]
  <2>1. CASE PrepareUserDeletion(q)
    BY <1>2, <1>3, <1>4, <1>5, <2>1 DEF PrepareUserDeletion, GentleRequest, Waiting, AtWork
  <2>2. CASE PrepareVideoFileDeletion(q)
    <3>1. Unregistered(rec) => Asked[q] \notin videoFiles
      BY <1>3 DEF RowsOf, VideosOf, RecAsked
    <3>2. \/ Go(q, "done")
          \/ Asked[q] \in videoFiles /\ (Go(q, "whole") \/ Enqueue(q, "video", FALSE))
      BY <2>2 DEF PrepareVideoFileDeletion
    <3>3. \/ request'[q].step = "done"
          \/ Asked[q] \in videoFiles /\ request'[q].step \in {"whole", "queued"}
      BY <1>4, <1>5, <3>2
    <3>4. \A r \in Requests : r # q => request'[r] = request[r]
      BY <1>4, <1>5, <3>2
    <3> QED BY <1>2, <3>1, <3>3, <3>4 DEF GentleRequest, Waiting, AtWork
  <2>3. CASE PrepareStorageDeletion(q)
    <3>1. \/ Go(q, "done")
          \/ RowsOf(rec) # {} /\ Enqueue(q, "storage", FALSE)
      BY <2>3 DEF PrepareStorageDeletion, StorageRefuses
    <3>2. \/ request'[q].step = "done"
          \/ RowsOf(rec) # {} /\ request'[q].step = "queued"
      BY <1>4, <1>5, <3>1
    <3>3. \A r \in Requests : r # q => request'[r] = request[r]
      BY <1>4, <1>5, <3>1
    <3> QED BY <1>2, <1>3, <3>2, <3>3 DEF GentleRequest, Waiting, AtWork
  <2>4. CASE MeasureVideoFile(q)
    <3>1. ~Unregistered(rec)
      BY <2>4 DEF SettleInv, EarlyInv, MeasureVideoFile
    <3> QED BY <1>2, <1>4, <2>4, <3>1 DEF MeasureVideoFile, GentleRequest, AtWork
  <2>5. CASE Reread(q)
    <3>1. ~Unregistered(rec)
      BY <2>5 DEF SettleInv, EarlyInv, Reread
    <3>2. CASE Go(q, "done") \/ Go(q, "whole")
      BY <1>2, <1>4, <3>1, <3>2 DEF GentleRequest, AtWork
    <3>3. CASE ~(Go(q, "done") \/ Go(q, "whole"))
      <4> DEFINE plan == IF request[q].act = "video" THEN {Asked[q]} ELSE RowsOf(rec)
      <4>1. /\ request' = [request EXCEPT ![q].step = "unlink", ![q].plan = plan, ![q].left = plan]
            /\ ~Refused(q) /\ ~NeedsWhole(q)
        BY <2>5, <3>3 DEF Reread
      <4>2. plan \subseteq RowsOf(rec)
        <5>1. CASE request[q].act = "video"
          <6>1. Asked[q] \in videoFiles
            BY <4>1, <5>1 DEF Refused
          <6>2. Asked[q] \in RowsOf(rec)
            BY <6>1 DEF RowsOf, VideosOf, RecAsked
          <6> QED BY <5>1, <6>2
        <5>2. CASE request[q].act # "video"
          BY <5>2
        <5> QED BY <5>1, <5>2
      <4>3. request[q].act = "video" => RowsOf(rec) \ plan # {}
        <5> SUFFICES ASSUME request[q].act = "video", RowsOf(rec) \subseteq {Asked[q]} PROVE FALSE
          OBVIOUS
        <5>1. RowsOf(rec) = {} \/ RowsOf(rec) = {Asked[q]}
          OBVIOUS
        <5>2. Cardinality(RowsOf(rec)) \in {0, 1}
          BY <5>1, FS_EmptySet, FS_Singleton
        <5> QED BY <4>1, <5>2 DEF NeedsWhole
      <4> HIDE DEF plan
      <4>4. /\ request'[q].step = "unlink" /\ request'[q].left = plan /\ request'[q].plan = plan
            /\ request'[q].act = request[q].act
            /\ \A r \in Requests : r # q => request'[r] = request[r]
        BY <1>0, <4>1 DEF TypeOK, RequestStates
      <4> QED BY <1>2, <3>1, <4>2, <4>3, <4>4 DEF GentleRequest, AtWork
    <3> QED BY <3>2, <3>3
  <2> QED BY <2>1, <2>2, <2>3, <2>4, <2>5
<1> QED BY <1>1, <1>6 DEF Gentle, GentleRecorder

\* A recorder that is stopped while it records, one that ends, and a change of the protection.
LEMMA RecorderIsGentle ==
    ASSUME IInv, SettleInv,
           \/ \E q \in Requests : StopActiveRecording(q) /\ recorder[RecAsked(q)] # "registering"
           \/ \E rec \in Recs : RecordingEnds(rec) \/ ChangeProtect(rec)
    PROVE  Gentle
<1> USE OwnersKnown DEF content, history
<1>0. TypeOK /\ recorded \in [Recs -> Rows]
  BY DEF IInv, TypeOK
<1>1. ASSUME NEW q \in Requests, StopActiveRecording(q), recorder[RecAsked(q)] # "registering"
      PROVE  Gentle
  <2>1. /\ \A other \in Recs : other # RecAsked(q) => recorder'[other] = recorder[other]
        /\ recorder'[RecAsked(q)] = IF recorder[RecAsked(q)] = "recording" THEN "stopped" ELSE recorder[RecAsked(q)]
        /\ UNCHANGED <<recorded, files>>
    BY <1>0, <1>1, StopFacts DEF StopActiveRecording
  <2>2. /\ \A r \in Requests : r # q => request'[r] = request[r]
        /\ request'[q].step = "queued"
    BY <1>0, <1>1, EnqueueFacts DEF StopActiveRecording
  <2>3. ~Unregistered(RecAsked(q)) /\ request[q].step = "stopping"
    BY <1>1 DEF SettleInv, EarlyInv, StopActiveRecording, Unregistered
  <2>4. GentleRequest(q)
    BY <2>2, <2>3 DEF GentleRequest, AtWork
  <2> QED BY <1>1, <2>1, <2>2, <2>4 DEF StopActiveRecording, Gentle, GentleRecorder
<1>2. ASSUME NEW rec \in Recs, RecordingEnds(rec) PROVE Gentle
  <2>1. /\ \A other \in Recs : other # rec => recorder'[other] = recorder[other] /\ recorded'[other] = recorded[other]
        /\ recorder[rec] = "recording" /\ recorder'[rec] = "ended"
        /\ recorded'[rec].exists = recorded[rec].exists
    BY <1>0, <1>2 DEF TypeOK, RecordingEnds, Rows
  <2> QED BY <1>2, <2>1 DEF RecordingEnds, Gentle, GentleRecorder
<1>3. ASSUME NEW rec \in Recs, ChangeProtect(rec) PROVE Gentle
  <2>1. recorded' = [recorded EXCEPT ![rec].isProtected = ~@]
    BY <1>3 DEF ChangeProtect
  <2>2. \A other \in Recs : /\ recorded'[other].exists = recorded[other].exists
                            /\ recorded'[other].isRecording = recorded[other].isRecording
    BY <1>0, <2>1 DEF Rows
  <2>3. bounds'.failures = bounds.failures
    BY <1>0, <1>3 DEF TypeOK, ChangeProtect
  <2> QED BY <1>3, <2>2, <2>3 DEF ChangeProtect, Gentle, GentleRecorder
<1> QED BY <1>1, <1>2, <1>3

\* The steps in which the clean-up only looks.
LEMMA CleanerIsGentle ==
    ASSUME IInv, SettleInv,
           \/ CleanupStarts \/ CleanupLists \/ CleanupEnds
           \/ \E v \in Videos : \/ CleanupChecks(v) \/ LegacyRead(v) \/ LegacyRereads(v)
                               \/ LegacyWholeRead(v)
    PROVE  Gentle
<1> USE OwnersKnown DEF content, history
<1>0. TypeOK /\ CleanerInv /\ cleaner \in CleanerStates
  BY DEF IInv, TypeOK
<1>1. ASSUME NEW step \in {"check", "whole", "legacyRow"}, CleanStep(step),
             cleaner.step \in {"legacy", "legacyReread", "whole"},
             step = "legacyRow" => cleaner.step = "legacy"
      PROVE  GentleCleaner
  <2>1. /\ cleaner'.step = step /\ cleaner'.video = cleaner.video /\ cleaner'.plan = cleaner.plan
        /\ cleaner'.rows = cleaner.rows
    BY <1>0, <1>1, CleanerFacts
  <2>2. cleaner.step = "legacy" => cleaner.video \cap files = {}
    BY DEF SettleInv, SweeperInv
  <2> QED BY <1>1, <2>1, <2>2 DEF GentleCleaner
<1>2. CASE CleanupStarts \/ CleanupLists \/ CleanupEnds
  <2>1. /\ cleaner'.step \in {"idle", "check", "sweep"} /\ cleaner'.video = {} /\ cleaner'.plan = {}
        /\ cleaner'.rows \subseteq videoFiles /\ cleaner.step \in {"idle", "check", "sweep"}
    <3>1. CASE CleanupStarts
      BY <3>1 DEF CleanupStarts, Clean, CleanerIdle
    <3>2. CASE CleanupLists
      BY <3>2 DEF CleanupLists, Clean, CleanerIdle
    <3>3. CASE CleanupEnds
      BY <3>3 DEF CleanupEnds, Clean, CleanerIdle
    <3> QED BY <1>2, <3>1, <3>2, <3>3
  <2>2. GentleCleaner
    BY <2>1 DEF GentleCleaner
  <2>3. UNCHANGED <<content, recorder, request, swept>> /\ bounds'.failures = bounds.failures
    BY <1>0, <1>2 DEF TypeOK, CleanupStarts, CleanupLists, CleanupEnds
  <2> QED BY <2>2, <2>3 DEF Gentle, GentleRecorder
<1>3. ASSUME NEW v \in Videos, CleanupChecks(v) PROVE Gentle
  <2>1. /\ cleaner.step = "check" /\ cleaner'.step \in {"check", "legacy"}
        /\ cleaner'.rows \subseteq cleaner.rows /\ v \in cleaner.rows /\ cleaner'.plan = cleaner.plan
        /\ cleaner'.video = IF v \in files THEN cleaner.video ELSE {v}
        /\ cleaner'.step = "legacy" => v \notin files
    <3>1. /\ cleaner.step = "check" /\ v \in cleaner.rows
          /\ cleaner' = IF v \in files THEN [cleaner EXCEPT !.rows = @ \ {v}, !.index = @ \cup {v}]
                        ELSE [cleaner EXCEPT !.rows = @ \ {v}, !.step = "legacy", !.video = {v}]
      BY <1>3 DEF CleanupChecks, Clean
    <3>2. CASE v \in files
      <4>1. cleaner' = [cleaner EXCEPT !.rows = @ \ {v}, !.index = @ \cup {v}]
        BY <3>1, <3>2
      <4> QED BY <1>0, <3>1, <3>2, <4>1 DEF CleanerStates
    <3>3. CASE v \notin files
      <4>1. cleaner' = [cleaner EXCEPT !.rows = @ \ {v}, !.step = "legacy", !.video = {v}]
        BY <3>1, <3>3
      <4> QED BY <1>0, <3>1, <3>3, <4>1 DEF CleanerStates
    <3> QED BY <3>2, <3>3
  <2>2. GentleCleaner
    BY <2>1 DEF GentleCleaner
  <2> QED BY <1>3, <2>2 DEF CleanupChecks, Gentle, GentleRecorder
<1>4. ASSUME NEW v \in Videos, LegacyRead(v) \/ LegacyRereads(v) PROVE Gentle
  <2>1. GentleCleaner
    BY <1>1, <1>4 DEF LegacyRead, LegacyRereads
  <2> QED BY <1>4, <2>1 DEF LegacyRead, LegacyRereads, Gentle, GentleRecorder
<1>5. ASSUME NEW v \in Videos, LegacyWholeRead(v) PROVE Gentle
  <2> DEFINE rec == RecOf[v]
  <2>1. ~Unregistered(rec) /\ v \in cleaner.video
    BY <1>5 DEF LegacyWholeRead, SettleInv, PastInv, Past
  <2>2. /\ UNCHANGED <<recorded, files>>
        /\ recorder' = recorder
           \/ /\ \A other \in Recs : other # rec => recorder'[other] = recorder[other]
              /\ recorder'[rec] = IF recorder[rec] = "recording" THEN "stopped" ELSE recorder[rec]
    <3>1. CASE StopRecorder(rec)
      BY <1>0, <2>1, <3>1, StopFacts DEF Unregistered
    <3> QED BY <1>5, <3>1 DEF LegacyWholeRead
  <2>3. GentleCleaner
    <3>1. CASE CleanStep("check")
      BY <1>1, <1>5, <3>1 DEF LegacyWholeRead
    <3>2. CASE ~CleanStep("check")
      <4>1. cleaner' = [cleaner EXCEPT !.step = "wholeFiles", !.plan = RowsOf(RecOf[v])]
            /\ cleaner.step = "whole"
        BY <1>5, <3>2 DEF LegacyWholeRead, Clean
      <4>2. /\ cleaner'.step = "wholeFiles" /\ cleaner'.plan = RowsOf(RecOf[v])
            /\ cleaner'.video = cleaner.video /\ cleaner'.rows = cleaner.rows
        BY <1>0, <4>1 DEF CleanerStates
      <4>3. \A w \in cleaner.video : w = v
        BY <1>0, <2>1 DEF CleanerInv
      <4> QED BY <4>1, <4>2, <4>3 DEF GentleCleaner, RowsOf
    <3> QED BY <3>1, <3>2
  <2>4. \A other \in Recs : GentleRecorder(other)
    BY <2>2 DEF GentleRecorder
  <2> QED BY <1>5, <2>2, <2>3, <2>4 DEF LegacyWholeRead, Gentle
<1> QED BY <1>2, <1>3, <1>4, <1>5

-----------------------------------------------------------------------------
(* Steps that write or delete. *)

\* Without a harm after a step there was none before.
LEMMA HarmStays ==
    ASSUME TypeOK, swept \subseteq swept', bounds'.failures = bounds.failures \/ Fails
    PROVE  /\ \A rec \in Recs : Unharmed(rec)' => Unharmed(rec) /\ bounds'.failures = bounds.failures
           /\ bounds'.failures = 0 => bounds.failures = 0
           /\ Fails => bounds'.failures # 0
BY DEF TypeOK, Fails, Unharmed, VideosOf

\* What is said of recordings before their registration stays true, as long as no registration
\* begins.
LEMMA EarlyStays ==
    ASSUME SettleInv, Onwards,
           \A rec \in Recs : recorder'[rec] = "registering" =>
              recorder[rec] = "registering" /\ recorded'[rec] = recorded[rec],
           \A rec \in Recs : recorder'[rec] \in {"none", "writing"} => recorder[rec] \in {"none", "writing"},
           \A q \in Requests :
              \/ request'[q].step = request[q].step
              \/ /\ Unregistered(RecAsked(q)) => request'[q].step \in Waiting
                 /\ request'[q].step # "stopping"
    PROVE  EarlyInv'
<1> USE OwnersKnown
<1>1. ASSUME NEW rec \in Recs, recorder'[rec] = "registering"
      PROVE  recorded'[rec].exists /\ recorded'[rec].isRecording
  BY <1>1 DEF SettleInv, EarlyInv
<1>2. ASSUME NEW q \in Requests
      PROVE  /\ Unregistered(RecAsked(q))' => request'[q].step \in Waiting
             /\ request'[q].step = "stopping" => recorder'[RecAsked(q)] \notin {"none", "writing"}
  <2>1. Unregistered(RecAsked(q))' => Unregistered(RecAsked(q))
    BY DEF Onwards, RecAsked
  <2> QED BY <2>1 DEF SettleInv, EarlyInv, Waiting
<1> QED BY <1>1, <1>2 DEF EarlyInv, Waiting, RecAsked, Unregistered

\* A new request: the encoders that it stops take their files back.
LEMMA AskSettles ==
    ASSUME IInv, TypeOK', SettleInv, Onwards, NEW q \in Requests, Ask(q)
    PROVE  SettleInv'
<1> USE OwnersKnown DEF history
<1> DEFINE stopped == {e \in Requests : /\ KindOf[q] = "user" /\ KindOf[e] = "encode"
                                        /\ RecAsked(e) = RecAsked(q) /\ request[e].step = "encoding"}
<1>0. TypeOK
  BY DEF IInv
<1>1. /\ UNCHANGED <<recorded, videoFiles, recorder, cleaner, swept, bounds>>
      /\ files' = files \ {Made[e] : e \in stopped}
  BY DEF Ask
<1>2. \A r \in Requests : \/ request'[r] = request[r]
                          \/ r = q /\ request[r].step = "idle" /\ request'[r].step \in {"whole", "video", "storage"}
                          \/ r \in stopped /\ request'[r].step = "done"
  <2>1. KindOf[q] \in {"user", "video", "storage"} /\ request[q].step = "idle"
    BY ContentAssumption DEF Ask, Fresh
  <2>2. request' = [r \in Requests |->
               IF r = q THEN [Idle EXCEPT !.step = IF KindOf[q] = "user" THEN "whole" ELSE KindOf[q]]
               ELSE IF r \in stopped THEN [Idle EXCEPT !.step = "done"] ELSE request[r]]
    BY DEF Ask
  <2> HIDE DEF stopped
  <2> QED BY <2>1, <2>2 DEF Idle
<1>3. \A e \in stopped : e \in DOMAIN Made /\ request[e].step = "encoding" /\ Made[e] \in Encoded /\ ~Past(Made[e])
  BY ContentAssumption DEF Past
<1>4. \A r \in Requests : request[r].step \in {"unlink", "canonical", "measured"} => request'[r] = request[r]
  BY <1>2, <1>3
<1> HIDE DEF stopped
<1>5. \A r \in Requests : request'[r].step \in {"unlink", "canonical", "measured"} => request'[r] = request[r]
  BY <1>2
<1>6. \A v \in Videos : Past(v) \/ v \notin Encoded => (v \in files' <=> v \in files)
  BY <1>1, <1>3
<1>7. PastInv'
  BY <1>0, <1>1, <1>5, PastGrows DEF SettleInv, AtWork
<1>8. EarlyInv'
  <2>1. \A r \in Requests : request'[r].step = request[r].step \/ request'[r].step \in Waiting \ {"stopping"}
    BY <1>2 DEF Waiting
  <2> QED BY <1>1, <2>1, EarlyStays
<1>9. OwnerInv'
  BY <1>1 DEF SettleInv, OwnerInv
<1>10. \A rec \in Recs : (Unharmed(rec)' <=> Unharmed(rec)) /\ RowsOf(rec)' = RowsOf(rec) /\ (CleanerTakes(rec)' <=> CleanerTakes(rec))
  BY <1>1 DEF Unharmed, RowsOf, VideosOf, CleanerTakes
<1>11. FileInv'
  <2>1. ASSUME NEW v \in files' \ Encoded, Unharmed(RecOf[v])'
        PROVE  v \in videoFiles' \/ (recorder'[RecOf[v]] \in {"writing", "registering"} /\ v = Recorded[RecOf[v]])
    BY <1>0, <1>1, <1>10, <2>1 DEF SettleInv, FileInv, TypeOK
  <2>2. ASSUME NEW rec \in Recs, Unharmed(rec)', recorder'[rec] \in {"writing", "registering"}
        PROVE  Recorded[rec] \in files'
    BY <1>1, <1>6, <1>10, <2>2 DEF SettleInv, FileInv
  <2>3. ASSUME NEW r \in Requests
        PROVE  /\ request'[r].step = "measured" /\ Unharmed(RecAsked(r))' => Made[r] \in files'
               /\ request'[r].step = "unlink" => request'[r].left \subseteq request'[r].plan
               /\ request'[r].step = "unlink" /\ bounds'.failures = 0
                     => (request'[r].plan \ request'[r].left) \cap files' = {}
    <3>1. ASSUME request[r].step = "measured", Made[r] \in files PROVE Made[r] \in files'
      <4>1. r \in DOMAIN Made
        BY <3>1, ContentAssumption DEF IInv, PlanInv
      <4>2. \A e \in stopped : Made[e] # Made[r]
        BY <1>3, <3>1, <4>1, ContentAssumption
      <4> QED BY <1>1, <3>1, <4>2
    <3> QED BY <1>1, <1>5, <1>10, <3>1 DEF SettleInv, FileInv
  <2> QED BY <2>1, <2>2, <2>3 DEF FileInv, RecAsked, Unharmed, VideosOf
<1>12. GuardInv'
  <2>1. ASSUME NEW v \in videoFiles' \ files', Unharmed(RecOf[v])'
        PROVE  \/ \E r \in Requests : request'[r].step = "unlink" /\ v \in request'[r].plan
               \/ cleaner'.step = "wholeRows" /\ v \in cleaner'.plan
    <3>1. v \in videoFiles \ files /\ v \in Videos
      BY <1>0, <1>1, <1>6, <2>1 DEF SettleInv, PastInv, TypeOK
    <3> QED BY <1>1, <1>4, <1>10, <2>1, <3>1 DEF SettleInv, GuardInv
  <2> QED BY <2>1 DEF GuardInv, Unharmed, VideosOf
<1>13. SweeperInv'
  BY <1>1 DEF SettleInv, SweeperInv, RowsOf, VideosOf
<1>14. LastRowInv'
  <2>1. ASSUME NEW rec \in Recs, Unharmed(rec), recorded[rec].exists
        PROVE  /\ RowsOf(rec) = {} =>
                     \/ recorder'[rec] = "registering"
                     \/ \E r \in Requests : RecAsked(r) = rec /\ request'[r].step \in AtWork /\ request'[r].act # "video"
                     \/ CleanerTakes(rec)'
               /\ \A r \in Requests : RecAsked(r) = rec /\ request'[r].step = "unlink" /\ request'[r].act = "video" =>
                     \/ RowsOf(rec) \ request'[r].plan # {}
                     \/ RowsOf(rec) = {} /\ CleanerTakes(rec)'
    BY <1>1, <1>4, <1>5, <1>10, <2>1 DEF SettleInv, LastRowInv, AtWork
  <2> QED BY <1>1, <1>10, <2>1 DEF LastRowInv, AtWork, RecAsked
<1> QED BY <1>7, <1>8, <1>9, <1>11, <1>12, <1>13, <1>14 DEF SettleInv

\* Rows and plans stay as they are, or lose what nobody needs: what is said of the last row.
LEMMA LastRowStays ==
    ASSUME IInv, SettleInv, UNCHANGED cleaner,
           \A rec \in Recs : Unharmed(rec)' => Unharmed(rec),
           \A rec \in Recs : Unharmed(rec) /\ recorded'[rec].exists =>
              \/ /\ recorded[rec].exists /\ RowsOf(rec) \subseteq RowsOf(rec)'
                 /\ \A v \in RowsOf(rec)' \ RowsOf(rec) : ~Past(v)
                 /\ RowsOf(rec)' = {} => (recorder'[rec] = "registering" <=> recorder[rec] = "registering")
              \/ recorder'[rec] = "registering" /\ Unregistered(rec),
           \A q \in Requests : {request[q].step, request'[q].step} \cap AtWork # {} => request'[q] = request[q]
    PROVE  LastRowInv'
<1> USE OwnersKnown
<1> SUFFICES ASSUME NEW rec \in Recs, Unharmed(rec)', recorded'[rec].exists
             PROVE  /\ RowsOf(rec)' = {} =>
                          \/ recorder'[rec] = "registering"
                          \/ \E q \in Requests : RecAsked(q)' = rec /\ request'[q].step \in AtWork /\ request'[q].act # "video"
                          \/ CleanerTakes(rec)'
                    /\ \A q \in Requests : RecAsked(q)' = rec /\ request'[q].step = "unlink" /\ request'[q].act = "video" =>
                          \/ RowsOf(rec)' \ request'[q].plan # {}
                          \/ RowsOf(rec)' = {} /\ CleanerTakes(rec)'
  BY DEF LastRowInv, AtWork
<1>1. Unharmed(rec) /\ (CleanerTakes(rec)' <=> CleanerTakes(rec)) /\ \A q \in Requests : RecAsked(q)' = RecAsked(q)
  BY DEF CleanerTakes, RecAsked
<1>2. CASE recorder'[rec] = "registering" /\ Unregistered(rec)
  BY <1>1, <1>2 DEF SettleInv, EarlyInv, AtWork
<1>3. CASE /\ recorded[rec].exists /\ RowsOf(rec) \subseteq RowsOf(rec)'
           /\ \A v \in RowsOf(rec)' \ RowsOf(rec) : ~Past(v)
           /\ RowsOf(rec)' = {} => (recorder'[rec] = "registering" <=> recorder[rec] = "registering")
  <2>1. ASSUME RowsOf(rec)' = {}
        PROVE  \/ recorder'[rec] = "registering"
               \/ \E q \in Requests : RecAsked(q)' = rec /\ request'[q].step \in AtWork /\ request'[q].act # "video"
               \/ CleanerTakes(rec)'
    BY <1>1, <1>3, <2>1 DEF SettleInv, LastRowInv
  <2>2. ASSUME NEW q \in Requests, RecAsked(q)' = rec, request'[q].step = "unlink", request'[q].act = "video"
        PROVE  RowsOf(rec)' \ request'[q].plan # {} \/ (RowsOf(rec)' = {} /\ CleanerTakes(rec)')
    <3>1. request'[q] = request[q] /\ RecAsked(q) = rec
      BY <1>1, <2>2 DEF AtWork
    <3>2. RowsOf(rec) \ request[q].plan # {} \/ (RowsOf(rec) = {} /\ CleanerTakes(rec))
      BY <1>1, <1>3, <2>2, <3>1 DEF SettleInv, LastRowInv
    <3>3. \A v \in request[q].plan : Past(v)
      BY <2>2, <3>1 DEF SettleInv, PastInv, AtWork
    <3> QED BY <1>1, <1>3, <3>1, <3>2, <3>3
  <2> QED BY <2>1, <2>2
<1> QED BY <1>1, <1>2, <1>3

\* An encoder begins to write a file that nobody plans to delete.
LEMMA EncoderSettles ==
    ASSUME IInv, TypeOK', SettleInv, Onwards, NEW q \in Requests, EncoderWrites(q)
    PROVE  SettleInv'
<1> USE OwnersKnown DEF history
<1>0. TypeOK
  BY DEF IInv
<1>1. /\ UNCHANGED <<recorded, videoFiles, recorder, cleaner, swept, bounds>>
      /\ files' = files \cup {Made[q]} /\ q \in DOMAIN Made /\ Asked[q] \in videoFiles
  BY ContentAssumption DEF EncoderWrites
<1>2. /\ request[q].step = "idle" /\ request'[q].step = "encoding"
      /\ \A r \in Requests : r # q => request'[r] = request[r]
  BY <1>0, GoFacts DEF EncoderWrites, Fresh
<1>3. ~Past(Made[q]) /\ Made[q] \in Encoded /\ ~Unregistered(RecAsked(q))
  BY <1>1, <1>2 DEF Past, SettleInv, PastInv, RecAsked
<1>4. \A rec \in Recs : (Unharmed(rec)' <=> Unharmed(rec)) /\ RowsOf(rec)' = RowsOf(rec)
  BY <1>1 DEF Unharmed, RowsOf, VideosOf
<1>5. PastInv'
  BY <1>0, <1>1, <1>2, PastGrows DEF SettleInv, AtWork
<1>6. EarlyInv'
  BY <1>1, <1>2, <1>3, EarlyStays
<1>7. OwnerInv'
  BY <1>1 DEF SettleInv, OwnerInv
<1>8. FileInv'
  <2>1. ASSUME NEW v \in files' \ Encoded, Unharmed(RecOf[v])'
        PROVE  v \in videoFiles' \/ (recorder'[RecOf[v]] \in {"writing", "registering"} /\ v = Recorded[RecOf[v]])
    BY <1>0, <1>1, <1>3, <1>4, <2>1 DEF SettleInv, FileInv, TypeOK
  <2>2. ASSUME NEW rec \in Recs, Unharmed(rec)', recorder'[rec] \in {"writing", "registering"}
        PROVE  Recorded[rec] \in files'
    BY <1>1, <1>4, <2>2 DEF SettleInv, FileInv
  <2>3. ASSUME NEW r \in Requests, r # q
        PROVE  /\ request'[r].step = "measured" /\ Unharmed(RecAsked(r))' => Made[r] \in files'
               /\ request'[r].step = "unlink" => request'[r].left \subseteq request'[r].plan
               /\ request'[r].step = "unlink" /\ bounds'.failures = 0
                     => (request'[r].plan \ request'[r].left) \cap files' = {}
    <3>1. request[r].step = "unlink" => Made[q] \notin request[r].plan
      BY <1>3 DEF SettleInv, PastInv, AtWork
    <3> QED BY <1>1, <1>2, <1>4, <2>3, <3>1 DEF SettleInv, FileInv
  <2> QED BY <1>2, <2>1, <2>2, <2>3 DEF FileInv, RecAsked, Unharmed, VideosOf
<1>9. GuardInv'
  <2>1. ASSUME NEW v \in videoFiles' \ files', Unharmed(RecOf[v])'
        PROVE  \/ \E r \in Requests : request'[r].step = "unlink" /\ v \in request'[r].plan
               \/ cleaner'.step = "wholeRows" /\ v \in cleaner'.plan
    <3>1. v \in videoFiles \ files /\ v \in Videos
      BY <1>0, <1>1, <2>1 DEF TypeOK
    <3> QED BY <1>1, <1>2, <1>4, <2>1, <3>1 DEF SettleInv, GuardInv
  <2> QED BY <2>1 DEF GuardInv, Unharmed, VideosOf
<1>10. SweeperInv'
  <2>1. Made[q] \notin cleaner.video /\ Made[q] \notin cleaner.plan
    BY <1>3 DEF SettleInv, PastInv
  <2> QED BY <1>1, <2>1 DEF SettleInv, SweeperInv, RowsOf, VideosOf
<1>11. LastRowInv'
  BY <1>1, <1>2, <1>4, LastRowStays DEF AtWork
<1> QED BY <1>5, <1>6, <1>7, <1>8, <1>9, <1>10, <1>11 DEF SettleInv

\* The row of an encoded file is added, and the encoder goes on to delete its source.
LEMMA InsertSettles ==
    ASSUME IInv, TypeOK', SettleInv, Onwards, NEW q \in Requests, InsertVideoFile(q)
    PROVE  SettleInv'
<1> USE OwnersKnown DEF history
<1>0. TypeOK
  BY DEF IInv
<1>1. /\ UNCHANGED <<recorded, files, recorder, cleaner, swept>> /\ request[q].step = "measured"
      /\ q \in DOMAIN Made
      /\ videoFiles' = videoFiles \/ (videoFiles' = videoFiles \cup {Made[q]} /\ recorded[RecAsked(q)].exists)
      /\ UNCHANGED bounds \/ Fails
  BY ContentAssumption DEF InsertVideoFile, IInv, PlanInv
<1>2. /\ request'[q].step \in {"video", "done"}
      /\ \A r \in Requests : r # q => request'[r] = request[r]
  BY <1>0, GoFacts DEF InsertVideoFile
<1>3. ~Past(Made[q]) /\ Made[q] \in Encoded /\ RecOf[Made[q]] = RecAsked(q) /\ Past(Made[q])'
  <2>1. ~Past(Made[q]) /\ Made[q] \in Encoded /\ RecOf[Made[q]] = RecAsked(q)
    BY <1>1 DEF Past, VideosOf
  <2>2. ~Unregistered(RecAsked(q)) /\ Unregistered(RecAsked(q))' = Unregistered(RecAsked(q))
    BY <1>1 DEF SettleInv, EarlyInv, Unregistered, RecAsked
  <2>3. \A r \in DOMAIN Made : Made[r] = Made[q] => r = q
    BY <1>1, ContentAssumption
  <2> QED BY <1>1, <1>2, <2>1, <2>2, <2>3 DEF Past, RecAsked, Unregistered
<1>4. /\ \A rec \in Recs : Unharmed(rec)' => Unharmed(rec)
      /\ bounds'.failures = 0 => bounds.failures = 0
      /\ \A rec \in Recs : RowsOf(rec) \subseteq RowsOf(rec)' /\ RowsOf(rec)' \subseteq RowsOf(rec) \cup {Made[q]}
  BY <1>0, <1>1, HarmStays DEF RowsOf, VideosOf
<1>5. PastInv'
  BY <1>0, <1>1, <1>2, <1>3, PastGrows DEF SettleInv, AtWork
<1>6. EarlyInv'
  BY <1>1, <1>2, EarlyStays DEF Waiting
<1>7. OwnerInv'
  BY <1>1, <1>3 DEF SettleInv, OwnerInv
<1>8. FileInv'
  <2>1. ASSUME NEW v \in files' \ Encoded, Unharmed(RecOf[v])'
        PROVE  v \in videoFiles' \/ (recorder'[RecOf[v]] \in {"writing", "registering"} /\ v = Recorded[RecOf[v]])
    BY <1>0, <1>1, <1>4, <2>1 DEF SettleInv, FileInv, TypeOK
  <2>2. ASSUME NEW rec \in Recs, Unharmed(rec)', recorder'[rec] \in {"writing", "registering"}
        PROVE  Recorded[rec] \in files'
    BY <1>1, <1>4, <2>2 DEF SettleInv, FileInv
  <2>3. ASSUME NEW r \in Requests
        PROVE  /\ request'[r].step = "measured" /\ Unharmed(RecAsked(r))' => Made[r] \in files'
               /\ request'[r].step = "unlink" => request'[r].left \subseteq request'[r].plan
               /\ request'[r].step = "unlink" /\ bounds'.failures = 0
                     => (request'[r].plan \ request'[r].left) \cap files' = {}
    BY <1>1, <1>2, <1>4 DEF SettleInv, FileInv
  <2> QED BY <2>1, <2>2, <2>3 DEF FileInv, RecAsked, Unharmed, VideosOf
<1>9. GuardInv'
  <2>1. ASSUME NEW v \in videoFiles' \ files', Unharmed(RecOf[v])'
        PROVE  \/ \E r \in Requests : request'[r].step = "unlink" /\ v \in request'[r].plan
               \/ cleaner'.step = "wholeRows" /\ v \in cleaner'.plan
    <3>0. v \in Videos /\ Unharmed(RecOf[v]) /\ (v = Made[q] => Unharmed(RecAsked(q)))
      BY <1>1, <1>3, <1>4, <2>1 DEF TypeOK
    <3>1. v \in videoFiles \ files
      BY <1>1, <2>1, <3>0 DEF SettleInv, FileInv
    <3> QED BY <1>1, <1>2, <3>0, <3>1 DEF SettleInv, GuardInv
  <2> QED BY <2>1 DEF GuardInv, Unharmed, VideosOf
<1>10. SweeperInv'
  <2>1. ASSUME NEW v \in cleaner.video PROVE RowsOf(RecOf[v])' \subseteq RowsOf(RecOf[v]) \cup Encoded
    BY <1>1, <1>3 DEF RowsOf, VideosOf
  <2> QED BY <1>1, <2>1 DEF SettleInv, SweeperInv, VideosOf
<1>11. LastRowInv'
  BY <1>1, <1>2, <1>3, <1>4, LastRowStays DEF AtWork
<1> QED BY <1>5, <1>6, <1>7, <1>8, <1>9, <1>10, <1>11 DEF SettleInv

\* The recorder opens its file, and registers the recording and the file.
LEMMA RecorderSettles ==
    ASSUME IInv, TypeOK', SettleInv, Onwards, NEW rec \in Recs,
           RecorderOpens(rec) \/ RegisterRecorded(rec) \/ RegisterVideoFile(rec)
    PROVE  SettleInv'
<1> USE OwnersKnown DEF history
<1> DEFINE file == Recorded[rec]
<1>0. TypeOK
  BY DEF IInv
<1>1. /\ UNCHANGED <<request, cleaner, swept, bounds>> /\ Unregistered(rec)
      /\ \A other \in Recs : other # rec => recorder'[other] = recorder[other] /\ recorded'[other] = recorded[other]
      /\ \/ /\ recorder[rec] = "none" /\ recorder'[rec] = "writing" /\ files' = files \cup {file}
            /\ UNCHANGED <<recorded, videoFiles>>
         \/ /\ recorder[rec] = "writing" /\ recorder'[rec] = "registering" /\ UNCHANGED <<files, videoFiles>>
            /\ recorded'[rec].exists /\ recorded'[rec].isRecording
         \/ /\ recorder[rec] = "registering" /\ recorder'[rec] = "recording"
            /\ videoFiles' = videoFiles \cup {file} /\ UNCHANGED <<files, recorded>>
  <2>1. CASE RecorderOpens(rec)
    BY <1>0, <2>1 DEF TypeOK, RecorderOpens, Unregistered
  <2>2. CASE RegisterRecorded(rec)
    BY <1>0, <2>2 DEF TypeOK, RegisterRecorded, Unregistered
  <2>3. CASE RegisterVideoFile(rec)
    BY <1>0, <2>3 DEF TypeOK, RegisterVideoFile, Unregistered
  <2> QED BY <2>1, <2>2, <2>3
<1>2. /\ RowsOf(rec) = {} /\ file \in Videos \ Encoded /\ RecOf[file] = rec /\ ~Past(file)
      /\ recorder[rec] = "registering" => recorded[rec].exists
  BY <1>1 DEF SettleInv, EarlyInv, PastInv, Past, RowsOf, VideosOf
<1>3. \A v \in Videos : Past(v) => RecOf[v] # rec /\ v # file
  BY <1>1, <1>2 DEF Past
<1>4. /\ \A other \in Recs : (Unharmed(other)' <=> Unharmed(other)) /\ RowsOf(other) \subseteq RowsOf(other)'
      /\ \A other \in Recs : other # rec => RowsOf(other)' = RowsOf(other)
      /\ RowsOf(rec)' \subseteq {file} /\ (recorder'[rec] = "recording" => RowsOf(rec)' = {file})
      /\ recorder'[rec] # "recording" => RowsOf(rec)' = {}
  BY <1>1, <1>2 DEF Unharmed, RowsOf, VideosOf
<1>5. recorder'[rec] = "recording" => Past(file)'
  <2>1. ASSUME NEW q \in DOMAIN Made PROVE Made[q] # file
    BY <1>2, <2>1
  <2> QED BY <1>2, <2>1 DEF Past, Unregistered
<1>6. PastInv'
  BY <1>0, <1>1, <1>5, PastGrows DEF SettleInv, AtWork
<1>7. EarlyInv'
  <2>1. ASSUME NEW other \in Recs
        PROVE  /\ recorder'[other] = "registering" => recorded'[other].exists /\ recorded'[other].isRecording
               /\ \A q \in Requests : RecAsked(q) = other =>
                     /\ Unregistered(other)' => request'[q].step \in Waiting
                     /\ request'[q].step = "stopping" => recorder'[other] \notin {"none", "writing"}
    <3>1. CASE other = rec
      BY <1>1, <3>1 DEF SettleInv, EarlyInv, Waiting
    <3>2. CASE other # rec
      BY <1>1, <3>2 DEF SettleInv, EarlyInv, Unregistered, Waiting
    <3> QED BY <3>1, <3>2
  <2> QED BY <2>1 DEF EarlyInv, Waiting, RecAsked, Unregistered
<1>8. OwnerInv'
  BY <1>0, <1>1, <1>2, <1>3 DEF SettleInv, PastInv, OwnerInv, TypeOK
<1>9. FileInv'
  <2>1. ASSUME NEW v \in files' \ Encoded, Unharmed(RecOf[v])'
        PROVE  v \in videoFiles' \/ (recorder'[RecOf[v]] \in {"writing", "registering"} /\ v = Recorded[RecOf[v]])
    <3>1. v \in Videos /\ (v \in files \/ (v = file /\ recorder'[rec] = "writing"))
      BY <1>0, <1>1, <1>2, <2>1 DEF TypeOK
    <3>2. CASE RecOf[v] # rec
      BY <1>1, <1>2, <1>4, <2>1, <3>1, <3>2 DEF SettleInv, FileInv
    <3>3. CASE RecOf[v] = rec
      <4>1. CASE recorder[rec] = "registering"
        <5>1. v \in files /\ v \notin videoFiles
          BY <1>1, <1>2, <3>1, <3>3, <4>1 DEF RowsOf, VideosOf
        <5> QED BY <1>1, <1>4, <2>1, <3>1, <3>3, <4>1, <5>1 DEF SettleInv, FileInv
      <4>2. CASE recorder[rec] # "registering"
        BY <1>1, <1>2, <1>4, <2>1, <3>1, <3>3, <4>2 DEF SettleInv, FileInv, RowsOf, VideosOf
      <4> QED BY <4>1, <4>2
    <3> QED BY <3>2, <3>3
  <2>2. ASSUME NEW other \in Recs, Unharmed(other)', recorder'[other] \in {"writing", "registering"}
        PROVE  Recorded[other] \in files'
    BY <1>1, <1>4, <2>2 DEF SettleInv, FileInv
  <2>3. ASSUME NEW q \in Requests
        PROVE  /\ request'[q].step = "measured" /\ Unharmed(RecAsked(q))' => Made[q] \in files'
               /\ request'[q].step = "unlink" => request'[q].left \subseteq request'[q].plan
               /\ request'[q].step = "unlink" /\ bounds'.failures = 0
                     => (request'[q].plan \ request'[q].left) \cap files' = {}
    <3>1. request[q].step = "unlink" => file \notin request[q].plan
      BY <1>2 DEF SettleInv, PastInv, AtWork
    <3> QED BY <1>1, <1>4, <3>1 DEF SettleInv, FileInv
  <2> QED BY <2>1, <2>2, <2>3 DEF FileInv, RecAsked, Unharmed, VideosOf
<1>10. GuardInv'
  <2>1. ASSUME NEW v \in videoFiles' \ files', Unharmed(RecOf[v])'
        PROVE  \/ \E q \in Requests : request'[q].step = "unlink" /\ v \in request'[q].plan
               \/ cleaner'.step = "wholeRows" /\ v \in cleaner'.plan
    <3>1. v \in Videos /\ Unharmed(RecOf[v])
      BY <1>0, <1>1, <1>2, <1>4, <2>1 DEF TypeOK
    <3>2. v \in videoFiles \ files
      BY <1>1, <1>2, <2>1, <3>1 DEF SettleInv, FileInv
    <3> QED BY <1>1, <3>1, <3>2 DEF SettleInv, GuardInv
  <2> QED BY <2>1 DEF GuardInv, Unharmed, VideosOf
<1>11. SweeperInv'
  <2>1. ASSUME NEW v \in cleaner.video PROVE RecOf[v] # rec /\ v # file /\ RowsOf(RecOf[v])' = RowsOf(RecOf[v])
    <3>1. v \in Videos /\ Past(v)
      BY <1>0, <2>1 DEF SettleInv, PastInv, TypeOK, CleanerStates
    <3> QED BY <1>3, <1>4, <3>1
  <2>2. file \notin cleaner.plan
    BY <1>2 DEF SettleInv, PastInv
  <2> QED BY <1>1, <2>1, <2>2 DEF SettleInv, SweeperInv, VideosOf
<1>12. LastRowInv'
  <2>1. ASSUME NEW other \in Recs, recorded'[other].exists
        PROVE  \/ /\ recorded[other].exists /\ RowsOf(other) \subseteq RowsOf(other)'
                  /\ \A v \in RowsOf(other)' \ RowsOf(other) : ~Past(v)
                  /\ RowsOf(other)' = {} => (recorder'[other] = "registering" <=> recorder[other] = "registering")
               \/ recorder'[other] = "registering" /\ Unregistered(other)
    <3>1. CASE other # rec
      BY <1>1, <1>4, <2>1, <3>1
    <3>2. CASE other = rec
      BY <1>1, <1>2, <1>4, <2>1, <3>2
    <3> QED BY <3>1, <3>2
  <2> QED BY <1>1, <1>4, <2>1, LastRowStays DEF AtWork
<1> QED BY <1>6, <1>7, <1>8, <1>9, <1>10, <1>11, <1>12 DEF SettleInv

\* A recorder that is stopped while it registers takes everything back.
LEMMA StopSettles ==
    ASSUME IInv, TypeOK', SettleInv, Onwards, NEW q \in Requests,
           StopActiveRecording(q), recorder[RecAsked(q)] = "registering"
    PROVE  SettleInv'
<1> USE OwnersKnown DEF history
<1> DEFINE rec == RecAsked(q)
           file == Recorded[rec]
<1>0. TypeOK
  BY DEF IInv
<1>1. /\ UNCHANGED <<videoFiles, cleaner, swept, bounds>> /\ Unregistered(rec) /\ recorder'[rec] = "stopped"
      /\ \A other \in Recs : other # rec => recorder'[other] = recorder[other] /\ recorded'[other] = recorded[other]
      /\ files' = files \ {file} /\ ~recorded'[rec].exists
  BY <1>0, StopFacts DEF StopActiveRecording, Unregistered
<1>2. /\ request[q].step = "stopping" /\ request'[q].step = "queued"
      /\ \A r \in Requests : r # q => request'[r] = request[r]
  BY <1>0, EnqueueFacts DEF StopActiveRecording
<1>3. /\ RowsOf(rec) = {} /\ file \in Videos \ Encoded /\ RecOf[file] = rec /\ ~Past(file)
  BY <1>1 DEF SettleInv, PastInv, Past, RowsOf, VideosOf
<1>4. \A other \in Recs : (Unharmed(other)' <=> Unharmed(other)) /\ RowsOf(other)' = RowsOf(other)
  BY <1>1 DEF Unharmed, RowsOf, VideosOf
<1>5. PastInv'
  BY <1>0, <1>1, <1>2, PastGrows DEF SettleInv, AtWork
<1>6. EarlyInv'
  <2>1. ASSUME NEW other \in Recs
        PROVE  /\ recorder'[other] = "registering" => recorded'[other].exists /\ recorded'[other].isRecording
               /\ \A r \in Requests : RecAsked(r) = other =>
                     /\ Unregistered(other)' => request'[r].step \in Waiting
                     /\ request'[r].step = "stopping" => recorder'[other] \notin {"none", "writing"}
    <3>1. CASE other = rec
      BY <1>1, <3>1 DEF Unregistered
    <3>2. CASE other # rec
      BY <1>1, <1>2, <3>2 DEF SettleInv, EarlyInv, Unregistered, Waiting
    <3> QED BY <3>1, <3>2
  <2> QED BY <2>1 DEF EarlyInv, Waiting, RecAsked, Unregistered
<1>7. OwnerInv'
  BY <1>0, <1>1, <1>3 DEF SettleInv, OwnerInv, TypeOK, RowsOf, VideosOf
<1>8. FileInv'
  <2>1. ASSUME NEW v \in files' \ Encoded, Unharmed(RecOf[v])'
        PROVE  v \in videoFiles' \/ (recorder'[RecOf[v]] \in {"writing", "registering"} /\ v = Recorded[RecOf[v]])
    <3>1. v \in Videos /\ v \in files /\ v # file /\ Unharmed(RecOf[v])
      BY <1>0, <1>1, <1>4, <2>1 DEF TypeOK
    <3>2. CASE RecOf[v] # rec
      BY <1>1, <2>1, <3>1, <3>2 DEF SettleInv, FileInv
    <3>3. CASE RecOf[v] = rec
      BY <1>1, <2>1, <3>1, <3>3 DEF SettleInv, FileInv
    <3> QED BY <3>2, <3>3
  <2>2. ASSUME NEW other \in Recs, Unharmed(other)', recorder'[other] \in {"writing", "registering"}
        PROVE  Recorded[other] \in files'
    <3>1. other # rec /\ RecOf[Recorded[other]] = other
      BY <1>1, <2>2
    <3> QED BY <1>1, <1>4, <2>2, <3>1 DEF SettleInv, FileInv
  <2>3. ASSUME NEW r \in Requests
        PROVE  /\ request'[r].step = "measured" /\ Unharmed(RecAsked(r))' => Made[r] \in files'
               /\ request'[r].step = "unlink" => request'[r].left \subseteq request'[r].plan
               /\ request'[r].step = "unlink" /\ bounds'.failures = 0
                     => (request'[r].plan \ request'[r].left) \cap files' = {}
    <3>1. request[r].step = "measured" => r \in DOMAIN Made
      BY ContentAssumption DEF IInv, PlanInv
    <3>2. request[r].step = "measured" => Made[r] # file
      BY <1>3, <3>1
    <3> QED BY <1>1, <1>2, <1>4, <3>2 DEF SettleInv, FileInv
  <2> QED BY <2>1, <2>2, <2>3 DEF FileInv, RecAsked, Unharmed, VideosOf
<1>9. GuardInv'
  <2>1. ASSUME NEW v \in videoFiles' \ files', Unharmed(RecOf[v])'
        PROVE  \/ \E r \in Requests : request'[r].step = "unlink" /\ v \in request'[r].plan
               \/ cleaner'.step = "wholeRows" /\ v \in cleaner'.plan
    <3>1. v \in Videos /\ Unharmed(RecOf[v]) /\ v \in videoFiles \ files
      BY <1>0, <1>1, <1>3, <1>4, <2>1 DEF TypeOK, RowsOf, VideosOf
    <3> QED BY <1>1, <1>2, <3>1 DEF SettleInv, GuardInv
  <2> QED BY <2>1 DEF GuardInv, Unharmed, VideosOf
<1>10. SweeperInv'
  BY <1>1 DEF SettleInv, SweeperInv, RowsOf, VideosOf
<1>11. LastRowInv'
  <2>1. ASSUME NEW other \in Recs, recorded'[other].exists
        PROVE  /\ recorded[other].exists /\ RowsOf(other) \subseteq RowsOf(other)'
               /\ \A v \in RowsOf(other)' \ RowsOf(other) : ~Past(v)
               /\ RowsOf(other)' = {} => (recorder'[other] = "registering" <=> recorder[other] = "registering")
    BY <1>1, <1>4, <2>1
  <2> QED BY <1>1, <1>2, <1>4, <2>1, LastRowStays DEF AtWork
<1> QED BY <1>5, <1>6, <1>7, <1>8, <1>9, <1>10, <1>11 DEF SettleInv

\* A file of a plan is removed, or passed over after a failure.
LEMMA UnlinkSettles ==
    ASSUME IInv, TypeOK', SettleInv, Onwards, NEW q \in Requests, NEW u \in Videos, Unlink(q, u)
    PROVE  SettleInv'
<1> USE OwnersKnown DEF history
<1>0. TypeOK
  BY DEF IInv
<1>1. /\ UNCHANGED <<recorded, videoFiles, recorder, cleaner, swept>>
      /\ request[q].step = "unlink" /\ u \in request[q].left
      /\ files' = files \/ files' = files \ {u}
      /\ UNCHANGED bounds \/ Fails
  BY DEF Unlink
<1>2. /\ \A r \in Requests : r # q => request'[r] = request[r]
      /\ \/ request'[q].step = "done" /\ Fails
         \/ /\ request'[q].step = "unlink" /\ request'[q].plan = request[q].plan
            /\ request'[q].act = request[q].act /\ request'[q].left = request[q].left \ {u}
            /\ files' = files \ {u} \/ Fails
  <2>1. CASE request' = [request EXCEPT ![q].left = @ \ {u}]
    <3>1. files' = files \ {u} \/ Fails
      BY <2>1 DEF Unlink
    <3> QED BY <1>0, <1>1, <2>1, <3>1 DEF TypeOK, RequestStates
  <2>2. CASE Go(q, "done") /\ Fails
    BY <1>0, <2>2, GoFacts
  <2> QED BY <2>1, <2>2 DEF Unlink
<1>3. /\ \A rec \in Recs : Unharmed(rec)' => Unharmed(rec)
      /\ bounds'.failures = 0 => bounds.failures = 0 /\ ~Fails
      /\ \A rec \in Recs : Unharmed(rec)' => bounds'.failures = 0
      /\ \A rec \in Recs : RowsOf(rec)' = RowsOf(rec)
  BY <1>0, <1>1, HarmStays DEF RowsOf, VideosOf, Unharmed
<1>4. u \in request[q].plan /\ Past(u)
  BY <1>1 DEF SettleInv, FileInv, PastInv, AtWork
<1>5. PastInv'
  BY <1>0, <1>1, <1>2, PastGrows DEF SettleInv, AtWork
<1>6. EarlyInv'
  <2>1. \A r \in Requests : request'[r].step = request[r].step \/ request'[r].step = "done"
    BY <1>1, <1>2
  <2> QED BY <1>1, <2>1, EarlyStays DEF Waiting
<1>7. OwnerInv'
  BY <1>1 DEF SettleInv, OwnerInv
<1>8. FileInv'
  <2>1. ASSUME NEW v \in files' \ Encoded, Unharmed(RecOf[v])'
        PROVE  v \in videoFiles' \/ (recorder'[RecOf[v]] \in {"writing", "registering"} /\ v = Recorded[RecOf[v]])
    BY <1>0, <1>1, <1>3, <2>1 DEF SettleInv, FileInv, TypeOK
  <2>2. ASSUME NEW rec \in Recs, Unharmed(rec)', recorder'[rec] \in {"writing", "registering"}
        PROVE  Recorded[rec] \in files'
    <3>1. u # Recorded[rec]
      BY <1>1, <1>4, <2>2 DEF Past, Unregistered
    <3> QED BY <1>1, <1>3, <2>2, <3>1 DEF SettleInv, FileInv
  <2>3. ASSUME NEW r \in Requests
        PROVE  /\ request'[r].step = "measured" /\ Unharmed(RecAsked(r))' => Made[r] \in files'
               /\ request'[r].step = "unlink" => request'[r].left \subseteq request'[r].plan
               /\ request'[r].step = "unlink" /\ bounds'.failures = 0
                     => (request'[r].plan \ request'[r].left) \cap files' = {}
    <3>1. CASE r = q
      BY <1>1, <1>2, <1>3, <3>1 DEF SettleInv, FileInv
    <3>2. CASE r # q
      <4>1. request[r].step = "measured" => r \in DOMAIN Made
        BY ContentAssumption DEF IInv, PlanInv
      <4>2. request[r].step = "measured" => Made[r] # u
        BY <1>4, <4>1 DEF Past
      <4> QED BY <1>1, <1>2, <1>3, <3>2, <4>2 DEF SettleInv, FileInv
    <3> QED BY <3>1, <3>2
  <2> QED BY <2>1, <2>2, <2>3 DEF FileInv, RecAsked, Unharmed, VideosOf
<1>9. GuardInv'
  <2>1. ASSUME NEW v \in videoFiles' \ files', Unharmed(RecOf[v])'
        PROVE  \/ \E r \in Requests : request'[r].step = "unlink" /\ v \in request'[r].plan
               \/ cleaner'.step = "wholeRows" /\ v \in cleaner'.plan
    <3>1. v \in Videos /\ RecOf[v] \in Recs /\ v \in videoFiles
      BY <1>0, <1>1, <2>1 DEF TypeOK
    <3>2. Unharmed(RecOf[v]) /\ bounds'.failures = 0
      BY <1>3, <2>1, <3>1
    <3>3. request'[q].step = "unlink" /\ request'[q].plan = request[q].plan
      BY <1>2, <1>3, <3>2
    <3>4. CASE v = u
      BY <1>4, <3>3, <3>4
    <3>5. CASE v # u
      <4>1. v \notin files
        BY <1>1, <2>1, <3>5
      <4> QED BY <1>1, <1>2, <3>1, <3>2, <3>3, <4>1 DEF SettleInv, GuardInv
    <3> QED BY <3>4, <3>5
  <2> QED BY <2>1 DEF GuardInv, Unharmed, VideosOf
<1>10. SweeperInv'
  BY <1>1 DEF SettleInv, SweeperInv, RowsOf, VideosOf
<1>11. LastRowInv'
  <2> SUFFICES ASSUME NEW rec \in Recs, Unharmed(rec)', recorded'[rec].exists
               PROVE  /\ RowsOf(rec)' = {} =>
                            \/ recorder'[rec] = "registering"
                            \/ \E r \in Requests : RecAsked(r)' = rec /\ request'[r].step \in AtWork /\ request'[r].act # "video"
                            \/ CleanerTakes(rec)'
                      /\ \A r \in Requests : RecAsked(r)' = rec /\ request'[r].step = "unlink" /\ request'[r].act = "video" =>
                            \/ RowsOf(rec)' \ request'[r].plan # {}
                            \/ RowsOf(rec)' = {} /\ CleanerTakes(rec)'
    BY DEF LastRowInv, AtWork
  <2>1. /\ Unharmed(rec) /\ (CleanerTakes(rec)' <=> CleanerTakes(rec)) /\ \A r \in Requests : RecAsked(r)' = RecAsked(r)
        /\ recorded[rec].exists
    BY <1>1, <1>3 DEF CleanerTakes, RecAsked
  <2>2. \A r \in Requests : /\ request'[r].step = request[r].step /\ request'[r].plan = request[r].plan
                            /\ request'[r].act = request[r].act
    BY <1>1, <1>2, <1>3
  <2> QED BY <1>1, <1>3, <2>1, <2>2 DEF SettleInv, LastRowInv, AtWork
<1> QED BY <1>5, <1>6, <1>7, <1>8, <1>9, <1>10, <1>11 DEF SettleInv

\* The rows of a plan are deleted; the deletion of one file ends with it, that of a recording
\* goes on to its row.
LEMMA DeleteRowsSettles ==
    ASSUME IInv, TypeOK', SettleInv, Onwards, NEW q \in Requests, DeleteVideoRows(q)
    PROVE  SettleInv'
<1> USE OwnersKnown DEF history
<1> DEFINE mine == RecAsked(q)
<1>0. TypeOK
  BY DEF IInv
<1>1. /\ UNCHANGED <<recorded, files, recorder, cleaner, swept>>
      /\ request[q].step = "unlink" /\ request[q].left = {} /\ request[q].plan \subseteq VideosOf(mine)
      /\ \/ videoFiles' = videoFiles \ request[q].plan /\ UNCHANGED bounds
         \/ videoFiles' = videoFiles /\ Fails
      /\ UNCHANGED bounds \/ Fails
  BY DEF DeleteVideoRows, IInv, PlanInv
<1>2. /\ \A r \in Requests : r # q => request'[r] = request[r]
      /\ request'[q].step = IF request[q].act = "video" THEN "done" ELSE "canonical"
      /\ request'[q].plan = request[q].plan /\ request'[q].act = request[q].act
  BY <1>0, GoFacts DEF DeleteVideoRows
<1>3. /\ \A rec \in Recs : Unharmed(rec)' => Unharmed(rec)
      /\ bounds'.failures = 0 => bounds.failures = 0 /\ ~Fails
      /\ \A rec \in Recs : Unharmed(rec)' => bounds'.failures = 0
      /\ \A rec \in Recs : RowsOf(rec)' \subseteq RowsOf(rec) /\ (rec # mine => RowsOf(rec)' = RowsOf(rec))
  BY <1>0, <1>1, HarmStays DEF RowsOf, VideosOf, Unharmed
<1>4. \A r \in Requests : request[r].step = "unlink" /\ RecAsked(r) = mine => r = q
  BY <1>1 DEF IInv, LockInv, MyTurn
<1>5. PastInv'
  BY <1>0, <1>1, <1>2, PastGrows DEF SettleInv, AtWork
<1>6. EarlyInv'
  <2>1. ~Unregistered(mine)
    BY <1>1 DEF SettleInv, EarlyInv
  <2>2. \A r \in Requests : \/ request'[r].step = request[r].step
                            \/ ~Unregistered(RecAsked(r)) /\ request'[r].step # "stopping"
    BY <1>2, <2>1
  <2> QED BY <1>1, <2>2, EarlyStays
<1>7. OwnerInv'
  BY <1>1 DEF SettleInv, OwnerInv
<1>8. FileInv'
  <2>1. ASSUME NEW v \in files' \ Encoded, Unharmed(RecOf[v])'
        PROVE  v \in videoFiles' \/ (recorder'[RecOf[v]] \in {"writing", "registering"} /\ v = Recorded[RecOf[v]])
    <3>1. v \in Videos /\ Unharmed(RecOf[v]) /\ bounds'.failures = 0 /\ v \in files
      BY <1>0, <1>1, <1>3, <2>1 DEF TypeOK
    <3>2. v \notin request[q].plan
      BY <1>1, <1>3, <3>1 DEF SettleInv, FileInv
    <3> QED BY <1>1, <2>1, <3>1, <3>2 DEF SettleInv, FileInv
  <2>2. ASSUME NEW rec \in Recs, Unharmed(rec)', recorder'[rec] \in {"writing", "registering"}
        PROVE  Recorded[rec] \in files'
    BY <1>1, <1>3, <2>2 DEF SettleInv, FileInv
  <2>3. ASSUME NEW r \in Requests
        PROVE  /\ request'[r].step = "measured" /\ Unharmed(RecAsked(r))' => Made[r] \in files'
               /\ request'[r].step = "unlink" => request'[r].left \subseteq request'[r].plan
               /\ request'[r].step = "unlink" /\ bounds'.failures = 0
                     => (request'[r].plan \ request'[r].left) \cap files' = {}
    BY <1>1, <1>2, <1>3 DEF SettleInv, FileInv
  <2> QED BY <2>1, <2>2, <2>3 DEF FileInv, RecAsked, Unharmed, VideosOf
<1>9. GuardInv'
  <2>1. ASSUME NEW v \in videoFiles' \ files', Unharmed(RecOf[v])'
        PROVE  \/ \E r \in Requests : request'[r].step = "unlink" /\ v \in request'[r].plan
               \/ cleaner'.step = "wholeRows" /\ v \in cleaner'.plan
    <3>1. v \in Videos /\ Unharmed(RecOf[v]) /\ bounds'.failures = 0 /\ v \in videoFiles \ files
      BY <1>0, <1>1, <1>3, <2>1 DEF TypeOK
    <3>2. v \notin request[q].plan
      BY <1>1, <1>3, <2>1, <3>1
    <3> QED BY <1>1, <1>2, <3>1, <3>2 DEF SettleInv, GuardInv
  <2> QED BY <2>1 DEF GuardInv, Unharmed, VideosOf
<1>10. SweeperInv'
  BY <1>1 DEF SettleInv, SweeperInv, RowsOf, VideosOf
<1>11. LastRowInv'
  <2> SUFFICES ASSUME NEW rec \in Recs, Unharmed(rec)', recorded'[rec].exists
               PROVE  /\ RowsOf(rec)' = {} =>
                            \/ recorder'[rec] = "registering"
                            \/ \E r \in Requests : RecAsked(r)' = rec /\ request'[r].step \in AtWork /\ request'[r].act # "video"
                            \/ CleanerTakes(rec)'
                      /\ \A r \in Requests : RecAsked(r)' = rec /\ request'[r].step = "unlink" /\ request'[r].act = "video" =>
                            \/ RowsOf(rec)' \ request'[r].plan # {}
                            \/ RowsOf(rec)' = {} /\ CleanerTakes(rec)'
    BY DEF LastRowInv, AtWork
  <2>1. /\ Unharmed(rec) /\ (CleanerTakes(rec)' <=> CleanerTakes(rec)) /\ \A r \in Requests : RecAsked(r)' = RecAsked(r)
        /\ recorded[rec].exists /\ videoFiles' = videoFiles \ request[q].plan
    BY <1>1, <1>3 DEF CleanerTakes, RecAsked
  <2>2. CASE rec = mine
    <3>1. RowsOf(rec)' = RowsOf(rec) \ request[q].plan
      BY <2>1 DEF RowsOf, VideosOf
    <3>2. CASE request[q].act = "video"
      <4>1. RowsOf(rec)' # {} \/ (RowsOf(rec)' = {} /\ CleanerTakes(rec))
        BY <1>1, <2>1, <2>2, <3>1, <3>2 DEF SettleInv, LastRowInv
      <4>2. \A r \in Requests : RecAsked(r) = rec => request'[r].step # "unlink"
        BY <1>2, <1>4, <2>2, <3>2
      <4> QED BY <2>1, <4>1, <4>2
    <3>3. CASE request[q].act # "video"
      <4>1. request'[q].step = "canonical" /\ request'[q].act # "video"
        BY <1>2, <3>3
      <4>2. \A r \in Requests : RecAsked(r) = rec => request'[r].step # "unlink"
        BY <1>2, <1>4, <2>2, <4>1
      <4> QED BY <2>1, <2>2, <4>1, <4>2 DEF AtWork
    <3> QED BY <3>2, <3>3
  <2>3. CASE rec # mine
    <3>1. RowsOf(rec)' = RowsOf(rec) /\ \A r \in Requests : RecAsked(r) = rec => request'[r] = request[r]
      BY <1>2, <1>3, <2>3
    <3> QED BY <1>1, <2>1, <3>1 DEF SettleInv, LastRowInv, AtWork
  <2> QED BY <2>2, <2>3
<1> QED BY <1>5, <1>6, <1>7, <1>8, <1>9, <1>10, <1>11 DEF SettleInv

\* The row of a recording is deleted when it has no files any more; the deletion ends.
LEMMA DeleteRecordedSettles ==
    ASSUME IInv, TypeOK', SettleInv, Onwards, NEW q \in Requests, DeleteRecorded(q)
    PROVE  SettleInv'
<1> USE OwnersKnown DEF history
<1> DEFINE mine == RecAsked(q)
<1>0. TypeOK
  BY DEF IInv
<1>1. /\ UNCHANGED <<videoFiles, files, recorder, cleaner, swept>> /\ request[q].step = "canonical"
      /\ \A rec \in Recs : rec # mine => recorded'[rec] = recorded[rec]
      /\ \/ RowsOf(mine) = {} /\ ~recorded'[mine].exists
         \/ recorded'[mine] = recorded[mine] /\ (RowsOf(mine) # {} \/ Fails)
      /\ UNCHANGED bounds \/ Fails
  <2>1. \/ RowsOf(mine) = {} /\ recorded' = [recorded EXCEPT ![mine] = Absent]
        \/ recorded' = recorded /\ (RowsOf(mine) # {} \/ Fails)
    BY DEF DeleteRecorded
  <2>2. ~Absent.exists
    BY DEF Absent
  <2>3. /\ \A rec \in Recs : rec # mine => recorded'[rec] = recorded[rec]
        /\ \/ RowsOf(mine) = {} /\ ~recorded'[mine].exists
           \/ recorded'[mine] = recorded[mine] /\ (RowsOf(mine) # {} \/ Fails)
    BY <1>0, <2>1, <2>2 DEF TypeOK
  <2> QED BY <2>3 DEF DeleteRecorded
<1>2. /\ \A r \in Requests : r # q => request'[r] = request[r]
      /\ request'[q].step = "done"
  BY <1>0, GoFacts DEF DeleteRecorded
<1>3. /\ \A rec \in Recs : Unharmed(rec)' => Unharmed(rec)
      /\ bounds'.failures = 0 => bounds.failures = 0 /\ ~Fails
      /\ \A rec \in Recs : Unharmed(rec)' => bounds'.failures = 0
      /\ \A rec \in Recs : RowsOf(rec)' = RowsOf(rec)
  BY <1>0, <1>1, HarmStays DEF RowsOf, VideosOf, Unharmed
<1>4. \A r \in Requests : request[r].step = "unlink" /\ RecAsked(r) = mine => r = q
  BY <1>1 DEF IInv, LockInv, MyTurn
<1>5. PastInv'
  BY <1>0, <1>1, <1>2, PastGrows DEF SettleInv, AtWork
<1>6. EarlyInv'
  <2>1. ~Unregistered(mine)
    BY <1>1 DEF SettleInv, EarlyInv
  <2>2. \A rec \in Recs : recorder'[rec] = "registering" => recorded'[rec] = recorded[rec]
    BY <1>1, <2>1 DEF Unregistered
  <2> QED BY <1>1, <1>2, <2>2, EarlyStays DEF Waiting
<1>7. OwnerInv'
  <2>1. ASSUME NEW v \in videoFiles PROVE recorded'[RecOf[v]].exists
    <3>1. v \in RowsOf(RecOf[v]) /\ RecOf[v] \in Recs /\ recorded[RecOf[v]].exists
      BY <1>0 DEF TypeOK, RowsOf, VideosOf, SettleInv, OwnerInv
    <3> QED BY <1>1, <3>1
  <2> QED BY <1>1, <2>1 DEF OwnerInv
<1>8. FileInv'
  <2>1. ASSUME NEW v \in files' \ Encoded, Unharmed(RecOf[v])'
        PROVE  v \in videoFiles' \/ (recorder'[RecOf[v]] \in {"writing", "registering"} /\ v = Recorded[RecOf[v]])
    BY <1>0, <1>1, <1>3, <2>1 DEF SettleInv, FileInv, TypeOK
  <2>2. ASSUME NEW rec \in Recs, Unharmed(rec)', recorder'[rec] \in {"writing", "registering"}
        PROVE  Recorded[rec] \in files'
    BY <1>1, <1>3, <2>2 DEF SettleInv, FileInv
  <2>3. ASSUME NEW r \in Requests
        PROVE  /\ request'[r].step = "measured" /\ Unharmed(RecAsked(r))' => Made[r] \in files'
               /\ request'[r].step = "unlink" => request'[r].left \subseteq request'[r].plan
               /\ request'[r].step = "unlink" /\ bounds'.failures = 0
                     => (request'[r].plan \ request'[r].left) \cap files' = {}
    BY <1>1, <1>2, <1>3 DEF SettleInv, FileInv
  <2> QED BY <2>1, <2>2, <2>3 DEF FileInv, RecAsked, Unharmed, VideosOf
<1>9. GuardInv'
  <2>1. ASSUME NEW v \in videoFiles' \ files', Unharmed(RecOf[v])'
        PROVE  \/ \E r \in Requests : request'[r].step = "unlink" /\ v \in request'[r].plan
               \/ cleaner'.step = "wholeRows" /\ v \in cleaner'.plan
    <3>1. v \in Videos /\ Unharmed(RecOf[v]) /\ v \in videoFiles \ files
      BY <1>0, <1>1, <1>3, <2>1 DEF TypeOK
    <3> QED BY <1>1, <1>2, <3>1 DEF SettleInv, GuardInv
  <2> QED BY <2>1 DEF GuardInv, Unharmed, VideosOf
<1>10. SweeperInv'
  BY <1>1 DEF SettleInv, SweeperInv, RowsOf, VideosOf
<1>11. LastRowInv'
  <2> SUFFICES ASSUME NEW rec \in Recs, Unharmed(rec)', recorded'[rec].exists
               PROVE  /\ RowsOf(rec)' = {} =>
                            \/ recorder'[rec] = "registering"
                            \/ \E r \in Requests : RecAsked(r)' = rec /\ request'[r].step \in AtWork /\ request'[r].act # "video"
                            \/ CleanerTakes(rec)'
                      /\ \A r \in Requests : RecAsked(r)' = rec /\ request'[r].step = "unlink" /\ request'[r].act = "video" =>
                            \/ RowsOf(rec)' \ request'[r].plan # {}
                            \/ RowsOf(rec)' = {} /\ CleanerTakes(rec)'
    BY DEF LastRowInv, AtWork
  <2>1. /\ Unharmed(rec) /\ (CleanerTakes(rec)' <=> CleanerTakes(rec)) /\ \A r \in Requests : RecAsked(r)' = RecAsked(r)
        /\ RowsOf(rec)' = RowsOf(rec)
    BY <1>1, <1>3 DEF CleanerTakes, RecAsked
  <2>2. CASE rec = mine
    <3>1. RowsOf(rec) # {} /\ \A r \in Requests : RecAsked(r) = rec => request'[r].step # "unlink"
      BY <1>1, <1>2, <1>3, <1>4, <2>2
    <3> QED BY <2>1, <3>1
  <2>3. CASE rec # mine
    <3>1. recorded[rec].exists /\ \A r \in Requests : RecAsked(r) = rec => request'[r] = request[r]
      BY <1>1, <1>2, <2>3
    <3> QED BY <1>1, <2>1, <3>1 DEF SettleInv, LastRowInv, AtWork
  <2> QED BY <2>2, <2>3
<1> QED BY <1>5, <1>6, <1>7, <1>8, <1>9, <1>10, <1>11 DEF SettleInv

\* The clean-up removes files that are past: the files that are needed stay.
LEMMA FilesStay ==
    ASSUME IInv, SettleInv, UNCHANGED <<recorder, request, bounds>>, files' \subseteq files,
           \A rec \in Recs : Unharmed(rec)' => Unharmed(rec),
           \A v \in files \ files' : Past(v) \/ ~Unharmed(RecOf[v])',
           \A v \in files' : v \in videoFiles => v \in videoFiles' \/ v \in Encoded
    PROVE  FileInv'
<1> USE OwnersKnown
<1>0. files \subseteq Videos
  BY DEF IInv, TypeOK
<1>1. ASSUME NEW v \in files' \ Encoded, Unharmed(RecOf[v])'
      PROVE  v \in videoFiles' \/ (recorder'[RecOf[v]] \in {"writing", "registering"} /\ v = Recorded[RecOf[v]])
  BY <1>0, <1>1 DEF SettleInv, FileInv
<1>2. ASSUME NEW rec \in Recs, Unharmed(rec)', recorder'[rec] \in {"writing", "registering"}
      PROVE  Recorded[rec] \in files'
  <2>1. ~Past(Recorded[rec]) /\ Unharmed(RecOf[Recorded[rec]])'
    BY <1>2 DEF Past, Unregistered
  <2>2. Recorded[rec] \in files
    BY <1>2 DEF SettleInv, FileInv
  <2> QED BY <2>1, <2>2
<1>3. ASSUME NEW q \in Requests
      PROVE  /\ request'[q].step = "measured" /\ Unharmed(RecAsked(q))' => Made[q] \in files'
             /\ request'[q].step = "unlink" => request'[q].left \subseteq request'[q].plan
             /\ request'[q].step = "unlink" /\ bounds'.failures = 0
                   => (request'[q].plan \ request'[q].left) \cap files' = {}
  <2>1. ASSUME request[q].step = "measured", Unharmed(RecAsked(q))' PROVE Made[q] \in files'
    <3>1. q \in DOMAIN Made
      BY <2>1, ContentAssumption DEF IInv, PlanInv
    <3>2. RecOf[Made[q]] = RecAsked(q)
      BY <3>1 DEF VideosOf
    <3>3. ~Past(Made[q]) /\ Made[q] \in files
      BY <2>1, <3>1 DEF Past, SettleInv, FileInv
    <3> QED BY <2>1, <3>2, <3>3
  <2> QED BY <2>1 DEF SettleInv, FileInv
<1> QED BY <1>1, <1>2, <1>3 DEF FileInv, RecAsked, Unharmed, VideosOf

\* The clean-up deletes the row of a missing file.  If the row is still there, the deletion that
\* has the lock is about to delete it as well.
LEMMA DeletesRowSettles ==
    ASSUME IInv, TypeOK', SettleInv, Onwards, NEW u \in Videos, LegacyDeletesRow(u)
    PROVE  SettleInv'
<1> USE OwnersKnown DEF history
<1>0. TypeOK
  BY DEF IInv
<1>1. /\ UNCHANGED <<recorded, recorder, request, swept, bounds>>
      /\ u \in cleaner.video /\ cleaner.step = "legacyRow" /\ Past(u) /\ u \notin files
      /\ files' = files /\ videoFiles' = videoFiles \ {u}
  BY DEF LegacyDeletesRow, SettleInv, PastInv, SweeperInv
<1>2. /\ cleaner'.step = "legacyReread" /\ cleaner'.video = cleaner.video /\ cleaner'.plan = cleaner.plan
      /\ cleaner'.rows = cleaner.rows
  BY <1>0, CleanerFacts DEF LegacyDeletesRow
<1>3. \A rec \in Recs : (Unharmed(rec)' <=> Unharmed(rec)) /\ RowsOf(rec)' = RowsOf(rec) \ {u}
  BY <1>1 DEF Unharmed, RowsOf, VideosOf
<1>4. PastInv'
  BY <1>0, <1>1, <1>2, PastGrows DEF SettleInv
<1>5. EarlyInv'
  BY <1>1, EarlyStays
<1>6. OwnerInv'
  BY <1>1 DEF SettleInv, OwnerInv
<1>7. FileInv'
  <2>1. \A v \in files' : v \in videoFiles => v \in videoFiles'
    BY <1>1
  <2> QED BY <1>1, <1>3, <2>1, FilesStay
<1>8. GuardInv'
  <2>1. ASSUME NEW v \in videoFiles' \ files', Unharmed(RecOf[v])'
        PROVE  \/ \E q \in Requests : request'[q].step = "unlink" /\ v \in request'[q].plan
               \/ cleaner'.step = "wholeRows" /\ v \in cleaner'.plan
    <3>1. v \in Videos /\ Unharmed(RecOf[v]) /\ v \in videoFiles \ files
      BY <1>0, <1>1, <1>3, <2>1 DEF TypeOK
    <3> QED BY <1>1, <3>1 DEF SettleInv, GuardInv
  <2> QED BY <2>1 DEF GuardInv, Unharmed, VideosOf
<1>9. SweeperInv'
  BY <1>2 DEF SweeperInv
<1>10. LastRowInv'
  <2> SUFFICES ASSUME NEW rec \in Recs, Unharmed(rec)', recorded'[rec].exists
               PROVE  /\ RowsOf(rec)' = {} =>
                            \/ recorder'[rec] = "registering"
                            \/ \E q \in Requests : RecAsked(q)' = rec /\ request'[q].step \in AtWork /\ request'[q].act # "video"
                            \/ CleanerTakes(rec)'
                      /\ \A q \in Requests : RecAsked(q)' = rec /\ request'[q].step = "unlink" /\ request'[q].act = "video" =>
                            \/ RowsOf(rec)' \ request'[q].plan # {}
                            \/ RowsOf(rec)' = {} /\ CleanerTakes(rec)'
    BY DEF LastRowInv, AtWork
  <2>1. /\ Unharmed(rec) /\ ~CleanerTakes(rec) /\ \A q \in Requests : RecAsked(q)' = RecAsked(q)
        /\ recorded[rec].exists
    BY <1>1, <1>3 DEF CleanerTakes, RecAsked
  <2>2. CASE u \notin RowsOf(rec)
    <3>1. RowsOf(rec)' = RowsOf(rec)
      <4>1. RowsOf(rec)' = RowsOf(rec) \ {u} /\ RowsOf(rec) \ {u} = RowsOf(rec)
        BY <1>3, <2>2
      <4> QED BY <4>1
    <3> QED BY <1>1, <2>1, <3>1 DEF SettleInv, LastRowInv, AtWork
  <2>3. CASE u \in RowsOf(rec)
    <3>1. u \in videoFiles \ files /\ RecOf[u] = rec
      BY <1>1, <2>3 DEF RowsOf, VideosOf
    <3>2. PICK h \in Requests : request[h].step = "unlink" /\ u \in request[h].plan
      BY <1>1, <2>1, <3>1 DEF SettleInv, GuardInv
    <3>3. RecAsked(h) = rec
      BY <3>1, <3>2 DEF IInv, PlanInv, VideosOf
    <3>4. ASSUME NEW q \in Requests, RecAsked(q) = rec, request[q].step = "unlink" PROVE q = h
      BY <3>2, <3>3, <3>4 DEF IInv, LockInv, MyTurn
    <3>5. CASE request[h].act = "video"
      <4>1. RowsOf(rec) \ request[h].plan # {}
        BY <2>1, <3>2, <3>3, <3>5 DEF SettleInv, LastRowInv
      <4>2. RowsOf(rec)' \ request[h].plan = RowsOf(rec) \ request[h].plan
        BY <1>3, <3>2
      <4> QED BY <1>1, <2>1, <3>4, <4>1, <4>2
    <3>6. CASE request[h].act # "video"
      BY <1>1, <2>1, <3>2, <3>3, <3>4, <3>6 DEF AtWork
    <3> QED BY <3>5, <3>6
  <2> QED BY <2>2, <2>3
<1> QED BY <1>4, <1>5, <1>6, <1>7, <1>8, <1>9, <1>10 DEF SettleInv

\* The clean-up removes a file that it does not know, which is remembered, or the files of a
\* recording that it deletes.
LEMMA RemovesFilesSettles ==
    ASSUME IInv, TypeOK', SettleInv, Onwards,
           LegacyWholeFiles \/ \E u \in Videos : CleanupSweeps(u)
    PROVE  SettleInv'
<1> USE OwnersKnown DEF history
<1> DEFINE gone == files \ files'
<1>0. TypeOK
  BY DEF IInv
<1>1. /\ UNCHANGED <<recorded, videoFiles, recorder, request, bounds>> /\ files' \subseteq files
      /\ swept \subseteq swept' /\ cleaner'.video = cleaner.video /\ cleaner'.plan = cleaner.plan
      /\ cleaner'.rows = cleaner.rows
      /\ \/ /\ cleaner.step = "wholeFiles" /\ cleaner'.step = "wholeRows" /\ gone \subseteq cleaner.plan
            /\ cleaner.plan \cap files' = {}
         \/ cleaner.step = "sweep" /\ cleaner'.step = "sweep" /\ gone \subseteq swept'
  <2>1. CASE LegacyWholeFiles
    BY <1>0, <2>1, CleanerFacts DEF LegacyWholeFiles
  <2>2. ASSUME NEW u \in Videos, CleanupSweeps(u) PROVE <1>1
    BY <1>0, <2>2 DEF TypeOK, CleanerStates, CleanupSweeps, Clean
  <2> QED BY <2>1, <2>2
<1>2. /\ \A rec \in Recs : Unharmed(rec)' => Unharmed(rec)
      /\ \A rec \in Recs : RowsOf(rec)' = RowsOf(rec) /\ (CleanerTakes(rec)' <=> CleanerTakes(rec))
      /\ \A v \in Videos : v \in swept' => ~Unharmed(RecOf[v])'
  BY <1>1 DEF Unharmed, RowsOf, VideosOf, CleanerTakes
<1> HIDE DEF gone
<1>3. PastInv'
  BY <1>0, <1>1, PastGrows DEF SettleInv
<1>4. EarlyInv'
  BY <1>1, EarlyStays
<1>5. OwnerInv'
  BY <1>1 DEF SettleInv, OwnerInv
<1>6. FileInv'
  <2>1. ASSUME NEW v \in files \ files' PROVE Past(v) \/ ~Unharmed(RecOf[v])'
    <3>1. v \in Videos /\ v \in gone
      BY <1>0, <2>1 DEF TypeOK, gone
    <3> QED BY <1>1, <1>2, <3>1 DEF SettleInv, PastInv
  <2> QED BY <1>1, <1>2, <2>1, FilesStay
<1>7. GuardInv'
  <2>1. ASSUME NEW v \in videoFiles' \ files', Unharmed(RecOf[v])'
        PROVE  \/ \E q \in Requests : request'[q].step = "unlink" /\ v \in request'[q].plan
               \/ cleaner'.step = "wholeRows" /\ v \in cleaner'.plan
    <3>1. v \in Videos /\ Unharmed(RecOf[v]) /\ v \in videoFiles /\ v \notin swept'
      BY <1>0, <1>1, <1>2, <2>1 DEF TypeOK
    <3>2. CASE v \in files
      <4>1. v \in gone
        BY <2>1, <3>2 DEF gone
      <4> QED BY <1>1, <3>1, <4>1
    <3>3. CASE v \notin files
      BY <1>1, <3>1, <3>3 DEF SettleInv, GuardInv
    <3> QED BY <3>2, <3>3
  <2> QED BY <2>1 DEF GuardInv, Unharmed, VideosOf
<1>8. SweeperInv'
  <2>1. \A v \in cleaner.video : RowsOf(RecOf[v])' = RowsOf(RecOf[v])
    BY <1>1 DEF RowsOf, VideosOf
  <2> QED BY <1>1, <2>1 DEF SettleInv, SweeperInv, VideosOf
<1>9. LastRowInv'
  <2>1. ASSUME NEW rec \in Recs, Unharmed(rec)', recorded'[rec].exists
        PROVE  /\ RowsOf(rec) = {} =>
                     \/ recorder[rec] = "registering"
                     \/ \E q \in Requests : RecAsked(q) = rec /\ request[q].step \in AtWork /\ request[q].act # "video"
                     \/ CleanerTakes(rec)
               /\ \A q \in Requests : RecAsked(q) = rec /\ request[q].step = "unlink" /\ request[q].act = "video" =>
                     \/ RowsOf(rec) \ request[q].plan # {}
                     \/ RowsOf(rec) = {} /\ CleanerTakes(rec)
    BY <1>1, <1>2, <2>1 DEF SettleInv, LastRowInv
  <2> QED BY <1>1, <1>2, <2>1 DEF LastRowInv, RecAsked
<1> QED BY <1>3, <1>4, <1>5, <1>6, <1>7, <1>8, <1>9 DEF SettleInv

\* The clean-up deletes all rows of a recording whose files it has removed.
LEMMA WholeRowsSettles ==
    ASSUME IInv, TypeOK', SettleInv, Onwards, NEW u \in Videos, LegacyWholeRows(u)
    PROVE  SettleInv'
<1> USE OwnersKnown DEF history
<1> DEFINE rec == RecOf[u]
<1>0. TypeOK
  BY DEF IInv
<1>1. /\ UNCHANGED <<recorded, files, recorder, request, swept, bounds>>
      /\ u \in cleaner.video /\ cleaner.step = "wholeRows"
      /\ \/ cleaner.plan = {} /\ videoFiles' = videoFiles
         \/ videoFiles' = videoFiles \ VideosOf(rec)
  BY DEF LegacyWholeRows
<1>2. /\ cleaner'.step = "wholeRecorded" /\ cleaner'.video = cleaner.video /\ cleaner'.plan = cleaner.plan
      /\ cleaner'.rows = cleaner.rows
  BY <1>0, CleanerFacts DEF LegacyWholeRows
<1>3. /\ RowsOf(rec) \ Encoded \subseteq cleaner.plan /\ cleaner.plan \subseteq VideosOf(rec)
      /\ cleaner.plan \cap files = {}
  BY <1>1 DEF SettleInv, SweeperInv
<1>4. /\ \A other \in Recs : /\ Unharmed(other)' <=> Unharmed(other)
                             /\ RowsOf(other)' = RowsOf(other) \/ (other = rec /\ RowsOf(other)' = {})
                             /\ ~CleanerTakes(other)
      /\ CleanerTakes(rec)'
  BY <1>1, <1>2 DEF Unharmed, RowsOf, VideosOf, CleanerTakes
<1>5. PastInv'
  BY <1>0, <1>1, <1>2, PastGrows DEF SettleInv
<1>6. EarlyInv'
  BY <1>1, EarlyStays
<1>7. OwnerInv'
  BY <1>1 DEF SettleInv, OwnerInv
<1>8. FileInv'
  <2>1. \A v \in files' : v \in videoFiles => v \in videoFiles' \/ v \in Encoded
    BY <1>1, <1>3 DEF RowsOf
  <2> QED BY <1>1, <1>4, <2>1, FilesStay
<1>9. GuardInv'
  <2>1. ASSUME NEW v \in videoFiles' \ files', Unharmed(RecOf[v])'
        PROVE  \/ \E q \in Requests : request'[q].step = "unlink" /\ v \in request'[q].plan
               \/ cleaner'.step = "wholeRows" /\ v \in cleaner'.plan
    <3>1. v \in Videos /\ Unharmed(RecOf[v]) /\ v \in videoFiles \ files
      BY <1>0, <1>1, <1>4, <2>1 DEF TypeOK
    <3>2. v \notin cleaner.plan
      BY <1>1, <1>3, <2>1
    <3> QED BY <1>1, <3>1, <3>2 DEF SettleInv, GuardInv
  <2> QED BY <2>1 DEF GuardInv, Unharmed, VideosOf
<1>10. SweeperInv'
  BY <1>2 DEF SweeperInv
<1>11. LastRowInv'
  <2>1. ASSUME NEW other \in Recs, Unharmed(other)', recorded'[other].exists
        PROVE  /\ RowsOf(other)' = {} =>
                     \/ recorder[other] = "registering"
                     \/ \E q \in Requests : RecAsked(q) = other /\ request[q].step \in AtWork /\ request[q].act # "video"
                     \/ CleanerTakes(other)'
               /\ \A q \in Requests : RecAsked(q) = other /\ request[q].step = "unlink" /\ request[q].act = "video" =>
                     \/ RowsOf(other)' \ request[q].plan # {}
                     \/ RowsOf(other)' = {} /\ CleanerTakes(other)'
    <3>1. CASE other = rec /\ RowsOf(other)' = {}
      BY <1>4, <3>1
    <3>2. CASE RowsOf(other)' = RowsOf(other)
      BY <1>1, <1>4, <2>1, <3>2 DEF SettleInv, LastRowInv
    <3> QED BY <1>4, <3>1, <3>2
  <2> QED BY <1>1, <2>1 DEF LastRowInv, RecAsked
<1> QED BY <1>5, <1>6, <1>7, <1>8, <1>9, <1>10, <1>11 DEF SettleInv

\* And the row of the recording, if no file came in between.
LEMMA WholeRecordedSettles ==
    ASSUME IInv, TypeOK', SettleInv, Onwards, NEW u \in Videos, LegacyWholeRecorded(u)
    PROVE  SettleInv'
<1> USE OwnersKnown DEF history
<1> DEFINE rec == RecOf[u]
<1>0. TypeOK
  BY DEF IInv
<1>1. /\ UNCHANGED <<videoFiles, files, recorder, request, swept, bounds>>
      /\ u \in cleaner.video /\ cleaner.step = "wholeRecorded" /\ ~Unregistered(rec)
      /\ \A other \in Recs : other # rec => recorded'[other] = recorded[other]
      /\ \/ RowsOf(rec) = {} /\ ~recorded'[rec].exists
         \/ RowsOf(rec) # {} /\ recorded'[rec] = recorded[rec]
  <2>1. ~Absent.exists
    BY DEF Absent
  <2>2. /\ \A other \in Recs : other # rec => recorded'[other] = recorded[other]
        /\ \/ RowsOf(rec) = {} /\ ~recorded'[rec].exists
           \/ RowsOf(rec) # {} /\ recorded'[rec] = recorded[rec]
    BY <1>0, <2>1 DEF LegacyWholeRecorded, TypeOK
  <2> QED BY <2>2 DEF LegacyWholeRecorded, SettleInv, PastInv, Past
<1>2. /\ cleaner'.step = "check" /\ cleaner'.video = cleaner.video /\ cleaner'.plan = {}
      /\ cleaner'.rows = cleaner.rows
  BY <1>0 DEF LegacyWholeRecorded, Clean, TypeOK, CleanerStates
<1>3. \A other \in Recs : /\ Unharmed(other)' <=> Unharmed(other)
                          /\ RowsOf(other)' = RowsOf(other)
                          /\ CleanerTakes(other) => other = rec
  BY <1>1 DEF Unharmed, RowsOf, VideosOf, CleanerTakes, IInv, CleanerInv
<1>4. PastInv'
  BY <1>0, <1>1, <1>2, PastGrows DEF SettleInv
<1>5. EarlyInv'
  <2>1. \A other \in Recs : recorder'[other] = "registering" => recorded'[other] = recorded[other]
    BY <1>1 DEF Unregistered
  <2> QED BY <1>1, <2>1, EarlyStays
<1>6. OwnerInv'
  <2>1. ASSUME NEW v \in videoFiles PROVE recorded'[RecOf[v]].exists
    <3>1. v \in RowsOf(RecOf[v]) /\ RecOf[v] \in Recs /\ recorded[RecOf[v]].exists
      BY <1>0 DEF TypeOK, RowsOf, VideosOf, SettleInv, OwnerInv
    <3> QED BY <1>1, <3>1
  <2> QED BY <1>1, <2>1 DEF OwnerInv
<1>7. FileInv'
  BY <1>1, <1>3, FilesStay
<1>8. GuardInv'
  <2>1. ASSUME NEW v \in videoFiles' \ files', Unharmed(RecOf[v])'
        PROVE  \/ \E q \in Requests : request'[q].step = "unlink" /\ v \in request'[q].plan
               \/ cleaner'.step = "wholeRows" /\ v \in cleaner'.plan
    <3>1. v \in Videos /\ Unharmed(RecOf[v]) /\ v \in videoFiles \ files
      BY <1>0, <1>1, <1>3, <2>1 DEF TypeOK
    <3> QED BY <1>1, <3>1 DEF SettleInv, GuardInv
  <2> QED BY <2>1 DEF GuardInv, Unharmed, VideosOf
<1>9. SweeperInv'
  BY <1>2 DEF SweeperInv
<1>10. LastRowInv'
  <2>1. ASSUME NEW other \in Recs, Unharmed(other)', recorded'[other].exists
        PROVE  /\ RowsOf(other) # {} \/ ~CleanerTakes(other)
               /\ recorded[other].exists
    <3>1. CASE other = rec
      BY <1>1, <2>1, <3>1
    <3>2. CASE other # rec
      BY <1>1, <1>3, <2>1, <3>2
    <3> QED BY <3>1, <3>2
  <2>2. ASSUME NEW other \in Recs, Unharmed(other)', recorded'[other].exists
        PROVE  /\ RowsOf(other) = {} =>
                     \/ recorder[other] = "registering"
                     \/ \E q \in Requests : RecAsked(q) = other /\ request[q].step \in AtWork /\ request[q].act # "video"
               /\ \A q \in Requests : RecAsked(q) = other /\ request[q].step = "unlink" /\ request[q].act = "video" =>
                     RowsOf(other) \ request[q].plan # {}
    BY <1>3, <2>1, <2>2 DEF SettleInv, LastRowInv
  <2> QED BY <1>1, <1>3, <2>2 DEF LastRowInv, RecAsked
<1> QED BY <1>4, <1>5, <1>6, <1>7, <1>8, <1>9, <1>10 DEF SettleInv

\* The invariant holds at the start: finished recordings have their first file.
LEMMA InitSettled == Init => SettleInv
<1> SUFFICES ASSUME Init PROVE SettleInv
  OBVIOUS
<1> USE OwnersKnown
<1>1. /\ recorder = [rec \in Recs |-> "none"] /\ request = [q \in Requests |-> Idle]
      /\ videoFiles = {v \in Videos \ Encoded : RecOf[v] \notin Upcoming} /\ files = videoFiles
      /\ \A rec \in Recs : recorded[rec].exists <=> rec \notin Upcoming
      /\ cleaner.rows = {} /\ cleaner.video = {} /\ cleaner.plan = {}
  BY DEF Init, CleanerIdle, Absent
<1>2. \A q \in Requests : request[q].step = "idle"
  BY <1>1 DEF Idle
<1>3. PastInv
  <2>1. ASSUME NEW v \in videoFiles PROVE Past(v)
    BY <1>1, <2>1 DEF Past, Unregistered
  <2> QED BY <1>1, <1>2, <2>1 DEF PastInv, AtWork
<1>4. EarlyInv
  BY <1>1, <1>2 DEF EarlyInv
<1>5. OwnerInv
  BY <1>1 DEF OwnerInv
<1>6. FileInv
  BY <1>1, <1>2 DEF FileInv
<1>7. GuardInv /\ SweeperInv
  BY <1>1 DEF GuardInv, SweeperInv
<1>8. LastRowInv
  <2>1. ASSUME NEW rec \in Recs, recorded[rec].exists PROVE RowsOf(rec) # {}
    <3>1. Recorded[rec] \in RowsOf(rec)
      BY <1>1, <2>1 DEF RowsOf, VideosOf
    <3> QED BY <3>1
  <2> QED BY <1>2, <2>1 DEF LastRowInv
<1> QED BY <1>3, <1>4, <1>5, <1>6, <1>7, <1>8 DEF SettleInv

\* Every step keeps it.
LEMMA NextSettles ==
    ASSUME IInv, SettleInv, [Next]_vars
    PROVE  SettleInv'
<1> USE DEF content, history
<1>0. TypeOK /\ TypeOK'
  BY NextIsSafe DEF IInv
<1>1. CASE UNCHANGED vars
  <2>1. PastInv' /\ EarlyInv' /\ OwnerInv'
    BY <1>1 DEF vars, SettleInv, PastInv, Past, EarlyInv, OwnerInv, Unregistered, RecAsked
  <2>2. FileInv' /\ GuardInv' /\ SweeperInv'
    BY <1>1 DEF vars, SettleInv, FileInv, GuardInv, SweeperInv, Unharmed, RowsOf, VideosOf, RecAsked
  <2>3. LastRowInv'
    BY <1>1 DEF vars, SettleInv, LastRowInv, CleanerTakes, Unharmed, RowsOf, VideosOf, RecAsked
  <2> QED BY <2>1, <2>2, <2>3 DEF SettleInv
<1>2. CASE Next
  <2>0. Onwards
    BY <1>0, <1>2, NextOnwards
  <2>1. ASSUME Gentle PROVE SettleInv'
    BY <1>0, <2>0, <2>1, GentleSettles
  <2>2. ASSUME NEW q \in Requests, Ask(q) \/ EncoderWrites(q) PROVE SettleInv'
    BY <1>0, <2>0, <2>2, AskSettles, EncoderSettles
  <2>3. ASSUME NEW q \in Requests, RequestStep(q) PROVE SettleInv'
    <3>1. CASE PrepareUserDeletion(q) \/ PrepareVideoFileDeletion(q) \/ PrepareStorageDeletion(q)
               \/ MeasureVideoFile(q) \/ Reread(q)
      BY <2>1, <3>1, RequestIsGentle
    <3>2. CASE StopActiveRecording(q)
      BY <1>0, <2>0, <2>1, <3>2, RecorderIsGentle, StopSettles
    <3>3. CASE InsertVideoFile(q)
      BY <1>0, <2>0, <3>3, InsertSettles
    <3>4. CASE DeleteVideoRows(q) \/ DeleteRecorded(q)
      BY <1>0, <2>0, <3>4, DeleteRowsSettles, DeleteRecordedSettles
    <3>5. CASE \E v \in Videos : Unlink(q, v)
      BY <1>0, <2>0, <3>5, UnlinkSettles
    <3> QED BY <2>3, <3>1, <3>2, <3>3, <3>4, <3>5 DEF RequestStep
  <2>4. ASSUME NEW rec \in Recs, RecorderStep(rec) \/ ChangeProtect(rec) PROVE SettleInv'
    BY <1>0, <2>0, <2>1, <2>4, RecorderIsGentle, RecorderSettles DEF RecorderStep
  <2>5. CASE CleanupStarts \/ CleanerStep
    <3>1. CASE CleanupStarts \/ CleanupLists \/ CleanupEnds
      BY <2>1, <3>1, CleanerIsGentle
    <3>2. CASE LegacyWholeFiles
      BY <1>0, <2>0, <3>2, RemovesFilesSettles
    <3>3. ASSUME NEW v \in Videos, CleanupChecks(v) \/ LegacyRead(v) \/ LegacyRereads(v) \/ LegacyWholeRead(v)
          PROVE  SettleInv'
      BY <2>1, <3>3, CleanerIsGentle
    <3>4. ASSUME NEW v \in Videos, CleanupSweeps(v) PROVE SettleInv'
      BY <1>0, <2>0, <3>4, RemovesFilesSettles
    <3>5. ASSUME NEW v \in Videos, LegacyDeletesRow(v) \/ LegacyWholeRows(v) \/ LegacyWholeRecorded(v)
          PROVE  SettleInv'
      BY <1>0, <2>0, <3>5, DeletesRowSettles, WholeRowsSettles, WholeRecordedSettles
    <3> QED BY <2>5, <3>1, <3>2, <3>3, <3>4, <3>5 DEF CleanerStep
  <2> QED BY <1>2, <2>2, <2>3, <2>4, <2>5 DEF Next
<1> QED BY <1>1, <1>2

\* Files and rows agree in every reachable state, as far as nothing failed.
THEOREM SettleInvariance == Spec => []SettleInv
<1>1. IInv /\ SettleInv /\ [Next]_vars => SettleInv'
  BY NextSettles
<1> QED BY <1>1, InitSettled, Invariance, PTL DEF Spec

\* When nothing works on a recording any more, the files that are registered of it are on
\* disk and are at least one, or it is gone and has left no file but one whose registration
\* came too late: what two deletions, the clean-up, a recorder and an encoder leave behind in
\* whatever order they go on (deletePrepared, videoFileCleanup, addRecorded, addVideoFile).
\* A row without its file is what GuardInv says of it: somebody is still at work on it.
THEOREM ContentIsSettled == Spec => []ContentSettles
<1>1. IInv /\ SettleInv => ContentSettles
  <2> SUFFICES ASSUME IInv, SettleInv, NEW rec \in Recs, Quiet(rec)
               PROVE  IF recorded[rec].exists THEN RowsOf(rec) # {} /\ RowsOf(rec) \subseteq files
                      ELSE files \cap VideosOf(rec) \subseteq Encoded
    BY DEF ContentSettles
  <2>1. /\ Unharmed(rec) /\ ~CleanerTakes(rec) /\ recorder[rec] \notin {"writing", "registering"}
        /\ \A q \in Requests : RecAsked(q) = rec => request[q].step \notin AtWork
        /\ cleaner.step # "wholeRows"
    BY DEF Quiet, Unharmed, CleanerTakes, AtWork
  <2>2. recorded[rec].exists => RowsOf(rec) # {}
    BY <2>1 DEF SettleInv, LastRowInv
  <2>3. RowsOf(rec) \subseteq files
    <3> SUFFICES ASSUME NEW v \in videoFiles \ files, RecOf[v] = rec PROVE FALSE
      BY DEF RowsOf, VideosOf
    <3>1. PICK q \in Requests : request[q].step = "unlink" /\ v \in request[q].plan
      BY <2>1 DEF SettleInv, GuardInv
    <3>2. RecAsked(q) = rec
      BY <3>1 DEF IInv, PlanInv, VideosOf, AtWork
    <3> QED BY <2>1, <3>1, <3>2 DEF AtWork
  <2>4. ASSUME ~recorded[rec].exists, NEW v \in files \cap VideosOf(rec), v \notin Encoded PROVE FALSE
    <3>1. RecOf[v] = rec /\ v \notin videoFiles
      BY <2>4 DEF VideosOf, SettleInv, OwnerInv
    <3> QED BY <2>1, <2>4, <3>1 DEF SettleInv, FileInv
  <2> QED BY <2>2, <2>3, <2>4
<1> QED BY <1>1, Invariance, SettleInvariance, PTL
=============================================================================
