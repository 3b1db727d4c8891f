----------------------------- MODULE Thumbnails -----------------------------
(***************************************************************************)
(* ThumbnailManageModel: the queue of thumbnails to make, the preparation,  *)
(* the reservation of a file name, the child process and the registration,  *)
(* against the deletion of thumbnails, the clean-up of the directory, the   *)
(* regeneration, the deletion of the recording (RecordedManageModel) and a  *)
(* crash of the process.                                                    *)
(*                                                                          *)
(* All requests are for one recording: file names begin with the recording's *)
(* id, so those of two recordings never meet.  A row of the table is named  *)
(* by the request that made it.  Unlinking a file does not fail.            *)
(***************************************************************************)
EXTENDS Naturals, Sequences, FiniteSets

CONSTANTS
    Requests,           \* requests for a thumbnail
    MaxPending,         \* thumbnailMaxPending
    MaxSuffix,          \* bound: the numbers of file names
    MaxDeletes,         \* bound: deletions of single thumbnails
    MaxScans,           \* bound: clean-ups and regenerations
    MaxRecordedDeletes, \* bound: deletions of the recording
    MaxCrashes          \* bound: crashes

ASSUME ThumbnailAssumption ==
    {MaxPending, MaxSuffix, MaxDeletes, MaxScans, MaxRecordedDeletes, MaxCrashes} \subseteq Nat

VARIABLES
    queue,              \* PromiseQueue: requests not started
    req,                \* request -> [step, n, lookup, child, settled, failed]
    prep,               \* activePreparationRequest, or None
    active,             \* activeReservations
    final,              \* number -> "none", "empty", "complete": the files
    temp,               \* the requests whose temporary file is there
    rows,               \* the table
    recorded,           \* is the recording's row there
    dele,               \* request -> step of the deletion of its row
    scan,               \* kind -> a clean-up or regeneration under way
    whole,              \* the deletion of the recording
    stale,              \* has the process crashed since the last clean-up
    budget              \* [deletes, scans, whole, crashes] so far

making == <<queue, req, prep, active>>
disk == <<final, temp>>
vars == <<making, disk, rows, recorded, dele, scan, whole, stale, budget>>

None == "none"
Suffixes == 0 .. MaxSuffix
Spend(what, bound) == budget[what] < bound /\ budget' = [budget EXCEPT ![what] = @ + 1]

Over(q) == req[q].step \in {"done", "lost"}
Running == {q \in Requests : req[q].step \notin {"new", "queued", "done", "lost"}}
Step(q, step) == req' = [req EXCEPT ![q].step = step]

-----------------------------------------------------------------------------
(* The queue and the preparation: add, create, prepareVideoFile. *)

HasRoom == Len(queue) < MaxPending

Add(q) ==
    /\ req[q].step = "new" /\ HasRoom
    /\ queue' = Append(queue, q)
    /\ Step(q, "queued")
    /\ UNCHANGED <<prep, active, disk, rows, recorded, dele, scan, whole, stale, budget>>

\* create begins; programmes of BS4K are skipped.
Start ==
    /\ Running = {} /\ queue # <<>>
    /\ queue' = Tail(queue)
    /\ LET q == Head(queue)
       IN  \/ /\ req' = [req EXCEPT ![q].step = "preparing", ![q].lookup = "open"]
              /\ prep' = q
           \/ Step(q, "done") /\ UNCHANGED prep
    /\ UNCHANGED <<active, disk, rows, recorded, dele, scan, whole, stale, budget>>

\* settle: is q the preparation under way.
Settles(q) == prep = q

\* resolveVideoFilePreparation ends, in time or late; it finds nothing if the recording is gone.
LookupEnds(q, found) ==
    /\ req[q].lookup = "open" /\ (found => recorded)
    /\ req' = [req EXCEPT ![q].lookup = "over",
                          ![q].step = IF Settles(q) /\ @ = "preparing"
                                      THEN IF found THEN "opening" ELSE "done"
                                      ELSE @]
    /\ prep' = IF Settles(q) THEN None ELSE prep
    /\ UNCHANGED <<queue, active, disk, rows, recorded, dele, scan, whole, stale, budget>>

\* rejectTimeout.
PreparationTimeout(q) ==
    /\ req[q].step = "preparing" /\ Settles(q)
    /\ Step(q, "done")
    /\ prep' = None
    /\ UNCHANGED <<queue, active, disk, rows, recorded, dele, scan, whole, stale, budget>>

-----------------------------------------------------------------------------
(* Making the thumbnail. *)

\* reserveOutput: the file is opened exclusively, under the next number if there is one.  The
\* reservation is entered in the turn in which the open is reported: a listing of the directory
\* that sees the file takes several turns more.
Open(q) ==
    /\ req[q].step = "opening"
    /\ IF final[req[q].n] = "none"
       THEN /\ final' = [final EXCEPT ![req[q].n] = "empty"]
            /\ active' = active \cup {q}
            /\ Step(q, "claimed")
       ELSE req' = [req EXCEPT ![q].n = @ + 1] /\ UNCHANGED <<final, active>>
    /\ UNCHANGED <<queue, prep, temp, rows, recorded, dele, scan, whole, stale, budget>>

\* The child is started, or the temporary directory, the command or the child fails.
Claimed(q) ==
    /\ req[q].step = "claimed"
    /\ \/ req' = [req EXCEPT ![q].step = "generating", ![q].child = "alive"]
       \/ req' = [req EXCEPT ![q].step = "tidying", ![q].failed = TRUE]
    /\ UNCHANGED <<queue, prep, active, disk, rows, recorded, dele, scan, whole, stale, budget>>

ChildWrites(q) ==
    /\ req[q].child = "alive"
    /\ temp' = temp \cup {q}
    /\ UNCHANGED <<making, final, rows, recorded, dele, scan, whole, stale, budget>>

\* finalize: both the child and the work are over.
Finalizes(r) == r.settled /\ r.child = "closed"

Finalized(r) == [r EXCEPT !.step = IF Finalizes(r) THEN "tidying" ELSE @]

\* onDeadline: settleFailure; the child is asked to end.
Deadline(q) ==
    /\ req[q].step = "generating" /\ req[q].child = "alive" /\ ~req[q].settled
    /\ req' = [req EXCEPT ![q] = Finalized([@ EXCEPT !.settled = TRUE, !.failed = TRUE])]
    /\ UNCHANGED <<queue, prep, active, disk, rows, recorded, dele, scan, whole, stale, budget>>

\* onClose.
ChildCloses(q, ok) ==
    /\ req[q].child = "alive"
    /\ LET closed == [req[q] EXCEPT !.child = "closed"]
       IN  req' = [req EXCEPT ![q] =
              IF closed.settled THEN Finalized(closed)
              ELSE IF ok THEN [closed EXCEPT !.step = "publishing"]
              ELSE Finalized([closed EXCEPT !.settled = TRUE, !.failed = TRUE])]
    /\ UNCHANGED <<queue, prep, active, disk, rows, recorded, dele, scan, whole, stale, budget>>

\* publishOutput: the temporary file is copied, if the child has made one.
Publish(q) ==
    /\ req[q].step = "publishing"
    /\ IF q \in temp
       THEN final' = [final EXCEPT ![req[q].n] = "complete"] /\ Step(q, "registering")
       ELSE req' = [req EXCEPT ![q].step = "tidying", ![q].failed = TRUE] /\ UNCHANGED final
    /\ UNCHANGED <<queue, prep, active, temp, rows, recorded, dele, scan, whole, stale, budget>>

\* insertOnce, which refers to the row of the recording and may fail otherwise too.
Register(q) ==
    /\ req[q].step = "registering"
    /\ \/ /\ recorded
          /\ rows' = rows \cup {q}
          /\ Step(q, "tidying")
       \/ req' = [req EXCEPT ![q].step = "tidying", ![q].failed = TRUE] /\ UNCHANGED rows
    /\ UNCHANGED <<queue, prep, active, disk, recorded, dele, scan, whole, stale, budget>>

KeepFinal(q) == ~req[q].failed

\* cleanupReservation: the temporary file, the final file of a failure, the reservation.
Tidy(q) ==
    /\ req[q].step = "tidying"
    /\ temp' = temp \ {q}
    /\ Step(q, "dropping")
    /\ UNCHANGED <<queue, prep, active, final, rows, recorded, dele, scan, whole, stale, budget>>

DropFinal(q) ==
    /\ req[q].step = "dropping"
    /\ final' = IF KeepFinal(q) THEN final ELSE [final EXCEPT ![req[q].n] = "none"]
    /\ Step(q, "releasing")
    /\ UNCHANGED <<queue, prep, active, temp, rows, recorded, dele, scan, whole, stale, budget>>

Release(q) ==
    /\ req[q].step = "releasing"
    /\ active' = active \ {q}
    /\ Step(q, "done")
    /\ UNCHANGED <<queue, prep, disk, rows, recorded, dele, scan, whole, stale, budget>>

-----------------------------------------------------------------------------
(* Deletions. *)

\* delete: the row is looked up, deleted, and then the file.
DeleteFinds(q) ==
    /\ q \in rows /\ dele[q] = "no" /\ Spend("deletes", MaxDeletes)
    /\ dele' = [dele EXCEPT ![q] = "found"]
    /\ UNCHANGED <<making, disk, rows, recorded, scan, whole, stale>>

DeleteRow(q) ==
    /\ dele[q] = "found"
    /\ rows' = rows \ {q}
    /\ dele' = [dele EXCEPT ![q] = "unlinking"]
    /\ UNCHANGED <<making, disk, recorded, scan, whole, stale, budget>>

DeleteFile(q) ==
    /\ dele[q] = "unlinking"
    /\ final' = [final EXCEPT ![req[q].n] = "none"]
    /\ dele' = [dele EXCEPT ![q] = "over"]
    /\ UNCHANGED <<making, temp, rows, recorded, scan, whole, stale, budget>>

\* deleteExactRecordedResources: the files of the rows that were read, these rows, and the
\* recording, which the table refuses while a row refers to it.
WholeBegins ==
    /\ recorded /\ whole.step = "idle" /\ Spend("whole", MaxRecordedDeletes)
    /\ whole' = [step |-> "files", todo |-> rows, read |-> rows]
    /\ UNCHANGED <<making, disk, rows, recorded, dele, scan, stale>>

WholeFile(q) ==
    /\ whole.step = "files" /\ q \in whole.todo
    /\ final' = [final EXCEPT ![req[q].n] = "none"]
    /\ whole' = [whole EXCEPT !.todo = @ \ {q}]
    /\ UNCHANGED <<making, temp, rows, recorded, dele, scan, stale, budget>>

WholeRows ==
    /\ whole.step = "files" /\ whole.todo = {}
    /\ rows' = rows \ whole.read
    /\ whole' = [whole EXCEPT !.step = "recorded"]
    /\ UNCHANGED <<making, disk, recorded, dele, scan, stale, budget>>

WholeRecorded ==
    /\ whole.step = "recorded"
    /\ recorded' = (recorded /\ rows # {})
    /\ whole' = [step |-> "idle", todo |-> {}, read |-> {}]
    /\ UNCHANGED <<making, disk, rows, dele, scan, stale, budget>>

-----------------------------------------------------------------------------
(* Clean-up and regeneration. *)

NoScan == [step |-> "idle", todo |-> {}, index |-> {}, files |-> {}, spared |-> {}, doomed |-> {}]
Names(set) == {<<"final", req[q].n>> : q \in set}
Listed == {<<"final", n>> : n \in {m \in Suffixes : final[m] # "none"}} \cup {<<"temp", q>> : q \in temp}

\* Both begin with the table.
ScanBegins(kind) ==
    /\ scan[kind].step = "idle" /\ Spend("scans", MaxScans)
    /\ scan' = [scan EXCEPT ![kind] = [NoScan EXCEPT !.step = "rows", !.todo = rows]]
    /\ UNCHANGED <<making, disk, rows, recorded, dele, whole, stale>>

\* The row of a thumbnail without a file is deleted; otherwise its name is kept in mind.
ScanRow(kind, q) ==
    /\ scan[kind].step = "rows" /\ q \in scan[kind].todo
    /\ IF final[req[q].n] = "none"
       THEN /\ rows' = rows \ {q}
            /\ scan' = [scan EXCEPT ![kind].todo = @ \ {q}]
       ELSE /\ scan' = [scan EXCEPT ![kind].todo = @ \ {q}, ![kind].index = @ \cup Names({q})]
            /\ UNCHANGED rows
    /\ UNCHANGED <<making, disk, recorded, dele, whole, stale, budget>>

\* regenerate: a new request if no thumbnail is left and the queue has room.
Regenerate ==
    LET s == scan["regenerate"]
    IN  /\ s.step = "rows" /\ s.todo = {}
        /\ scan' = [scan EXCEPT !["regenerate"] = NoScan]
        /\ \/ /\ s.index = {} /\ HasRoom
              /\ \E q \in Requests : /\ req[q].step = "new"
                                     /\ queue' = Append(queue, q)
                                     /\ Step(q, "queued")
           \/ /\ s.index # {} \/ ~HasRoom \/ ~\E q \in Requests : req[q].step = "new"
              /\ UNCHANGED <<queue, req>>
        /\ UNCHANGED <<prep, active, disk, rows, recorded, dele, whole, stale, budget>>

\* fileCleanup: the directory, the reservations, the table once more, and then file by file.
CleanupLists ==
    /\ scan["cleanup"].step = "rows" /\ scan["cleanup"].todo = {}
    /\ scan' = [scan EXCEPT !["cleanup"].step = "listed", !["cleanup"].files = Listed]
    /\ UNCHANGED <<making, disk, rows, recorded, dele, whole, stale, budget>>

ActiveFinalPaths == Names(active)

CleanupNotesActive ==
    /\ scan["cleanup"].step = "listed"
    /\ scan' = [scan EXCEPT !["cleanup"].step = "noted", !["cleanup"].spared = ActiveFinalPaths]
    /\ UNCHANGED <<making, disk, rows, recorded, dele, whole, stale, budget>>

\* Variant: the table is not read again.
CurrentFileIndex_Old == {}

CurrentFileIndex == Names(rows)

CleanupReadsAgain ==
    /\ scan["cleanup"].step = "noted"
    /\ scan' = [scan EXCEPT !["cleanup"].step = "files",
                            !["cleanup"].spared = @ \cup scan["cleanup"].index \cup CurrentFileIndex]
    /\ UNCHANGED <<making, disk, rows, recorded, dele, whole, stale, budget>>

IsActiveReservationPath(f) == f \in Names(active) \/ f \in {<<"temp", q>> : q \in active}

CleanupChecks(f) ==
    LET s == scan["cleanup"]
    IN  /\ s.step = "files" /\ s.doomed = {} /\ f \in s.files
        /\ scan' = [scan EXCEPT !["cleanup"].files = @ \ {f},
                       !["cleanup"].doomed = IF f \in s.spared \/ IsActiveReservationPath(f) THEN {} ELSE {f}]
        /\ UNCHANGED <<making, disk, rows, recorded, dele, whole, stale, budget>>

CleanupUnlinks ==
    /\ scan["cleanup"].doomed # {}
    /\ scan' = [scan EXCEPT !["cleanup"].doomed = {}]
    /\ final' = [n \in Suffixes |-> IF <<"final", n>> \in scan["cleanup"].doomed THEN "none" ELSE final[n]]
    /\ temp' = {q \in temp : <<"temp", q>> \notin scan["cleanup"].doomed}
    /\ UNCHANGED <<making, rows, recorded, dele, whole, stale, budget>>

CleanupEnds ==
    /\ scan["cleanup"].step = "files" /\ scan["cleanup"].files = {} /\ scan["cleanup"].doomed = {}
    /\ scan' = [scan EXCEPT !["cleanup"] = NoScan]
    /\ stale' = FALSE
    /\ UNCHANGED <<making, disk, rows, recorded, dele, whole, budget>>

\* The operator process ends and starts again: requests are not restored.
Crash ==
    /\ Spend("crashes", MaxCrashes)
    /\ queue' = <<>> /\ prep' = None /\ active' = {}
    /\ req' = [q \in Requests |->
                  IF req[q].step = "new" \/ Over(q) THEN [req[q] EXCEPT !.lookup = "over"]
                  ELSE [req[q] EXCEPT !.step = "lost", !.lookup = "over", !.child = "closed"]]
    /\ dele' = [q \in Requests |-> IF dele[q] = "no" THEN "no" ELSE "over"]
    /\ scan' = [kind \in DOMAIN scan |-> NoScan]
    /\ whole' = [step |-> "idle", todo |-> {}, read |-> {}]
    /\ stale' = TRUE
    /\ UNCHANGED <<disk, rows, recorded>>

-----------------------------------------------------------------------------
Init ==
    /\ queue = <<>> /\ prep = None /\ active = {}
    /\ req = [q \in Requests |-> [step |-> "new", n |-> 0, lookup |-> "over", child |-> "none",
                                  settled |-> FALSE, failed |-> FALSE]]
    /\ final = [n \in Suffixes |-> "none"] /\ temp = {} /\ rows = {} /\ recorded = TRUE
    /\ dele = [q \in Requests |-> "no"]
    /\ scan = [kind \in {"cleanup", "regenerate"} |-> NoScan]
    /\ whole = [step |-> "idle", todo |-> {}, read |-> {}]
    /\ stale = FALSE /\ budget = [deletes |-> 0, scans |-> 0, whole |-> 0, crashes |-> 0]

Making(q) ==
    \/ PreparationTimeout(q) \/ Open(q) \/ Claimed(q) \/ Deadline(q) \/ Publish(q) \/ Register(q)
    \/ Tidy(q) \/ DropFinal(q) \/ Release(q)

Next ==
    \/ Start
    \/ \E q \in Requests :
          \/ Add(q) \/ Making(q) \/ ChildWrites(q)
          \/ \E found \in BOOLEAN : LookupEnds(q, found)
          \/ \E ok \in BOOLEAN : ChildCloses(q, ok)
          \/ DeleteFinds(q) \/ DeleteRow(q) \/ DeleteFile(q) \/ WholeFile(q)
          \/ \E kind \in {"cleanup", "regenerate"} : ScanRow(kind, q)
    \/ WholeBegins \/ WholeRows \/ WholeRecorded
    \/ \E kind \in {"cleanup", "regenerate"} : ScanBegins(kind)
    \/ Regenerate \/ CleanupLists \/ CleanupNotesActive \/ CleanupReadsAgain
    \/ (\E f \in scan["cleanup"].files : CleanupChecks(f)) \/ CleanupUnlinks \/ CleanupEnds
    \/ Crash

Spec == Init /\ [][Next]_vars

-----------------------------------------------------------------------------
(* Properties. *)

\* No other request ever had the file name of q.
OwnName(q) == \A p \in Requests \ {q} : req[p].step \in {"new", "queued"} \/ req[p].n # req[q].n

\* The rows have their files.
RegisteredHasFile ==
    ~stale => \A q \in rows \ whole.read : OwnName(q) => final[req[q].n] = "complete"

\* Nothing is under way, and no crash is left to be cleaned up after.
AllQuiet ==
    /\ \A q \in Requests : Over(q) \/ req[q].step = "new"
    /\ \A q \in Requests : dele[q] \in {"no", "over"}
    /\ whole.step = "idle" /\ ~stale /\ \A kind \in DOMAIN scan : scan[kind].step = "idle"

\* Registered thumbnails and files on the disk match, both ways.  A registered thumbnail has
\* its complete file through any clean-up that runs while it is made (fileCleanup), unless its
\* recording is being deleted; after a crash in such a deletion the next clean-up sees to it.
\* Left out are names that have been used before.  And nothing is left of a failed request, of
\* a deletion, or, once a clean-up has been through, of a crash: when all is quiet every file
\* belongs to a row.
FilesMatchRows ==
    /\ RegisteredHasFile
    /\ AllQuiet => temp = {} /\ \A n \in Suffixes : final[n] # "none" => \E q \in rows : req[q].n = n
=============================================================================
