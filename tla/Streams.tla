------------------------------- MODULE Streams -------------------------------
(***************************************************************************)
(* Live HLS streams: StreamManageModel, which starts and stops them, its    *)
(* HlsStreamIdAllocator, and what one stream does itself                    *)
(* (LiveStreamBaseModel, StreamBaseModel): it takes a tuner, runs a writer  *)
(* process, and owns the files with its id, which it deletes before it      *)
(* writes and after it has stopped.                                         *)
(*                                                                          *)
(* A start and a stop of one stream run at the same time; the awaits are    *)
(* the places where they are cut.  The execution right that both take and   *)
(* give back at once is one step.  There are 2^53 ids: running out of them  *)
(* is not modelled, a start without a free id in the window 0 .. MaxId      *)
(* waits for its deadline.                                                  *)
(***************************************************************************)
EXTENDS Naturals, Sequences, FiniteSets

CONSTANTS
    Streams,            \* stream objects, each started once
    MaxId,              \* bound: ids are 0 .. MaxId, the next after MaxId is 0
    Leftovers,          \* sets of ids whose files may be left when the process starts
    MaxFailures         \* bound: failures of tuner, process and file system

Nobody == "nobody"

ASSUME StreamsAssumption ==
    Nobody \notin Streams /\ MaxId \in Nat /\ Leftovers \subseteq SUBSET (0 .. MaxId) /\ MaxFailures \in Nat

VARIABLES
    active,             \* stream -> ActiveStream: [id, step, settled, state, finalize]
    streams,            \* id -> the stream that has it, or Nobody
    allocator,          \* [cursor, startup, current, sequence, applied]
    capture,            \* stream -> its snapshot: [sequence, ids]
    session,            \* stream -> LiveStartSession: [step, stopped, tuner, writer, finalizer]
    finalization,       \* stream -> HlsStopFinalization: [pending, attempted]
    owners,             \* hlsArtifactOwners: id -> stream or Nobody
    turns,              \* hlsArtifactCleanupTurns: id -> sequence of [by, for, at]
    tuners,             \* the streams whose connection to the tuner server is open
    writers,            \* the streams whose writer process runs
    files,              \* id -> whose files there are
    failures

manager == <<active, streams, allocator, capture>>
artifacts == <<owners, turns, files>>
world == <<tuners, writers>>
vars == <<manager, session, finalization, artifacts, world, failures>>

Ids == 0 .. MaxId
NextId(id) == IF id = MaxId THEN 0 ELSE id + 1
Distance(from, to) == IF to >= from THEN to - from ELSE MaxId - from + to + 1
IdOf(s) == active[s].id
Fail == failures < MaxFailures /\ failures' = failures + 1

-----------------------------------------------------------------------------
(* HlsStreamIdAllocator. *)

\* The ids that are taken: streams there are, files found by this or an earlier listing.
Unavailable(snapshot, current) ==
    {id \in Ids : streams[id] # Nobody} \cup allocator.startup \cup current \cup snapshot

\* findAvailable: the first free id from the cursor on.
IsFirstFree(id, taken) ==
    /\ id \in Ids \ taken
    /\ \A other \in Ids \ taken : Distance(allocator.cursor, id) <= Distance(allocator.cursor, other)

\* captureSnapshot: the listing of the directory is asked for ...
AskSnapshot(s) ==
    /\ active[s].step = "new"
    /\ active' = [active EXCEPT ![s].step = "listing"]
    /\ allocator' = [allocator EXCEPT !.sequence = @ + 1]
    /\ capture' = [capture EXCEPT ![s].sequence = allocator.sequence + 1]
    /\ UNCHANGED <<streams, session, finalization, artifacts, world, failures>>

\* ... it is read ...
ReadDirectory(s) ==
    /\ active[s].step = "listing"
    /\ active' = [active EXCEPT ![s].step = "listed"]
    /\ capture' = [capture EXCEPT ![s].ids = {id \in Ids : files[id] # {}}]
    /\ UNCHANGED <<streams, allocator, session, finalization, artifacts, world, failures>>

\* ... and arrives, which may be after that of a later start: then it is not kept.  The
\* start takes its id (startInternal) and goes on to wait for its turn.
ReserveId(s) ==
    LET newer   == capture[s].sequence > allocator.applied
        current == IF newer THEN capture[s].ids ELSE allocator.current
    IN  /\ active[s].step = "listed"
        /\ \E id \in Ids :
              /\ IsFirstFree(id, Unavailable(capture[s].ids, current))
              /\ allocator' = [allocator EXCEPT !.cursor = NextId(id), !.current = current,
                                  !.applied = IF newer THEN capture[s].sequence ELSE @]
              /\ active' = [active EXCEPT ![s].step = "turn", ![s].id = id, ![s].state = "starting"]
              /\ streams' = [streams EXCEPT ![id] = s]
        /\ capture' = [capture EXCEPT ![s] = [sequence |-> 0, ids |-> {}]]
        /\ UNCHANGED <<session, finalization, artifacts, world, failures>>

\* withStartDeadline: the start is rejected before it has an id.
SnapshotDeadline(s) ==
    /\ active[s].step \in {"listing", "listed"}
    /\ active' = [active EXCEPT ![s].step = "over", ![s].settled = "rejected"]
    /\ capture' = [capture EXCEPT ![s] = [sequence |-> 0, ids |-> {}]]
    /\ UNCHANGED <<streams, allocator, session, finalization, artifacts, world, failures>>

-----------------------------------------------------------------------------
(* StreamManageModel.  a is ActiveStream of s after a step. *)

CanSettleStart(s) ==
    active[s].settled = "no" /\ active[s].state = "starting" /\ streams[IdOf(s)] = s

\* Variant: a stop does not answer the start.
Stopped_NoAnswer(s, a) ==
    IF a.finalize # "none" THEN a
    ELSE IF streams[IdOf(s)] # s THEN [a EXCEPT !.finalize = "done"]
    ELSE [a EXCEPT !.finalize = "turn", !.state = "stopping"]

\* stopActive and the first part of finalizeActive.
Stopped(s, a) ==
    IF a.finalize # "none" THEN a
    ELSE IF streams[IdOf(s)] # s THEN [a EXCEPT !.finalize = "done"]
    ELSE [a EXCEPT !.finalize = "turn", !.state = "stopping",
                   !.settled = IF @ = "no" THEN "rejected" ELSE @]

\* rejectStart.
Rejected(s, a) ==
    IF CanSettleStart(s) THEN Stopped(s, [a EXCEPT !.settled = "rejected"]) ELSE a

StartTimeout(s) ==
    /\ CanSettleStart(s)
    /\ active' = [active EXCEPT ![s] = Rejected(s, @)]
    /\ UNCHANGED <<streams, allocator, capture, session, finalization, artifacts, world, failures>>

\* stop and stopAll, by a user.
Stop(s) ==
    /\ active[s].state = "starting" /\ streams[IdOf(s)] = s
    /\ active' = [active EXCEPT ![s] = Stopped(s, @)]
    /\ UNCHANGED <<streams, allocator, capture, session, finalization, artifacts, world, failures>>

\* runStart: the turn has come.
StartTurn(s) ==
    /\ active[s].step = "turn"
    /\ active' = [active EXCEPT ![s].step = IF CanSettleStart(s) THEN "recheck" ELSE "over"]
    /\ UNCHANGED <<streams, allocator, capture, session, finalization, artifacts, world, failures>>

\* recheckManagedIdReservation: an id with files is given up for another one; a free one
\* is used.  stream.start: prepStreamDir takes the files with the id over.
Recheck(s) ==
    /\ active[s].step = "recheck"
    /\ \/ /\ ~CanSettleStart(s)
          /\ active' = [active EXCEPT ![s].step = "over"]
          /\ UNCHANGED <<streams, allocator, session, owners, failures>>
       \/ /\ CanSettleStart(s) /\ files[IdOf(s)] = {}
          /\ active' = [active EXCEPT ![s].step = "start"]
          /\ session' = [session EXCEPT ![s].step = "directory"]
          /\ owners' = [owners EXCEPT ![IdOf(s)] = s]
          /\ UNCHANGED <<streams, allocator, failures>>
       \/ /\ CanSettleStart(s) /\ files[IdOf(s)] # {}
          /\ LET current == allocator.current \cup {IdOf(s)} IN
             \E id \in Ids :
                /\ IsFirstFree(id, Unavailable(current, current))
                /\ allocator' = [allocator EXCEPT !.cursor = NextId(id), !.current = current]
                /\ streams' = [streams EXCEPT ![IdOf(s)] = Nobody, ![id] = s]
                /\ active' = [active EXCEPT ![s].id = id]
          /\ UNCHANGED <<session, owners, failures>>
       \/ /\ CanSettleStart(s) /\ Fail
          /\ allocator' = [allocator EXCEPT !.current = @ \cup {IdOf(s)}]
          /\ active' = [active EXCEPT ![s] = Rejected(s, [@ EXCEPT !.step = "over"])]
          /\ UNCHANGED <<streams, session, owners>>
    /\ UNCHANGED <<capture, finalization, turns, files, world>>

\* stream.start returns: the start is answered, unless that was done before; a is
\* ActiveStream of s.
Returned(s, a) == [a EXCEPT !.step = "over", !.settled = IF CanSettleStart(s) THEN "resolved" ELSE @]

\* stream.start throws, after what it had is closed.
StartThrows(s) ==
    /\ active[s].step = "start" /\ session[s].step = "failed" /\ session[s].finalizer = "done"
    /\ active' = [active EXCEPT ![s] = Rejected(s, [@ EXCEPT !.step = "over"])]
    /\ UNCHANGED <<streams, allocator, capture, session, finalization, artifacts, world, failures>>

-----------------------------------------------------------------------------
(* LiveStreamBaseModel and the files (StreamBaseModel). *)

CanSessionAdopt(s) == ~session[s].stopped

Enqueue(s, for) == turns' = [turns EXCEPT ![IdOf(s)] = Append(@, [by |-> s, for |-> for, at |-> "waits"])]
Release(s, own) == IF own[IdOf(s)] = s THEN [own EXCEPT ![IdOf(s)] = Nobody] ELSE own

\* startSession goes to its catch: stopSession, finalizeSession; x is its session.
Broken(x) == [x EXCEPT !.step = "failed", !.stopped = TRUE,
                       !.finalizer = IF @ = "none" THEN "stopping" ELSE @]

\* checkStreamDir, then the files left from others are to be deleted.
DirectoryReady(s) ==
    /\ session[s].step = "directory"
    /\ \/ /\ session' = [session EXCEPT ![s].step = "prepare"]
          /\ Enqueue(s, "prepare") /\ UNCHANGED <<owners, failures>>
       \/ /\ Fail /\ owners' = Release(s, owners)
          /\ session' = [session EXCEPT ![s] = Broken(@)] /\ UNCHANGED turns
    /\ UNCHANGED <<manager, finalization, files, world>>

\* setMirakurunStream: a connection that comes too late is closed at once; one that has
\* ended by then stops the stream.
TunerOpens(s) ==
    /\ session[s].step = "tuner"
    /\ \/ /\ CanSessionAdopt(s) /\ tuners' = tuners \cup {s}
          /\ session' = [session EXCEPT ![s].step = "writer", ![s].tuner = TRUE]
          /\ finalization' = [finalization EXCEPT ![s].pending = TRUE] /\ UNCHANGED <<active, failures>>
       \/ /\ ~CanSessionAdopt(s)
          /\ session' = [session EXCEPT ![s] = Broken(@)]
          /\ UNCHANGED <<active, tuners, finalization, failures>>
       \/ /\ Fail /\ session' = [session EXCEPT ![s] = Broken(@)]
          /\ UNCHANGED <<active, tuners, finalization>>
       \/ /\ CanSessionAdopt(s) /\ Fail /\ tuners' = tuners \cup {s}
          /\ session' = [session EXCEPT ![s] = Broken([@ EXCEPT !.tuner = TRUE])]
          /\ active' = [active EXCEPT ![s] = Stopped(s, @)] /\ UNCHANGED finalization
    /\ UNCHANGED <<streams, allocator, capture, artifacts, writers>>

\* completeHlsWriterStart.
WriterStartCompleted(s) ==
    /\ finalization' = [finalization EXCEPT ![s].pending = FALSE]
    /\ owners' = IF finalization[s].attempted THEN Release(s, owners) ELSE owners

\* Variant: a writer that comes after the stop is adopted all the same.
WriterStarts_Adopted(s) ==
    /\ session[s].step = "writer"
    /\ writers' = writers \cup {s}
    /\ session' = [session EXCEPT ![s].step = "up", ![s].writer = TRUE]
    /\ active' = [active EXCEPT ![s] = Returned(s, @)]
    /\ WriterStartCompleted(s)
    /\ UNCHANGED <<streams, allocator, capture, turns, files, tuners, failures>>

\* startStreamProcess: createHlsWriter returns a running process, and the start is done.
WriterStarts(s) ==
    /\ session[s].step = "writer"
    /\ writers' = writers \cup {s}
    /\ IF CanSessionAdopt(s)
       THEN /\ session' = [session EXCEPT ![s].step = "up", ![s].writer = TRUE]
            /\ active' = [active EXCEPT ![s] = Returned(s, @)]
            /\ WriterStartCompleted(s)
       ELSE session' = [session EXCEPT ![s].step = "late"] /\ UNCHANGED <<active, finalization, owners>>
    /\ UNCHANGED <<streams, allocator, capture, turns, files, tuners, failures>>

WriterFails(s) ==
    /\ session[s].step = "writer" /\ Fail
    /\ WriterStartCompleted(s)
    /\ session' = [session EXCEPT ![s] = Broken(@)]
    /\ UNCHANGED <<manager, turns, files, world>>

\* stopLateHlsWriterAndCleanupArtifacts.
LateWriterStops(s) ==
    /\ session[s].step = "late"
    /\ writers' = writers \ {s}
    /\ session' = [session EXCEPT ![s].step = "lateFiles"]
    /\ Enqueue(s, "late")
    /\ UNCHANGED <<manager, finalization, owners, files, tuners, failures>>

\* A writer process writes (external).
WriterWrites(s) ==
    /\ s \in writers /\ s \notin files[IdOf(s)]
    /\ files' = [files EXCEPT ![IdOf(s)] = @ \cup {s}]
    /\ UNCHANGED <<manager, session, finalization, owners, turns, world, failures>>

\* The tuner's stream ends and is closed; then, or by itself, the process ends, and its
\* exit stops the stream (emitExitForSession).
TunerEnds(s) ==
    /\ session[s].step \in {"writer", "up"} /\ session[s].tuner /\ CanSessionAdopt(s)
    /\ tuners' = tuners \ {s}
    /\ session' = [session EXCEPT ![s].tuner = FALSE]
    /\ UNCHANGED <<manager, finalization, artifacts, writers, failures>>

ProcessExits(s) ==
    /\ session[s].step = "up" /\ CanSessionAdopt(s) /\ s \in writers
    /\ writers' = writers \ {s}
    /\ active' = [active EXCEPT ![s] = Stopped(s, @)]
    /\ UNCHANGED <<streams, allocator, capture, session, finalization, artifacts, tuners, failures>>

\* stop: the session ends, and disposeSession starts once.
SessionStops(s) ==
    session' = IF session[s].step = "none" THEN session
               ELSE [session EXCEPT ![s].stopped = TRUE,
                                    ![s].finalizer = IF @ = "none" THEN "stopping" ELSE @]

\* streamStopTimer: nobody asked to keep the stream; the exit event stops it in the manager.
StopTimer(s) ==
    /\ session[s].step = "up" /\ CanSessionAdopt(s)
    /\ SessionStops(s)
    /\ active' = [active EXCEPT ![s] = Stopped(s, @)]
    /\ UNCHANGED <<streams, allocator, capture, finalization, artifacts, world, failures>>

\* disposeSession: what the session has is closed, then its files are to be deleted.
Dispose(s) ==
    /\ session[s].finalizer = "stopping"
    /\ tuners' = IF session[s].tuner THEN tuners \ {s} ELSE tuners
    /\ writers' = IF session[s].writer THEN writers \ {s} ELSE writers
    /\ session' = [session EXCEPT ![s].finalizer = "files", ![s].tuner = FALSE, ![s].writer = FALSE]
    /\ Enqueue(s, "dispose")
    /\ UNCHANGED <<manager, finalization, owners, files, failures>>

\* runHlsArtifactCleanupTurn: one after the other; the deletion takes a while ...
TurnBegins(id) ==
    /\ turns[id] # <<>> /\ Head(turns[id]).at = "waits" /\ owners[id] = Head(turns[id]).by
    /\ turns' = [turns EXCEPT ![id][1].at = "deletes"]
    /\ UNCHANGED <<manager, session, finalization, owners, files, world, failures>>

\* Variant: whose the files are is not asked.
Deletes_Unasked(id, turn) == turn.at = "deletes" \/ owners[id] # turn.by

\* ... and files that belong to another stream by now are left alone.
Deletes(id, turn) == turn.at = "deletes"
Leaves(id, turn) == turn.at = "waits" /\ owners[id] # turn.by

\* The deletion ends; the one it was for goes on: prepStreamDir returns, disposeSession
\* ends (cleanupHlsArtifacts), or the late writer's start ends.
TurnEnds(id) ==
    LET turn == Head(turns[id])
        s    == turn.by
    IN  /\ turns[id] # <<>>
        /\ turns' = [turns EXCEPT ![id] = Tail(@)]
        /\ \/ Leaves(id, turn) /\ UNCHANGED <<files, failures>>
           \/ Deletes(id, turn) /\ files' = [files EXCEPT ![id] = {}] /\ UNCHANGED failures
           \/ Deletes(id, turn) /\ Fail /\ UNCHANGED files
        /\ CASE turn.for = "prepare" ->
                  /\ session' = [session EXCEPT ![s] =
                        IF CanSessionAdopt(s) THEN [@ EXCEPT !.step = "tuner"] ELSE Broken(@)]
                  /\ UNCHANGED <<finalization, owners>>
             [] turn.for = "dispose" ->
                  /\ session' = [session EXCEPT ![s].finalizer = "done"]
                  /\ finalization' = [finalization EXCEPT ![s].attempted = TRUE]
                  /\ owners' = IF finalization[s].pending THEN owners ELSE Release(s, owners)
             [] turn.for = "late" ->
                  /\ session' = [session EXCEPT ![s] = Broken(@)]
                  /\ finalization' = [finalization EXCEPT ![s] = [pending |-> FALSE, attempted |-> TRUE]]
                  /\ owners' = Release(s, owners)
        /\ UNCHANGED <<manager, world>>

-----------------------------------------------------------------------------
(* finalizeActive, after its turn has come. *)

FinalizeTurn(s) ==
    /\ active[s].finalize = "turn"
    /\ active' = [active EXCEPT ![s].finalize = "resources"]
    /\ SessionStops(s)
    /\ UNCHANGED <<streams, allocator, capture, finalization, artifacts, world, failures>>

FinalizeEnds(s) ==
    /\ active[s].finalize = "resources" /\ session[s].finalizer \in {"none", "done"}
    /\ active' = [active EXCEPT ![s].finalize = "done"]
    /\ streams' = [streams EXCEPT ![IdOf(s)] = Nobody]
    /\ allocator' = [allocator EXCEPT !.cursor = NextId(IdOf(s))]
    /\ UNCHANGED <<capture, session, finalization, artifacts, world, failures>>

-----------------------------------------------------------------------------

\* beginInitialization deleted what it could.
Init ==
    /\ active = [s \in Streams |-> [id |-> 0, step |-> "new", settled |-> "no",
                                    state |-> "none", finalize |-> "none"]]
    /\ streams = [id \in Ids |-> Nobody]
    /\ \E ids \in Leftovers :
          /\ allocator = [cursor |-> 0, startup |-> ids, current |-> {}, sequence |-> 0, applied |-> 0]
          /\ files = [id \in Ids |-> IF id \in ids THEN {Nobody} ELSE {}]
    /\ capture = [s \in Streams |-> [sequence |-> 0, ids |-> {}]]
    /\ session = [s \in Streams |-> [step |-> "none", stopped |-> FALSE, tuner |-> FALSE,
                                     writer |-> FALSE, finalizer |-> "none"]]
    /\ finalization = [s \in Streams |-> [pending |-> FALSE, attempted |-> FALSE]]
    /\ owners = [id \in Ids |-> Nobody]
    /\ turns = [id \in Ids |-> <<>>]
    /\ tuners = {} /\ writers = {} /\ failures = 0

\* What goes on by itself once it was begun, without the tuner server and the processes.
Progress(s) ==
    \/ SnapshotDeadline(s) \/ StartTimeout(s) \/ StartTurn(s) \/ StartThrows(s)
    \/ Dispose(s) \/ FinalizeTurn(s) \/ FinalizeEnds(s)

Next ==
    \/ \E s \in Streams :
          \/ AskSnapshot(s) \/ ReadDirectory(s) \/ ReserveId(s) \/ Stop(s) \/ Recheck(s)
          \/ Progress(s)
          \/ DirectoryReady(s) \/ TunerOpens(s) \/ WriterStarts(s) \/ WriterFails(s)
          \/ LateWriterStops(s) \/ WriterWrites(s) \/ TunerEnds(s) \/ ProcessExits(s) \/ StopTimer(s)
    \/ \E id \in Ids : TurnBegins(id) \/ TurnEnds(id)

Spec == Init /\ [][Next]_vars

FairSpec ==
    /\ Spec
    /\ \A s \in Streams : WF_vars(Progress(s))
    /\ \A id \in Ids : WF_vars(TurnBegins(id) \/ TurnEnds(id))

-----------------------------------------------------------------------------
(* Properties. *)

\* Nothing of s goes on any more.
Gone(s) ==
    /\ active[s].step = "over" /\ active[s].finalize = "done"
    /\ session[s].finalizer \in {"none", "done"}

\* A stream that is gone holds neither a tuner nor a process, and left no file unless a
\* deletion failed or its id went to another stream: whatever the stop met, a start that
\* had not begun, that was waiting for the tuner server or for its process, or that failed.
NothingLeft ==
    \A s \in Streams : Gone(s) =>
        /\ s \notin tuners \cup writers
        /\ \/ failures > 0
           \/ \E t \in Streams \ {s} : session[t].step # "none" /\ IdOf(t) = IdOf(s)
           \/ s \notin files[IdOf(s)]

\* The files of a stream that is being watched are deleted by nobody else: not by the late
\* clean-up of a stream that had the id before, nor by one that was waiting for its turn.
WatchedFilesKept ==
    [][\A id \in Ids : \A s \in files[id] \ files'[id] :
          s \in Streams /\ session[s].step = "up" /\ CanSessionAdopt(s) => Head(turns[id]).by = s]_vars

\* A start that has asked for its id is answered, also when the tuner server or the
\* process never answer; and every stop comes to its end.
StreamsEnd ==
    \A s \in Streams :
        /\ active[s].step = "listing" ~> active[s].settled # "no"
        /\ active[s].finalize = "turn" ~> active[s].finalize = "done"
=============================================================================
