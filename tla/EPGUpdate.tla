----------------------------- MODULE EPGUpdate -----------------------------
(***************************************************************************)
(* The update of the programme guide: EPGUpdater (one update cycle at a     *)
(* time, for a start of the change feed, for saved changes, or as polling), *)
(* EPGUpdateManageModel (the queue of changes and how it is saved), the end *)
(* of the feed in the two change adapters, and the restart of the updater   *)
(* process by EPGUpdateExecutorManageModel.                                 *)
(*                                                                          *)
(* The tuner server is Mirakurun, which reports every change of a           *)
(* programme, or mirakc, which reports the services whose programmes have   *)
(* changed.  An element of Programs is a programme of the former, a service *)
(* of the latter.  The programmes are those with a name, of a service that  *)
(* is known: the service queue is not modelled, nor the deletion of         *)
(* programmes that are over.  A "redefine" is a "remove".                   *)
(***************************************************************************)
EXTENDS Naturals, Sequences, FiniteSets, SequencesExt

CONSTANTS
    Programs,
    Near,               \* programmes that begin within 5 minutes
    Products,           \* the products the server may be: "mirakurun", "mirakc"
    MaxChanges,         \* bound: changes on the server
    MaxConnects,        \* bound: starts of the feed
    MaxEnds,            \* bound: regular ends of the feed
    MaxFailures,        \* bound: failed requests and database writes
    MaxCrashes          \* bound: crashes of the updater process

ASSUME EPGAssumption ==
    /\ Near \subseteq Programs /\ Products \subseteq {"mirakurun", "mirakc"}
    /\ {MaxChanges, MaxConnects, MaxEnds, MaxFailures, MaxCrashes} \subseteq Nat

VARIABLES
    product,            \* what the tuner server is
    server,             \* programme -> its version, 0 if there is none
    changes,            \* number of changes so far
    feed,               \* "open" or "closed"
    window,             \* MirakcChangeAdapter: "none", "open", "past"
    latest,             \* latestStreamSynchronizationRequest: number of the feed's starts
    aborted,            \* is that request aborted
    syncs,              \* streamSynchronizationQueue
    alive,              \* isEventStreamAlive
    pending,            \* isUpdateCyclePending
    due,                \* time since lastUpdatedTime: 0, 1 (an interval), 2 (one and a half)
    queue,              \* programQueue: sequence of [id, version], version 0 for a removal
    marks,              \* updatedOnAirServiceIds and updateServiceIds
    cycle,              \* the update cycle under way
    db,                 \* the table of programmes
    dirty,              \* has it changed since the operator process was told
    synced,             \* the last start of the feed whose synchronisation is over
    budget,             \* [ends, failures, crashes] so far
    excuse              \* what has happened that the code does not make good

feedVars == <<feed, window, latest, aborted>>
stored == <<db, dirty>>
vars == <<product, server, changes, feedVars, syncs, alive, pending, due, queue, marks, cycle, stored,
          synced, budget, excuse>>

Idle == [kind |-> "none", step |-> "idle", gen |-> 0, full |-> FALSE, batch |-> <<>>,
         ids |-> {}, snapshot |-> [p \in Programs |-> 0], renewed |-> {}]
NoMarks == [onair |-> {}, updated |-> {}]
Spend(what, bound) == budget[what] < bound /\ budget' = [budget EXCEPT ![what] = @ + 1]

-----------------------------------------------------------------------------
(* The tuner server and its feed. *)

\* consumeChange for Mirakurun: the change is queued.
ReportProgram(p, version) ==
    /\ product = "mirakurun"
    /\ queue' = Append(queue, [id |-> p, version |-> version])
    /\ UNCHANGED <<window, marks, cycle, excuse>>

\* consumeChange for mirakc: the service is marked.
Mark(p, kind) ==
    /\ marks' = [marks EXCEPT ![kind] = @ \cup {p}]
    /\ cycle' = IF cycle.kind = kind THEN [cycle EXCEPT !.renewed = @ \cup {p}] ELSE cycle

ReportOnAir(p) ==
    /\ product = "mirakc"
    /\ Mark(p, "onair")
    /\ UNCHANGED <<window, queue, excuse>>

\* The synchronisation of the connection there is has its answer: it will not see what
\* changes from now on.
Answered ==
    \/ synced = latest
    \/ cycle.kind = "sync" /\ cycle.step = "commit" /\ cycle.gen = latest

\* MirakcChangeAdapter: epg.programs-updated is passed over from the first one on that came
\* on this connection, and for a second after it.  What was passed over is lost unless the
\* synchronisation of the connection is still to ask.
ReportUpdated(p) ==
    /\ product = "mirakc"
    /\ window' = IF window = "none" THEN "open" ELSE window
    /\ IF window = "past" THEN Mark(p, "updated") /\ UNCHANGED excuse
       ELSE /\ excuse' = IF Answered THEN excuse \cup {"thinned"} ELSE excuse
            /\ UNCHANGED <<marks, cycle>>
    /\ UNCHANGED queue

WindowPasses ==
    /\ window = "open"
    /\ window' = "past"
    /\ UNCHANGED <<product, server, changes, feed, latest, aborted, syncs, alive, pending, due, queue, marks,
                   cycle, stored, synced, budget, excuse>>

\* A programme appears, changes or goes; the feed reports it if it is open.
Change(p) ==
    /\ changes < MaxChanges
    /\ changes' = changes + 1
    /\ \E version \in {changes + 1} \cup (IF server[p] = 0 THEN {} ELSE {0}) :
          /\ server' = [server EXCEPT ![p] = version]
          /\ IF feed = "closed"
             THEN UNCHANGED <<window, queue, marks, cycle, excuse>>
             ELSE ReportProgram(p, version) \/ ReportOnAir(p) \/ ReportUpdated(p)
    /\ UNCHANGED <<product, feed, latest, aborted, syncs, alive, pending, due, stored, synced, budget>>

\* runEventStreamAttempt succeeds: STREAM_STARTED, requestStreamSynchronization.
Connect ==
    /\ feed = "closed" /\ latest < MaxConnects
    /\ feed' = "open" /\ window' = "none"
    /\ latest' = latest + 1 /\ aborted' = FALSE
    /\ syncs' = Append(syncs, latest + 1)
    /\ excuse' = IF queue = <<>> /\ cycle.batch = <<>> THEN excuse ELSE excuse \cup {"old queue"}
    /\ UNCHANGED <<product, server, changes, alive, pending, due, queue, marks, cycle, stored, synced, budget>>

\* The feed breaks: STREAM_ABORTED.  mirakc's adapter reports every end in this way.
Abort ==
    /\ feed = "open"
    /\ feed' = "closed" /\ aborted' = TRUE /\ alive' = FALSE
    /\ UNCHANGED <<product, server, changes, window, latest, syncs, pending, due, queue, marks, cycle, stored,
                   synced, budget, excuse>>

\* The end of Mirakurun's feed without an error: finish without notifyAborted.
CleanEnd ==
    /\ feed = "open" /\ product = "mirakurun" /\ Spend("ends", MaxEnds)
    /\ feed' = "closed"
    /\ excuse' = excuse \cup {"clean end"}
    /\ UNCHANGED <<product, server, changes, window, latest, aborted, syncs, alive, pending, due, queue, marks,
                   cycle, stored, synced>>

-----------------------------------------------------------------------------
(* Saving the queue: saveProgram. *)

LastOf(batch, p) == LET at == {i \in 1 .. Len(batch) : batch[i].id = p}
                    IN  batch[CHOOSE i \in at : \A j \in at : j <= i]
Touched(batch) == {batch[i].id : i \in 1 .. Len(batch)}

\* deleteIndex and updateIndex: the last change of every programme.
Removed(batch) == {p \in Touched(batch) : LastOf(batch, p).version = 0}
Updated(batch) == Touched(batch) \ Removed(batch)

NeedToSave(batch, full) ==
    full \/ \E i \in 1 .. Len(batch) : batch[i].version # 0 /\ batch[i].id \in Near

\* A postponed batch is put back reduced, removals first.
Reduced(batch) ==
    LET events(ids) == [i \in 1 .. Cardinality(ids) |-> LastOf(batch, SetToSeq(ids)[i])]
    IN  events(Removed(batch)) \o events(Updated(batch))

\* ProgramDB.update: a row that cannot be deleted, or neither inserted nor updated, is logged
\* and passed over (lost); the others are committed.
Saved(batch, lost) ==
    [p \in Programs |-> IF p \in Touched(batch) \ lost THEN LastOf(batch, p).version ELSE db[p]]

\* Variant: what could not be saved is put behind what has come since.
PutBack_Behind(batch) == queue \o batch

PutBack(batch) == batch \o queue

-----------------------------------------------------------------------------
(* The update cycle. *)

\* A cycle asks the server for ids: all of them (updateAll) or marked services
\* (saveMirakcServices).
Asking(kind, gen, full, ids) ==
    [Idle EXCEPT !.kind = kind, !.step = "fetch", !.gen = gen, !.full = full, !.ids = ids]

\* The rest of a cycle after the on-air services: the other services are saved if the
\* interval is over; the operator process is told before they are.
AfterOnAir(full) ==
    /\ due' = IF full THEN 0 ELSE due
    /\ cycle' = IF full /\ marks'.updated # {} THEN Asking("updated", 0, TRUE, marks'.updated) ELSE Idle

\* updateMirakurunEventStream up to the database write.
BeginSave(full) ==
    IF queue # <<>> /\ NeedToSave(queue, full)
    THEN /\ cycle' = [Idle EXCEPT !.kind = "program", !.step = "save", !.full = full, !.batch = queue]
         /\ queue' = <<>>
         /\ UNCHANGED <<due, dirty>>
    ELSE /\ queue' = Reduced(queue)
         /\ due' = IF full THEN 0 ELSE due
         /\ dirty' = (dirty /\ ~full)
         /\ UNCHANGED cycle

\* runUpdateCycle for a start of the feed.
BeginSync ==
    /\ cycle.step = "idle" /\ syncs # <<>>
    /\ cycle' = Asking("sync", Head(syncs), FALSE, Programs)
    /\ syncs' = Tail(syncs)
    /\ UNCHANGED <<product, server, changes, feedVars, alive, pending, due, queue, marks, stored, synced, budget,
                   excuse>>

\* runUpdateCycle, updatePeriodically.
BeginPeriodic ==
    /\ cycle.step = "idle" /\ syncs = <<>> /\ pending
    /\ pending' = FALSE
    /\ LET full == due >= 1
       IN  CASE alive /\ product = "mirakurun" ->
                  BeginSave(full) /\ UNCHANGED marks
             [] alive /\ product = "mirakc" /\ marks.onair # {} ->
                  /\ cycle' = Asking("onair", 0, full, marks.onair)
                  /\ UNCHANGED <<due, queue, marks, dirty>>
             [] alive /\ product = "mirakc" /\ marks.onair = {} ->
                  /\ UNCHANGED marks
                  /\ AfterOnAir(full)
                  /\ dirty' = (dirty /\ ~full)
                  /\ UNCHANGED queue
             [] ~alive /\ due = 2 ->
                  /\ cycle' = Asking("poll", 0, TRUE, Programs)
                  /\ UNCHANGED <<due, queue, marks, dirty>>
             [] OTHER ->
                  UNCHANGED <<due, queue, marks, cycle, dirty>>
    /\ UNCHANGED <<product, server, changes, feedVars, syncs, alive, db, synced, budget, excuse>>

\* The server has answered.
Fetch ==
    /\ cycle.step = "fetch"
    /\ cycle' = [cycle EXCEPT !.step = "commit", !.snapshot = server, !.renewed = {}]
    /\ UNCHANGED <<product, server, changes, feedVars, syncs, alive, pending, due, queue, marks, stored, synced,
                   budget, excuse>>

\* Variant: an old synchronisation brings the feed to life.
Enlivened_Unasked(gen) == TRUE

\* synchronizeStartedStream: is the feed alive after the synchronisation of start gen.
Enlivened(gen) == gen = latest /\ ~aborted

\* synchronizeStartedStream after updateAll, successful or not.
SyncOver ==
    /\ alive' = (alive \/ Enlivened(cycle.gen))
    /\ synced' = cycle.gen
    /\ due' = 0
    /\ cycle' = Idle
    /\ UNCHANGED marks

\* Variant: polling does not tell the operator process.
PollOver_Silent(told) ==
    /\ due' = 0 /\ cycle' = Idle
    /\ dirty' = told
    /\ UNCHANGED <<alive, synced, marks>>

\* updatePeriodically after updateAll: notify.
PollOver(told) ==
    /\ due' = 0 /\ cycle' = Idle
    /\ dirty' = FALSE
    /\ UNCHANGED <<alive, synced, marks>>

\* The database is written, ProgramDB.insert, and what follows in the same cycle.
Commit ==
    LET written == [p \in Programs |-> IF p \in cycle.ids THEN cycle.snapshot[p] ELSE db[p]]
        differs == dirty \/ written # db
        lost    == IF cycle.kind \in {"onair", "updated"} /\ cycle.renewed # {}
                   THEN {"mark lost"} ELSE {}
    IN  /\ cycle.step = "commit"
        /\ db' = written
        /\ excuse' = excuse \cup lost
        /\ CASE cycle.kind = "sync"  -> SyncOver /\ dirty' = FALSE
             [] cycle.kind = "poll"  -> PollOver(differs)
             [] cycle.kind = "onair" ->
                  /\ marks' = [marks EXCEPT !.onair = @ \ cycle.ids]
                  /\ AfterOnAir(cycle.full)
                  /\ dirty' = (differs /\ ~cycle.full)
                  /\ UNCHANGED <<alive, synced>>
             [] cycle.kind = "updated" ->
                  /\ marks' = [marks EXCEPT !.updated = @ \ cycle.ids]
                  /\ dirty' = differs /\ cycle' = Idle
                  /\ UNCHANGED <<alive, synced, due>>
        /\ UNCHANGED <<product, server, changes, feedVars, syncs, pending, queue, budget>>

\* The request or the write has failed.
CycleFails ==
    /\ cycle.step \in {"fetch", "commit"} /\ Spend("failures", MaxFailures)
    /\ IF cycle.kind = "sync"
       THEN SyncOver /\ excuse' = excuse \cup {"sync failed"}
       ELSE /\ cycle' = Idle
            /\ UNCHANGED <<alive, synced, due, marks, excuse>>
    /\ UNCHANGED <<product, server, changes, feedVars, syncs, pending, queue, stored>>

\* saveProgram has written, and notify if the interval was over.
SaveOver(lost) ==
    /\ cycle.step = "save"
    /\ db' = Saved(cycle.batch, lost)
    /\ dirty' = ((dirty \/ db' # db) /\ ~cycle.full)
    /\ due' = IF cycle.full THEN 0 ELSE due
    /\ cycle' = Idle
    /\ UNCHANGED <<product, server, changes, feedVars, syncs, alive, pending, queue, marks, synced>>

SaveDone == SaveOver({}) /\ UNCHANGED <<budget, excuse>>

\* Some rows fail: the save counts as done, and what they should hold is not put back.
SavePartly ==
    /\ Spend("failures", MaxFailures)
    /\ \E lost \in SUBSET Touched(cycle.batch) : lost # {} /\ SaveOver(lost)
    /\ excuse' = excuse \cup {"row failed"}

\* The transaction fails, and all of the batch is put back.
SaveFails ==
    /\ cycle.step = "save" /\ Spend("failures", MaxFailures)
    /\ queue' = PutBack(cycle.batch)
    /\ cycle' = Idle
    /\ UNCHANGED <<product, server, changes, feedVars, syncs, alive, pending, due, marks, stored, synced, excuse>>

\* The 10 s interval: requestUpdateCycle.
Tick ==
    /\ ~pending
    /\ pending' = TRUE
    /\ UNCHANGED <<product, server, changes, feedVars, syncs, alive, due, queue, marks, cycle, stored, synced,
                   budget, excuse>>

TimePasses ==
    /\ due < 2
    /\ due' = due + 1
    /\ UNCHANGED <<product, server, changes, feedVars, syncs, alive, pending, queue, marks, cycle, stored, synced,
                   budget, excuse>>

\* The updater process ends and the operator process starts another (settleTerminal).
Crash ==
    /\ Spend("crashes", MaxCrashes)
    /\ feed' = "closed" /\ window' = "none" /\ aborted' = FALSE
    /\ syncs' = <<>> /\ alive' = FALSE /\ pending' = FALSE /\ due' = 2
    /\ queue' = <<>> /\ marks' = NoMarks /\ cycle' = Idle
    /\ UNCHANGED <<product, server, changes, latest, stored, synced, excuse>>

-----------------------------------------------------------------------------
Init ==
    /\ product \in Products
    /\ server = [p \in Programs |-> 0] /\ changes = 0
    /\ feed = "closed" /\ window = "none" /\ latest = 0 /\ aborted = FALSE
    /\ syncs = <<>> /\ alive = FALSE /\ pending = FALSE /\ due = 2
    /\ queue = <<>> /\ marks = NoMarks /\ cycle = Idle
    /\ db = [p \in Programs |-> 0] /\ dirty = FALSE /\ synced = 0
    /\ budget = [what \in {"ends", "failures", "crashes"} |-> 0] /\ excuse = {}

Next ==
    \/ \E p \in Programs : Change(p)
    \/ WindowPasses \/ Connect \/ Abort \/ CleanEnd
    \/ BeginSync \/ BeginPeriodic \/ Fetch \/ Commit \/ CycleFails \/ SaveDone \/ SavePartly \/ SaveFails
    \/ Tick \/ TimePasses \/ Crash

Spec == Init /\ [][Next]_vars

\* Intervals go by, requests and writes end.  The server need not accept a feed.
FairSpec ==
    /\ Spec /\ WF_vars(Tick) /\ WF_vars(TimePasses) /\ WF_vars(BeginSync) /\ WF_vars(BeginPeriodic)
    /\ WF_vars(Fetch) /\ WF_vars(Commit) /\ WF_vars(SaveDone)

-----------------------------------------------------------------------------
(* Properties. *)

\* The feed counts as alive only after a synchronisation that belongs to the connection
\* there is: a late synchronisation never revives a feed that has broken or begun anew
\* (synchronizeStartedStream).  The regular end of a feed is the exception.
AliveIsSynced ==
    alive /\ "clean end" \notin excuse => feed = "open" /\ ~aborted /\ synced = latest

\* Once the server rests the table agrees with it, whatever was postponed, put back, passed
\* over before the synchronisation, lost with a broken feed or a crash, or failed as a whole.
\* The exceptions are the causes kept in excuse, which the code does not make good by
\* itself: among them a save of which single rows failed.
Converges == <>(excuse # {}) \/ <>[](db = server)

\* When the table has changed the operator process is told, although only full updates do so.
ChangesAnnounced == dirty ~> ~dirty
=============================================================================
