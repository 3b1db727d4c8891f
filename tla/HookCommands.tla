---------------------------- MODULE HookCommands ----------------------------
(***************************************************************************)
(* External commands: ExternalCommandManageModel, which runs the configured *)
(* command of an event in a child process, one after the other through      *)
(* PromiseQueue, and the part of EventSetter that offers it commands at the *)
(* start and the end of a recording and at the deletion of a reservation.   *)
(*                                                                          *)
(* A command looks up what it needs in the database (preparation), starts   *)
(* its child and waits for its exit; a deadline ends the command in either  *)
(* phase.  Neither the database nor the child is sure to answer.            *)
(*                                                                          *)
(* A child that cannot be started reports an error before any timer runs:   *)
(* that is a failed preparation here.  An error reported for a signal that  *)
(* could not be sent changes nothing while the child lives.                 *)
(***************************************************************************)
EXTENDS Naturals, Sequences

CONSTANTS
    Reserves,           \* reservations, each recorded once
    Configured,         \* the kinds for which config.yml has a command
    MaxPending          \* hookCommandMaxPending

ASSUME HookAssumption ==
    Configured \subseteq {"start", "end", "delete"} /\ MaxPending \in Nat

VARIABLES
    row,                \* reservation -> is it in the table
    past,               \* reservation -> is its end time reached
    recording,          \* reservation -> "waiting", "running", "tagging", "over"
    starting,           \* the reservations whose start handler awaits the tags
    held,               \* heldReserveDeletions
    waited,             \* reservation -> "no", "held", "limit": how its deletion was treated
    offered,            \* the commands offered so far, in order
    queue,              \* PromiseQueue: commands not started, their number is pendingHookCommandCount
    running,            \* PromiseQueue: the job whose promise is open, or None
    active,             \* activeHookCommand
    job                 \* command -> ActiveHookCommand

events == <<row, past, recording, starting, held, waited>>
runner == <<running, active, job>>
vars == <<events, offered, queue, runner>>

None == <<>>
Commands == Configured \X Reserves
Timers == {"deadline", "termination", "kill"}

-----------------------------------------------------------------------------
(* Offering commands. *)

\* add...Cmd: what config.yml does not name is passed over.
Offer(kind, r) == IF kind \in Configured THEN <<<<kind, r>>>> ELSE <<>>

\* addCommand, for the commands a handler offers: what the queue has no room for is dropped.
Add(commands) ==
    LET room == MaxPending - Len(queue)
    IN  /\ offered' = offered \o commands
        /\ queue' = queue \o SubSeq(commands, 1, IF Len(commands) < room THEN Len(commands) ELSE room)

\* releaseReserveDeletions, after the commands of the same handler.
ReleaseReserveDeletions(r, before) ==
    /\ Add(before \o IF r \in held THEN Offer("delete", r) ELSE <<>>)
    /\ held' = held \ {r}

EndPassed(r) ==
    /\ ~past[r]
    /\ past' = [past EXCEPT ![r] = TRUE]
    /\ UNCHANGED <<row, recording, starting, held, waited, offered, queue, runner>>

\* setStartRecording: the command is offered at once, or after the tags are set if the
\* reservation has some (it may be edited between the two handlers).
StartRecording(r) ==
    /\ recording[r] = "waiting"
    /\ recording' = [recording EXCEPT ![r] = "running"]
    /\ \/ starting' = starting \cup {r} /\ UNCHANGED <<offered, queue>>
       \/ Add(Offer("start", r)) /\ UNCHANGED starting
    /\ UNCHANGED <<row, past, held, waited, runner>>

StartTagged(r) ==
    /\ r \in starting
    /\ starting' = starting \ {r}
    /\ Add(Offer("start", r))
    /\ UNCHANGED <<row, past, recording, held, waited, runner>>

\* Variant: the held deletions are released before the tags are set.
FinishRecording_ReleaseFirst(r) ==
    /\ recording[r] = "running"
    /\ \/ /\ recording' = [recording EXCEPT ![r] = "tagging"]
          /\ ReleaseReserveDeletions(r, <<>>)
       \/ /\ recording' = [recording EXCEPT ![r] = "over"]
          /\ ReleaseReserveDeletions(r, Offer("end", r))
    /\ UNCHANGED <<row, past, starting, waited, runner>>

\* setFinishRecording: the recorder leaves the index (RecordingManageModel's own handler of
\* the event) before the tags are awaited.  If the thumbnail or a conversion cannot be asked
\* for, the handler ends there: no command, and held deletions are left to the limit.
FinishRecording(r) ==
    /\ recording[r] = "running"
    /\ \/ /\ \E next \in {"tagging", "over"} : recording' = [recording EXCEPT ![r] = next]
          /\ UNCHANGED <<held, offered, queue>>
       \/ /\ recording' = [recording EXCEPT ![r] = "over"]
          /\ ReleaseReserveDeletions(r, Offer("end", r))
    /\ UNCHANGED <<row, past, starting, waited, runner>>

FinishTagged(r) ==
    /\ recording[r] = "tagging"
    /\ recording' = [recording EXCEPT ![r] = "over"]
    /\ ReleaseReserveDeletions(r, Offer("end", r))
    /\ UNCHANGED <<row, past, starting, waited, runner>>

\* setRecordingFailed, setCancelPrepRecording, setPrepRecordingFailed: no await; a recording
\* that failed before it had a row offers no command.
RecordingFailed(r) ==
    /\ recording[r] \in {"waiting", "running"}
    /\ recording' = [recording EXCEPT ![r] = "over"]
    /\ \E commands \in {<<>>, Offer("end", r)} : ReleaseReserveDeletions(r, commands)
    /\ UNCHANGED <<row, past, starting, waited, runner>>

\* selectDeletionsAwaitingRecordingEnd; hasReserve is the recorder's place in the index.
AwaitsRecordingEnd(r) == past[r] /\ recording[r] \in {"waiting", "running"}

\* reserveEvent.setUpdated with a deletion: offered now, or held.
ReserveDeleted(r) ==
    /\ row[r]
    /\ row' = [row EXCEPT ![r] = FALSE]
    /\ IF AwaitsRecordingEnd(r)
       THEN /\ held' = held \cup {r}
            /\ waited' = [waited EXCEPT ![r] = "held"]
            /\ UNCHANGED <<offered, queue>>
       ELSE /\ Add(Offer("delete", r))
            /\ UNCHANGED <<held, waited>>
    /\ UNCHANGED <<past, recording, starting, runner>>

\* RESERVE_DELETION_HOLD_LIMIT_MS; the timer is cleared when the deletion is released.
HoldLimit(r) ==
    /\ r \in held
    /\ waited' = [waited EXCEPT ![r] = "limit"]
    /\ ReleaseReserveDeletions(r, <<>>)
    /\ UNCHANGED <<row, past, recording, starting, runner>>

-----------------------------------------------------------------------------
(* Running commands. *)

Fresh == [stage |-> "open", prep |-> TRUE, child |-> "none", timedOut |-> FALSE,
          timers |-> {"deadline"}, signals |-> {}]

\* PromiseQueue begins the next job.  startCommand gives the new job the promise of the
\* active command if there is one: the new command is then not run at all.
StartCommand ==
    /\ queue # <<>> /\ running = None
    /\ running' = Head(queue)
    /\ queue' = Tail(queue)
    /\ IF active = None
       THEN active' = Head(queue) /\ job' = [job EXCEPT ![Head(queue)] = Fresh]
       ELSE UNCHANGED <<active, job>>
    /\ UNCHANGED <<events, offered>>

CanSettle(c) == active = c /\ job[c].stage = "open"

\* finalize: the timers are cleared; the rest is left to a microtask.
Finalized(j) == IF j.stage = "released" THEN j ELSE [j EXCEPT !.stage = "finalized", !.timers = {}]

\* Between finalize and its microtask no timer fires and no exit is reported.
NoMicrotask == \A c \in Commands : job[c].stage # "finalized"

\* releaseCommand.
ReleaseCommand(c) ==
    /\ job[c].stage = "finalized"
    /\ job' = [job EXCEPT ![c].stage = "released"]
    /\ active' = IF active = c THEN None ELSE active
    /\ running' = None
    /\ UNCHANGED <<events, offered, queue>>

\* The database or the start of the child fails; or a preparation that is no longer wanted
\* ends: failCommand, isPreparingCommand.
PreparationEnds(c) ==
    /\ job[c].prep
    /\ job' = [job EXCEPT ![c] = IF CanSettle(c) THEN [Finalized(@) EXCEPT !.prep = FALSE]
                                                 ELSE [@ EXCEPT !.prep = FALSE]]
    /\ UNCHANGED <<events, offered, queue, running, active>>

\* Variant: the timeout is not looked at again after the last await.
IsPreparingCommand_Unasked(c) == job[c].prep

IsPreparingCommand(c) == job[c].prep /\ CanSettle(c)

\* spawn and superviseChild; a child may have exited at once.
Spawn(c) ==
    /\ IsPreparingCommand(c)
    /\ \E exited \in BOOLEAN :
          job' = [job EXCEPT ![c] =
              IF exited THEN [Finalized(@) EXCEPT !.prep = FALSE, !.child = "gone"]
                        ELSE [@ EXCEPT !.prep = FALSE, !.child = "alive"]]
    /\ UNCHANGED <<events, offered, queue, running, active>>

\* The exit of a child: finishFromChildExit, while the listener is there.
ChildExit(c) ==
    /\ NoMicrotask
    /\ job[c].child = "alive"
    /\ job' = [job EXCEPT ![c] =
          [(IF @.timedOut \/ CanSettle(c) THEN Finalized(@) ELSE @) EXCEPT !.child = "gone"]]
    /\ UNCHANGED <<events, offered, queue, running, active>>

\* Variant: a command without a child is left to its preparation.
TimedOut_WaitForPreparation(j) ==
    IF j.child = "none"
    THEN [j EXCEPT !.stage = "settled", !.timedOut = TRUE]
    ELSE [j EXCEPT !.stage = "settled", !.timedOut = TRUE, !.signals = @ \cup {"SIGINT"},
                   !.timers = @ \cup {"termination"}]

\* The rest of timeoutCommand once the timeout has settled the command.
TimedOut(j) ==
    IF j.child = "none"
    THEN [Finalized(j) EXCEPT !.timedOut = TRUE]
    ELSE [j EXCEPT !.stage = "settled", !.timedOut = TRUE, !.signals = @ \cup {"SIGINT"},
                   !.timers = @ \cup {"termination"}]

\* What each timer does: timeoutCommand, finishTerminationGrace, finishKillGrace.
Fired(c, timer, j) ==
    CASE timer = "deadline"    -> IF CanSettle(c) THEN TimedOut(j) ELSE j
      [] timer = "termination" -> IF active # c \/ j.stage \in {"finalized", "released"} THEN j
                                  ELSE [j EXCEPT !.signals = @ \cup {"SIGKILL"},
                                                 !.timers = @ \cup {"kill"}]
      [] timer = "kill"        -> IF active # c THEN j ELSE Finalized(j)

TimerFires(c, timer) ==
    /\ NoMicrotask
    /\ timer \in job[c].timers
    /\ LET rest == [job[c] EXCEPT !.timers = @ \ {timer}]
       IN  job' = [job EXCEPT ![c] = Fired(c, timer, rest)]
    /\ UNCHANGED <<events, offered, queue, running, active>>

-----------------------------------------------------------------------------
Init ==
    /\ row = [r \in Reserves |-> TRUE] /\ past = [r \in Reserves |-> FALSE]
    /\ recording = [r \in Reserves |-> "waiting"] /\ starting = {} /\ held = {}
    /\ waited = [r \in Reserves |-> "no"]
    /\ offered = <<>> /\ queue = <<>> /\ running = None /\ active = None
    /\ job = [c \in Commands |-> [Fresh EXCEPT !.stage = "new", !.prep = FALSE, !.timers = {}]]

Next ==
    \/ \E r \in Reserves :
          \/ EndPassed(r) \/ StartRecording(r) \/ StartTagged(r) \/ FinishRecording(r)
          \/ FinishTagged(r) \/ RecordingFailed(r) \/ ReserveDeleted(r) \/ HoldLimit(r)
    \/ StartCommand
    \/ \E c \in Commands :
          \/ ReleaseCommand(c) \/ PreparationEnds(c) \/ Spawn(c) \/ ChildExit(c)
          \/ \E timer \in Timers : TimerFires(c, timer)

Spec == Init /\ [][Next]_vars

\* Timers fire and microtasks run.  Databases, children and recordings need not answer.
FairSpec ==
    /\ Spec /\ WF_vars(StartCommand)
    /\ \A c \in Commands :
          /\ WF_vars(ReleaseCommand(c))
          /\ \A timer \in Timers : WF_vars(TimerFires(c, timer))
    /\ \A r \in Reserves : WF_vars(HoldLimit(r))

-----------------------------------------------------------------------------
(* Properties. *)

\* A child that lives and is not watched any more (its command has been given up, the next
\* one may run) has been sent SIGINT and SIGKILL (finishKillGrace): in particular no child is
\* started by a preparation that ends after its command was given up.
NoStrayChild ==
    \A c \in Commands :
        job[c].child = "alive" /\ active # c => job[c].signals = {"SIGINT", "SIGKILL"}

\* The deletion of a reservation that was held for the end of its recording is announced
\* after the end of the recording, unless the limit has passed, even when the handler of the
\* end waits for the tags first.
HeldDeletionOrder ==
    \A i, j \in 1 .. Len(offered) :
        \A r \in Reserves :
            waited[r] = "held" /\ offered[i] = <<"end", r>> /\ offered[j] = <<"delete", r>> => i < j

\* Every command that the queue takes is over one day, even if neither the database nor the
\* child ever answers: the deadline and the two graces see to it.
CommandsEnd ==
    \A c \in Commands : (\E i \in 1 .. Len(queue) : queue[i] = c) ~> job[c].stage = "released"
=============================================================================
