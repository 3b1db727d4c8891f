------------------------- MODULE RecordingSchedule -------------------------
(***************************************************************************)
(* RecordingCandidateRegistry and RecordingScheduleController: which        *)
(* reservations are to be recorded, in which phase each of them is, and the *)
(* single timer that wakes the controller for the next deadline.            *)
(*                                                                          *)
(* Node runs one turn at a time: within a turn the microtasks come first.   *)
(* `evaluate` never awaits, so its steps (Eval...) exclude everything else; *)
(* a step that starts a new turn asks for Quiet.  The controller launches   *)
(* its callbacks without waiting for them: they are appended to `tail`, the *)
(* chain of session operations that RecordingManage works off.              *)
(*                                                                          *)
(* The sessions map of the controller always agrees with the registry in    *)
(* generation and phase (ensureSession), so a candidate carries its token.  *)
(***************************************************************************)
EXTENDS Integers, Sequences, FiniteSets

CONSTANTS
    Reserves,           \* reservation ids
    TimeSpecified,      \* the reservations with isTimeSpecified
    Lead,               \* PREPARATION_LEAD_MS
    ScanInterval,       \* SCAN_INTERVAL_MS
    EndMargin           \* config.timeSpecifiedEndMargin

ASSUME ScheduleAssumption ==
    /\ TimeSpecified \subseteq Reserves
    /\ Lead \in Nat /\ EndMargin \in Nat
    /\ ScanInterval \in Nat \ {0}

VARIABLES
    now,                \* the wall clock
    candidates,         \* reservation -> [row, gen, token, phase], gen 0: no candidate
    generation,         \* generationCounter
    sessionToken,       \* sessionTokenCounter
    ends,               \* timeSpecifiedEnds: reservation -> [gen, token, dueAt], gen 0: none
    queue,              \* queuedMutations: sequence of [source, res, row]
    started,            \* whether the controller runs
    evaluating,         \* evaluationRunning
    wake,               \* [scheduled: microtaskScheduled, microtask: a microtask with the
                        \*  current token is queued, timer: when the armed wake fires]
    tail,               \* session operations launched and not yet done
    busy                \* what the first of them is awaiting: [what, rec]

schedule == <<candidates, generation, sessionToken, ends, queue, started, evaluating, wake>>

NoTime == -1
NoRow == [startAt |-> 0, endAt |-> 0, isSkip |-> TRUE]
NoCandidate == [row |-> NoRow, gen |-> 0, token |-> 0, phase |-> "None"]
NoEnd == [gen |-> 0, token |-> 0, dueAt |-> 0]
NotBusy == [what |-> "none", rec |-> 0]

IsCandidate(i) == candidates[i].gen # 0

\* The phases in which a time-specified end is awaited; the phases between the first
\* data and the registration of the recording are part of "Recording" here.
ActivePhases == {"Recording"}
TerminalPhases == {"Completed", "Cancelled"}

\* Nothing is left to run in this turn.
Quiet ==
    /\ ~evaluating
    /\ ~wake.microtask
    /\ tail = <<>> \/ busy # NotBusy

-----------------------------------------------------------------------------
(* Waking up. *)

InvalidateScheduledWake == [scheduled |-> FALSE, microtask |-> FALSE, timer |-> NoTime]

\* wake(): evaluate at once.
WakeNow ==
    IF started THEN wake' = InvalidateScheduledWake /\ evaluating' = TRUE
    ELSE UNCHANGED <<wake, evaluating>>

\* requestCoalescedEvaluation: evaluate in a microtask; the armed timer is given up.
RequestCoalescedEvaluation ==
    wake' = IF ~started \/ wake.scheduled THEN wake
            ELSE [scheduled |-> TRUE, microtask |-> TRUE, timer |-> NoTime]

\* acceptMutation of the controller, for a sequence of mutations of single rows.
AcceptMutations(ms) ==
    /\ queue' = queue \o ms
    /\ RequestCoalescedEvaluation

\* schedulerOwnedDeadlines, for the time-specified ends es
Deadlines(es) ==
    {candidates[i].row.startAt - Lead : i \in {j \in Reserves : candidates[j].phase = "Waiting"}}
    \cup {es[i].dueAt : i \in {j \in Reserves : es[j].gen # 0}}

\* Mutant: the delay is always the scan interval.
BugComputeNextDelay(at, deadlines) == ScanInterval

ComputeNextDelay(at, deadlines) ==
    LET until == {IF d > at THEN d - at ELSE 0 : d \in deadlines} \cup {ScanInterval}
    IN  CHOOSE m \in until : \A d \in until : m <= d

\* armSingleWake
ArmSingleWake(deadlines) ==
    LET delay == ComputeNextDelay(now, deadlines)
    IN  wake' = IF delay = 0 THEN [scheduled |-> TRUE, microtask |-> TRUE, timer |-> NoTime]
                ELSE [wake EXCEPT !.timer = now + delay]

-----------------------------------------------------------------------------
(* Compare-and-swap on the phase of a session. *)

\* tryTransitionSession: the candidate after the attempt.
Transition(c, gen, token, from, to) ==
    IF c.gen = gen /\ c.token = token /\ c.phase \in from THEN [c EXCEPT !.phase = to] ELSE c

\* isActiveTimeSpecifiedMilestone, for a candidate c of reservation i
IsActiveEnd(i, c, gen) == c.gen = gen /\ i \in TimeSpecified /\ c.phase \in ActivePhases

\* registerTimeSpecifiedEnd when c is the candidate of reservation i: the end is
\* stored and the controller evaluates at once.
RegisterTimeSpecifiedEnd(i, c, gen, token, dueAt) ==
    IF c.gen # 0 /\ c.token = token /\ IsActiveEnd(i, c, gen)
      THEN /\ ends' = [ends EXCEPT ![i] = [gen |-> gen, token |-> token, dueAt |-> dueAt]]
           /\ WakeNow
      ELSE UNCHANGED <<ends, wake, evaluating>>

\* A recorder that is bound to (gen, token) takes back its time-specified end and
\* moves its session on.
LeavePhase(i, gen, token, from, to) ==
    LET moved == Transition(candidates[i], gen, token, from, to)
        had   == ends[i].gen # 0 /\ ends[i].gen = gen /\ ends[i].token = token
    IN  /\ candidates' = [candidates EXCEPT ![i] = moved]
        /\ ends' = IF had \/ (moved # candidates[i] /\ to \in TerminalPhases)
                     THEN [ends EXCEPT ![i] = NoEnd] ELSE ends
        /\ IF had THEN WakeNow ELSE UNCHANGED <<wake, evaluating>>
        /\ UNCHANGED <<generation, sessionToken, queue, started>>

-----------------------------------------------------------------------------
(* evaluate. *)

Launch(op) == tail' = Append(tail, op)

\* applyUpsert: an update keeps the session and its phase, an insert starts a new
\* one; a row that is skipped (or overlapped) is no candidate.
ApplyUpsert(m) ==
    LET i    == m.res
        prev == candidates[i]
        keep == m.source = "update" /\ IsCandidate(i)
        c    == [row |-> m.row, gen |-> generation + 1,
                 token |-> IF keep THEN prev.token ELSE sessionToken + 1,
                 phase |-> IF keep THEN prev.phase ELSE "Waiting"]
    IN  IF m.row.isSkip
          THEN /\ candidates' = [candidates EXCEPT ![i] = NoCandidate]
               /\ IF IsCandidate(i)
                    THEN Launch([kind |-> "remove", res |-> i, gen |-> generation + 1,
                                 token |-> 0, prev |-> prev.token])
                    ELSE UNCHANGED tail
               /\ UNCHANGED sessionToken
          ELSE /\ candidates' = [candidates EXCEPT ![i] = c]
               /\ sessionToken' = IF keep THEN sessionToken ELSE sessionToken + 1
               /\ Launch([kind |-> "apply", res |-> i, gen |-> c.gen, token |-> c.token,
                          prev |-> prev.token])

ApplyRemove(m) ==
    /\ candidates' = [candidates EXCEPT ![m.res] = NoCandidate]
    /\ Launch([kind |-> "remove", res |-> m.res, gen |-> generation + 1, token |-> 0,
               prev |-> candidates[m.res].token])
    /\ UNCHANGED sessionToken

\* applyQueuedWork, one mutation.
EvalApply ==
    /\ evaluating /\ queue # <<>>
    /\ queue' = Tail(queue)
    /\ generation' = generation + 1
    /\ ends' = [ends EXCEPT ![Head(queue).res] = NoEnd]
    /\ IF Head(queue).source = "delete" THEN ApplyRemove(Head(queue)) ELSE ApplyUpsert(Head(queue))
    /\ UNCHANGED <<started, evaluating, wake>>

\* Mutant: a preparation is due only at its very time.
BugIsWaitingDue(i) == candidates[i].phase = "Waiting" /\
    (candidates[i].row.endAt <= now \/ candidates[i].row.startAt - Lead = now)

IsWaitingDue(i) == candidates[i].phase = "Waiting" /\
    (candidates[i].row.endAt <= now \/ candidates[i].row.startAt - Lead <= now)

\* dispatchDuePreparations, one candidate: it is over, or its preparation begins.
EvalPrepare(i) ==
    LET c == candidates[i]
    IN  /\ evaluating /\ queue = <<>>
        /\ IsWaitingDue(i)
        /\ IF c.row.endAt <= now
             THEN /\ candidates' = [candidates EXCEPT ![i].phase = "Completed"]
                  /\ UNCHANGED tail
             ELSE /\ candidates' = [candidates EXCEPT ![i].phase = "Preparing"]
                  /\ Launch([kind |-> "prepare", res |-> i, gen |-> c.gen, token |-> c.token,
                             prev |-> 0])
        /\ UNCHANGED <<generation, sessionToken, ends, queue, started, evaluating, wake>>

IsEndDue(i) ==
    ends[i].gen # 0 /\ IsActiveEnd(i, candidates[i], ends[i].gen) /\ ends[i].dueAt <= now

\* dispatchDueTimeSpecifiedEnds, one end.
EvalEnd(i) ==
    /\ evaluating /\ queue = <<>>
    /\ \A j \in Reserves : ~IsWaitingDue(j)
    /\ IsEndDue(i)
    /\ candidates' = [candidates EXCEPT ![i].phase = "Finishing"]
    /\ ends' = [ends EXCEPT ![i] = NoEnd]
    /\ Launch([kind |-> "finish", res |-> i, gen |-> ends[i].gen, token |-> ends[i].token,
               prev |-> 0])
    /\ UNCHANGED <<generation, sessionToken, queue, started, evaluating, wake>>

\* The end of evaluate: ends that are not active any more are dropped, and the next
\* wake is armed.
EvalDone ==
    LET left == [i \in Reserves |-> IF IsActiveEnd(i, candidates[i], ends[i].gen) /\ ends[i].gen # 0
                                      THEN ends[i] ELSE NoEnd]
    IN  /\ evaluating /\ queue = <<>>
        /\ \A j \in Reserves : ~IsWaitingDue(j) /\ ~IsEndDue(j)
        /\ evaluating' = FALSE
        /\ ends' = left
        /\ ArmSingleWake(Deadlines(left))
        /\ UNCHANGED <<candidates, generation, sessionToken, queue, started, tail>>

\* The microtask and the timer with the current controller token.
MicrotaskRuns ==
    /\ ~evaluating /\ wake.microtask
    /\ wake' = [wake EXCEPT !.scheduled = FALSE, !.microtask = FALSE]
    /\ evaluating' = TRUE
    /\ UNCHANGED <<candidates, generation, sessionToken, ends, queue, started, tail>>
TimerFires ==
    /\ Quiet
    /\ wake.timer # NoTime /\ wake.timer <= now
    /\ wake' = [wake EXCEPT !.timer = NoTime]
    /\ evaluating' = TRUE
    /\ UNCHANGED <<candidates, generation, sessionToken, ends, queue, started, tail>>
=============================================================================
