------------------------ MODULE RecordingManageProofs ------------------------
(***************************************************************************)
(* Theorems about RecordingManage and RecordingSchedule, for any finite set *)
(* of reservations and any number of changes and failures: the controller   *)
(* never loses a wake, and its candidates are those of the table.           *)
(***************************************************************************)
EXTENDS RecordingManage, SequenceTheorems, FiniteSetTheorems, WellFoundedInduction, TLAPS

-----------------------------------------------------------------------------
(* Types. *)

Phases == {"None", "Waiting", "Preparing", "RetryWaiting", "Recording", "Finishing", "Completed",
           "Cancelled", "StoppingForDeletion"}
Rows == [startAt : Nat, endAt : Nat, isSkip : BOOLEAN]
Candidates == [row : Rows, gen : Nat, token : Nat, phase : Phases]
Ends == [gen : Nat, token : Nat, dueAt : Int]
\* A row that is deleted is no row that is to be recorded.
Mutations ==
    {m \in [source : {"insert", "update", "delete"}, res : Reserves, row : Rows] :
        m.source = "delete" => m.row.isSkip}
Operations == [kind : {"apply", "remove", "prepare", "finish"}, res : Reserves, gen : Nat,
               token : Nat, prev : Nat]
Modes == {"idle", "preparing", "retrying", "lost", "recording", "finalizing", "reporting", "ended"}
Recorders == [res : Reserves, gen : Nat, token : Nat, row : Rows, mode : Modes, stop : BOOLEAN,
              registered : BOOLEAN, failed : {"no", "retryable", "fatal"}, deletion : BOOLEAN]
Failures == [res : Reserves, gen : Nat, token : Nat, row : Rows, kind : {"no", "retryable", "fatal"}]
Waits == {"none", "cancel", "reschedule", "drain", "endAt", "save"}

ScheduleOK ==
    /\ candidates \in [Reserves -> Candidates]
    /\ generation \in Nat /\ sessionToken \in Nat
    /\ ends \in [Reserves -> Ends] /\ queue \in Seq(Mutations)
    /\ started \in BOOLEAN /\ evaluating \in BOOLEAN
    /\ wake \in [scheduled : BOOLEAN, microtask : BOOLEAN, timer : Int]

ManagerOK ==
    /\ tail \in Seq(Operations) /\ busy \in [what : Waits, rec : Nat]
    /\ busy.what # "none" => busy.rec \in 1 .. Len(recorders) /\ tail # <<>>
    /\ recorders \in Seq(Recorders)
    /\ index \in [Reserves -> Nat] /\ \A i \in Reserves : index[i] <= Len(recorders)
    /\ indexToken \in [Reserves -> Nat]
    /\ claims \subseteq Reserves /\ failures \subseteq Failures
    /\ attempts \in [Reserves -> Nat]
    /\ deletionStops \in [Reserves -> Nat] /\ \A i \in Reserves : deletionStops[i] <= Len(recorders)

WorldOK ==
    /\ now \in Nat /\ table \in [Reserves -> Rows] /\ saved \in [Reserves -> Rows]
    /\ startup \in {"NotStarted", "Starting", "Reading", "Started", "Failed"}
    /\ pending \in Seq(Mutations)

\* The variables have the values that the code can give them.
TypeOK == ScheduleOK /\ ManagerOK /\ WorldOK

-----------------------------------------------------------------------------
(* The inductive invariant. *)

\* The flag of a queued microtask is never left behind, and only a controller that runs is
\* woken.
WakeInv ==
    /\ wake.scheduled <=> wake.microtask
    /\ evaluating => started
    /\ wake.microtask \/ wake.timer # NoTime => started
    /\ NoLostWake

\* A sequence of mutations says something of reservation i.
About(q, i) == \E n \in 1 .. Len(q) : q[n].res = i

\* The last mutation of each reservation has the row of the table t.
Announced(q, t) ==
    \A n \in 1 .. Len(q) :
        (\A m \in 1 .. Len(q) : m > n => q[m].res # q[n].res) => q[n].row = t[q[n].res]

\* A reservation without a mutation under way is a candidate with its row, or need be none.
Reflects(c, row, at) ==
    /\ c.gen # 0 => c.row = row /\ ~row.isSkip
    /\ ~row.isSkip /\ row.endAt > at => c.gen # 0

\* What the controller has, or what it will be given when it starts, agrees with the table.
RegistryInv ==
    /\ started <=> startup = "Started"
    /\ ~started => \A i \in Reserves : candidates[i].gen = 0
    /\ started => /\ Announced(queue, table)
                  /\ \A i \in Reserves : ~About(queue, i) => Reflects(candidates[i], table[i], now)
    /\ startup \in {"NotStarted", "Starting", "Reading"} => Announced(pending, table)
    /\ startup = "Reading" => \A i \in Reserves : ~About(pending, i) => saved[i] = table[i]

\* A failure that is being looked at has the row its session had.
FailureInv ==
    /\ \A i \in Reserves : candidates[i].gen <= generation
    /\ \A f \in failures :
          /\ f.gen # 0 /\ f.gen <= generation
          /\ candidates[f.res].gen = f.gen => candidates[f.res].row = f.row

IInv == TypeOK /\ WakeInv /\ RegistryInv /\ FailureInv

-----------------------------------------------------------------------------
(* Steps that leave the registry alone. *)

\* Each candidate keeps its generation and its row, and nothing is queued.
KeepsRegistry ==
    /\ \A i \in Reserves : /\ candidates'[i].gen = candidates[i].gen
                           /\ candidates'[i].row = candidates[i].row
    /\ UNCHANGED <<generation, queue, started>>

\* No deadline is added, or the controller evaluates at once.
KeepsDeadlines ==
    \/ WakeNow
    \/ /\ UNCHANGED <<wake, evaluating>>
       /\ \A i \in Reserves : /\ candidates'[i].phase = "Waiting" => candidates[i].phase = "Waiting"
                              /\ ends'[i].gen # 0 => ends'[i] = ends[i]

\* Such a step keeps what the invariants say of wakes, candidates and failures.
KeepsSchedule == ScheduleOK' /\ KeepsRegistry /\ KeepsDeadlines

\* With fewer deadlines the armed timer is early enough still.
LEMMA DeadlinesKeepWake ==
    ASSUME ScheduleOK, WakeInv, KeepsSchedule, now' = now
    PROVE  WakeInv'
<1>1. CASE WakeNow
  <2>1. CASE started
    BY <1>1, <2>1 DEF WakeNow, InvalidateScheduledWake, WakeInv, NoLostWake, KeepsSchedule,
          KeepsRegistry
  <2>2. CASE ~started
    BY <1>1, <2>2 DEF WakeNow, WakeInv, NoLostWake, KeepsSchedule, KeepsRegistry
  <2> QED BY <2>1, <2>2
<1>2. CASE ~WakeNow
  <2>1. /\ UNCHANGED <<wake, evaluating, queue, started>>
        /\ \A i \in Reserves : /\ candidates'[i].phase = "Waiting" => candidates[i].phase = "Waiting"
                               /\ ends'[i].gen # 0 => ends'[i] = ends[i]
                               /\ candidates'[i].row = candidates[i].row
    BY <1>2 DEF KeepsSchedule, KeepsRegistry, KeepsDeadlines
  <2>2. Deadlines(ends)' \subseteq Deadlines(ends)
    BY <2>1 DEF Deadlines
  <2> QED BY <2>1, <2>2 DEF WakeInv, NoLostWake
<1> QED BY <1>1, <1>2

\* The rows of table and candidates are what they were.
LEMMA RegistryKept ==
    ASSUME RegistryInv, KeepsRegistry,
           UNCHANGED <<now, table, startup, saved, pending>>
    PROVE  RegistryInv'
<1>1. Announced(queue, table)' <=> Announced(queue, table)
  BY DEF Announced, KeepsRegistry
<1>2. Announced(pending, table)' <=> Announced(pending, table)
  BY DEF Announced
<1>3. \A i \in Reserves : /\ About(queue, i)' <=> About(queue, i)
                          /\ About(pending, i)' <=> About(pending, i)
                          /\ Reflects(candidates[i], table[i], now)' <=> Reflects(candidates[i], table[i], now)
  BY DEF About, Reflects, KeepsRegistry
<1> QED BY <1>1, <1>2, <1>3 DEF RegistryInv, KeepsRegistry

\* The failures that are being looked at may get fewer.
LEMMA FailuresKept ==
    ASSUME TypeOK, FailureInv, KeepsRegistry, failures' \subseteq failures
    PROVE  FailureInv'
<1>1. \A f \in failures : f.res \in Reserves
  BY DEF TypeOK, ManagerOK, Failures
<1> QED BY <1>1 DEF FailureInv, KeepsRegistry

\* What a step of the recorders or of the session operations has to do for the invariant.
LEMMA InvariantKept ==
    ASSUME IInv, KeepsSchedule, ManagerOK', FailureInv',
           UNCHANGED <<now, table, startup, saved, pending>>
    PROVE  IInv'
<1>1. WorldOK'
  BY DEF IInv, TypeOK, WorldOK
<1>2. WakeInv'
  BY DeadlinesKeepWake DEF IInv, TypeOK
<1>3. RegistryInv'
  BY RegistryKept DEF IInv, KeepsSchedule
<1> QED BY <1>1, <1>2, <1>3 DEF IInv, TypeOK, KeepsSchedule

\* The same for a step that adds no failure and changes nothing outside.
LEMMA QuietStep ==
    ASSUME IInv, KeepsSchedule, ManagerOK', failures' \subseteq failures, UNCHANGED world
    PROVE  IInv'
<1>1. FailureInv'
  BY FailuresKept DEF IInv, KeepsSchedule
<1> QED BY <1>1, InvariantKept DEF world

\* Waking the controller leaves wake and evaluating of their types.
LEMMA WakeNowTypes ==
    ASSUME ScheduleOK, WakeNow
    PROVE  evaluating' \in BOOLEAN /\ wake' \in [scheduled : BOOLEAN, microtask : BOOLEAN, timer : Int]
<1>1. NoTime \in Int
  BY DEF NoTime
<1>2. InvalidateScheduledWake \in [scheduled : BOOLEAN, microtask : BOOLEAN, timer : Int]
  BY <1>1, Zenon DEF InvalidateScheduledWake
<1>3. CASE started
  BY <1>2, <1>3, Zenon DEF WakeNow
<1>4. CASE ~started
  BY <1>4, Zenon DEF WakeNow, ScheduleOK
<1> QED BY <1>3, <1>4

\* One candidate moves to another phase, and ends are taken back, or the controller is woken.
LEMMA MoveKeeps ==
    ASSUME ScheduleOK, NEW i \in Reserves, NEW d \in Candidates,
           d.gen = candidates[i].gen, d.row = candidates[i].row,
           candidates' = [candidates EXCEPT ![i] = d],
           UNCHANGED <<generation, sessionToken, queue, started>>, ends' \in [Reserves -> Ends],
           \/ WakeNow
           \/ /\ UNCHANGED <<wake, evaluating>>
              /\ d.phase = "Waiting" => candidates[i].phase = "Waiting"
              /\ \A j \in Reserves : ends'[j].gen # 0 => ends'[j] = ends[j]
    PROVE  KeepsSchedule
<1>1. /\ candidates' \in [Reserves -> Candidates] /\ candidates'[i] = d
      /\ \A j \in Reserves : j # i => candidates'[j] = candidates[j]
  BY DEF ScheduleOK
<1>2. evaluating' \in BOOLEAN /\ wake' \in [scheduled : BOOLEAN, microtask : BOOLEAN, timer : Int]
  BY WakeNowTypes DEF ScheduleOK
<1>3. ScheduleOK'
  BY <1>1, <1>2 DEF ScheduleOK
<1>4. KeepsRegistry
  BY <1>1 DEF KeepsRegistry
<1>5. KeepsDeadlines
  BY <1>1 DEF KeepsDeadlines
<1> QED BY <1>3, <1>4, <1>5 DEF KeepsSchedule

\* A step that leaves the schedule alone.
LEMMA NothingMoves ==
    ASSUME ScheduleOK, UNCHANGED schedule
    PROVE  KeepsSchedule
BY DEF ScheduleOK, schedule, KeepsSchedule, KeepsRegistry, KeepsDeadlines

\* A session moves to another phase, but not to wait, with the compare-and-swap.
LEMMA TransitionMoves ==
    ASSUME NEW c \in Candidates, NEW gen, NEW token, NEW from, NEW to \in Phases \ {"Waiting"}
    PROVE  LET d == Transition(c, gen, token, from, to)
           IN  /\ d \in Candidates /\ d.gen = c.gen /\ d.row = c.row /\ d.token = c.token
               /\ d.phase = "Waiting" => c.phase = "Waiting"
               /\ d # c => c.gen = gen /\ c.token = token
BY DEF Transition, Candidates

\* A recorder takes back its end and moves its session on.
LEMMA LeavePhaseMoves ==
    ASSUME ScheduleOK, NEW i \in Reserves, NEW gen, NEW token, NEW from,
           NEW to \in Phases \ {"Waiting"}, LeavePhase(i, gen, token, from, to)
    PROVE  KeepsSchedule
<1>1. candidates[i] \in Candidates /\ ends \in [Reserves -> Ends] /\ NoEnd \in Ends
  BY DEF ScheduleOK, NoEnd, Ends
<1>2. PICK d : d = Transition(candidates[i], gen, token, from, to)
  OBVIOUS
<1>3. /\ d \in Candidates /\ d.gen = candidates[i].gen /\ d.row = candidates[i].row
      /\ d.phase = "Waiting" => candidates[i].phase = "Waiting"
  BY <1>1, <1>2, TransitionMoves
<1>4. /\ candidates' = [candidates EXCEPT ![i] = d]
      /\ ends' = [ends EXCEPT ![i] = NoEnd] \/ ends' = ends
      /\ WakeNow \/ UNCHANGED <<wake, evaluating>>
      /\ UNCHANGED <<generation, sessionToken, queue, started>>
  BY <1>2 DEF LeavePhase
<1>5. ends' \in [Reserves -> Ends] /\ \A j \in Reserves : ends'[j].gen # 0 => ends'[j] = ends[j]
  BY <1>1, <1>4 DEF NoEnd
<1> QED BY <1>3, <1>4, <1>5, MoveKeeps

\* A time-specified end is stored, for a session that may move with it.
LEMMA RegisterMoves ==
    ASSUME ScheduleOK, NEW i \in Reserves, NEW d \in Candidates, NEW c, NEW gen \in Nat,
           NEW token \in Nat, NEW dueAt \in Int,
           d.gen = candidates[i].gen, d.row = candidates[i].row,
           d.phase = "Waiting" => candidates[i].phase = "Waiting",
           candidates' = [candidates EXCEPT ![i] = d],
           UNCHANGED <<generation, sessionToken, queue, started>>,
           RegisterTimeSpecifiedEnd(i, c, gen, token, dueAt)
    PROVE  KeepsSchedule
<1>1. ends \in [Reserves -> Ends] /\ [gen |-> gen, token |-> token, dueAt |-> dueAt] \in Ends
  BY DEF ScheduleOK, Ends
<1>2. ends' \in [Reserves -> Ends] /\ (WakeNow \/ UNCHANGED <<ends, wake, evaluating>>)
  BY <1>1 DEF RegisterTimeSpecifiedEnd
<1> QED BY <1>2, MoveKeeps

-----------------------------------------------------------------------------
(* Types of the manager's variables. *)

\* Recorders are changed or added, never removed.
RecordersKept == recorders' \in Seq(Recorders) /\ Len(recorders') >= Len(recorders)

\* A recorder of the sequence has the fields of a recorder.
LEMMA RecorderTypes ==
    ASSUME ManagerOK, NEW k \in 1 .. Len(recorders)
    PROVE  /\ recorders[k] \in Recorders
           /\ recorders[k].res \in Reserves /\ recorders[k].gen \in Nat /\ recorders[k].token \in Nat
           /\ recorders[k].row \in Rows /\ recorders[k].row.endAt \in Nat
           /\ recorders[k].failed \in {"no", "retryable", "fatal"}
<1>1. recorders[k] \in Recorders
  BY ElementOfSeq DEF ManagerOK
<1> QED BY <1>1 DEF Recorders, Rows

\* One recorder is changed.
LEMMA SetRecorder ==
    ASSUME ManagerOK, NEW k \in 1 .. Len(recorders), NEW new \in Recorders,
           recorders' = [recorders EXCEPT ![k] = new]
    PROVE  RecordersKept
<1>1. recorders \in Seq(Recorders) /\ Len(recorders) \in Nat
  BY LenProperties DEF ManagerOK
<1>2. recorders' \in Seq(Recorders) /\ Len(recorders') = Len(recorders)
  BY ONLY <1>1, k \in 1 .. Len(recorders), new \in Recorders,
     recorders' = [recorders EXCEPT ![k] = new], ExceptSeq
<1> QED BY <1>1, <1>2 DEF RecordersKept

\* One recorder goes on in another mode.
LEMMA SetMode ==
    ASSUME ManagerOK, NEW k \in 1 .. Len(recorders), NEW mode \in Modes,
           recorders' = [recorders EXCEPT ![k].mode = mode]
    PROVE  RecordersKept
<1>1. PICK new : new = [recorders[k] EXCEPT !.mode = mode]
  OBVIOUS
<1>2. new \in Recorders
  BY <1>1, RecorderTypes DEF Recorders
<1>3. recorders' = [recorders EXCEPT ![k] = new]
  BY <1>1
<1> QED BY <1>2, <1>3, SetRecorder

\* The recorders as they are.
LEMMA NoRecorderSet ==
    ASSUME ManagerOK, recorders' = recorders
    PROVE  RecordersKept
<1>1. recorders \in Seq(Recorders) /\ Len(recorders) \in Nat
  BY LenProperties DEF ManagerOK
<1> QED BY <1>1 DEF RecordersKept

\* The first session operation is done, or one is launched.
LEMMA TailTypes ==
    ASSUME ManagerOK
    PROVE  /\ tail # <<>> => Tail(tail) \in Seq(Operations) /\ Head(tail) \in Operations
           /\ \A op \in Operations : Append(tail, op) \in Seq(Operations) /\ Append(tail, op) # <<>>
<1>1. tail \in Seq(Operations)
  BY DEF ManagerOK
<1> QED BY ONLY <1>1, HeadTailProperties, AppendProperties

\* The index loses a reservation or keeps them.
IndexStep ==
    /\ index' = index \/ \E i \in Reserves : index' = [index EXCEPT ![i] = 0]
    /\ indexToken' = indexToken \/ \E i \in Reserves : indexToken' = [indexToken EXCEPT ![i] = 0]

\* A session operation goes on, is done, or begins to wait.
TailStep ==
    \/ UNCHANGED <<busy, tail>>
    \/ /\ OperationDone
       /\ tail # <<>>
    \/ /\ UNCHANGED tail /\ tail # <<>>
       /\ \E what \in Waits, k \in 1 .. Len(recorders) : busy' = [what |-> what, rec |-> k]

\* Such steps keep the manager's types.
LEMMA ManagerStep ==
    ASSUME ManagerOK, RecordersKept, IndexStep, TailStep,
           claims' \subseteq Reserves, failures' \subseteq Failures, attempts' \in [Reserves -> Nat],
           deletionStops' \in [Reserves -> Nat], \A i \in Reserves : deletionStops'[i] <= Len(recorders)
    PROVE  ManagerOK'
<1>1. /\ recorders' \in Seq(Recorders) /\ Len(recorders) \in Nat /\ Len(recorders') \in Nat
      /\ Len(recorders) <= Len(recorders')
  BY LenProperties DEF ManagerOK, RecordersKept
<1>2. tail' \in Seq(Operations)
  BY TailTypes DEF ManagerOK, OperationDone, TailStep
<1>3. /\ busy' \in [what : Waits, rec : Nat]
      /\ busy'.what # "none" => busy'.rec \in 1 .. Len(recorders) /\ tail' # <<>>
  <2>1. CASE UNCHANGED <<busy, tail>>
    BY <2>1 DEF ManagerOK
  <2>2. CASE OperationDone
    BY <2>2 DEF OperationDone, NotBusy, Waits
  <2>3. ASSUME UNCHANGED tail, tail # <<>>, NEW what \in Waits, NEW k \in 1 .. Len(recorders),
               busy' = [what |-> what, rec |-> k]
        PROVE  /\ busy' \in [what : Waits, rec : Nat]
               /\ busy'.what # "none" => busy'.rec \in 1 .. Len(recorders) /\ tail' # <<>>
    <3>1. k \in Nat
      BY <1>1
    <3> QED BY <2>3, <3>1
  <2> QED BY <2>1, <2>2, <2>3 DEF TailStep
<1>4. /\ index' \in [Reserves -> Nat] /\ indexToken' \in [Reserves -> Nat]
      /\ \A i \in Reserves : index'[i] <= Len(recorders)
  <2>1. \A f \in [Reserves -> Nat], j \in Reserves :
           /\ [f EXCEPT ![j] = 0] \in [Reserves -> Nat]
           /\ \A i \in Reserves : [f EXCEPT ![j] = 0][i] \in {0, f[i]}
    OBVIOUS
  <2>2. index \in [Reserves -> Nat] /\ indexToken \in [Reserves -> Nat]
        /\ \A i \in Reserves : index[i] <= Len(recorders)
    BY DEF ManagerOK
  <2>3. indexToken' \in [Reserves -> Nat]
    BY <2>1, <2>2 DEF IndexStep
  <2>4. index' \in [Reserves -> Nat] /\ \A i \in Reserves : index'[i] \in {0, index[i]}
    <3>1. CASE index' = index
      BY <2>2, <3>1
    <3>2. ASSUME NEW j \in Reserves, index' = [index EXCEPT ![j] = 0]
          PROVE  index' \in [Reserves -> Nat] /\ \A i \in Reserves : index'[i] \in {0, index[i]}
      BY <2>1, <2>2, <3>2
    <3> QED BY <3>1, <3>2 DEF IndexStep
  <2>5. 0 <= Len(recorders)
    BY <1>1
  <2>6. ASSUME NEW i \in Reserves PROVE index'[i] <= Len(recorders)
    <3>1. index[i] <= Len(recorders) /\ (index'[i] = 0 \/ index'[i] = index[i])
      BY <2>2, <2>4
    <3> QED BY ONLY <2>5, <3>1
  <2> QED BY <2>3, <2>4, <2>6
<1>5. /\ busy'.what # "none" => busy'.rec \in 1 .. Len(recorders')
      /\ \A i \in Reserves : index'[i] <= Len(recorders') /\ deletionStops'[i] <= Len(recorders')
  BY <1>1, <1>3, <1>4
<1> QED BY <1>1, <1>2, <1>3, <1>4, <1>5 DEF ManagerOK

\* A step that touches neither claims nor failures, attempts or stops for a deletion.
LEMMA PlainStep ==
    ASSUME ManagerOK, RecordersKept, IndexStep, TailStep,
           UNCHANGED <<claims, failures, attempts, deletionStops>>
    PROVE  ManagerOK' /\ failures' \subseteq failures
<1>1. /\ claims' \subseteq Reserves /\ failures' \subseteq Failures /\ attempts' \in [Reserves -> Nat]
      /\ deletionStops' \in [Reserves -> Nat] /\ \A i \in Reserves : deletionStops'[i] <= Len(recorders)
  BY DEF ManagerOK
<1> QED BY <1>1, ManagerStep

\* deleteRecording is such a change of the index.
LEMMA DeleteRecordingStep ==
    ASSUME NEW i \in Reserves, DeleteRecording(i)
    PROVE  IndexStep
BY DEF DeleteRecording, IndexStep

\* The invariant's parts that a step of a recorder uses.
LEMMA Parts ==
    ASSUME IInv
    PROVE  /\ ScheduleOK /\ ManagerOK /\ Len(recorders) \in Nat
           /\ \A i \in Reserves : candidates[i] \in Candidates /\ index[i] \in Nat
           /\ \A i \in Reserves : index[i] # 0 => index[i] \in 1 .. Len(recorders)
           /\ \A i \in Reserves : deletionStops[i] # 0 => deletionStops[i] \in 1 .. Len(recorders)
           /\ busy.what # "none" => busy.rec \in 1 .. Len(recorders) /\ tail # <<>>
           /\ tail # <<>> => Head(tail).res \in Reserves /\ Head(tail).gen \in Nat /\ Head(tail).token \in Nat
<1>1. ScheduleOK /\ ManagerOK
  BY DEF IInv, TypeOK
<1>2. /\ Len(recorders) \in Nat /\ \A i \in Reserves : candidates[i] \in Candidates /\ index[i] \in Nat
      /\ tail # <<>> => Head(tail).res \in Reserves /\ Head(tail).gen \in Nat /\ Head(tail).token \in Nat
  BY <1>1, LenProperties, TailTypes DEF ScheduleOK, ManagerOK, Operations
<1>3. /\ \A i \in Reserves : index[i] # 0 => index[i] \in 1 .. Len(recorders)
      /\ \A i \in Reserves : deletionStops[i] # 0 => deletionStops[i] \in 1 .. Len(recorders)
      /\ busy.what # "none" => busy.rec \in 1 .. Len(recorders) /\ tail # <<>>
  BY <1>1, <1>2 DEF ManagerOK
<1> QED BY <1>1, <1>2, <1>3

-----------------------------------------------------------------------------
(* The session operations. *)

\* applyScheduleRemoval without a recorder, and a mutation that is not current.
LEMMA SkipSteps ==
    ASSUME IInv, SkipRemoval \/ SkipApply \/ WaitTimesOut \/ SaveDone
    PROVE  IInv'
<1>1. UNCHANGED <<schedule, manager, world>> /\ OperationDone /\ tail # <<>>
  BY Parts DEF SkipRemoval, SkipApply, WaitTimesOut, SaveDone, IsFirst
<1>2. KeepsSchedule
  BY <1>1, NothingMoves, Parts
<1>3. ManagerOK' /\ failures' \subseteq failures
  BY <1>1, Parts, PlainStep, NoRecorderSet DEF manager, IndexStep, TailStep
<1> QED BY <1>1, <1>2, <1>3, QuietStep

\* A recorder that is told to stop.
LEMMA StoppedTypes ==
    ASSUME NEW r \in Recorders
    PROVE  Stopped(r) \in Recorders /\ Cancelled(r) \in Recorders
<1>1. Cancelled(r) \in Recorders
  BY DEF Cancelled, Recorders, Modes
<1>2. [r EXCEPT !.stop = TRUE] \in Recorders
  BY DEF Recorders
<1> QED BY <1>1, <1>2 DEF Stopped

\* applyScheduleRemoval of a recorder.
LEMMA RemoveStep ==
    ASSUME IInv, Remove
    PROVE  IInv'
<1>1. PICK i, k, r : i = Head(tail).res /\ k = index[i] /\ r = recorders[k]
  OBVIOUS
<1>2. i \in Reserves /\ k \in 1 .. Len(recorders) /\ tail # <<>>
  BY <1>1, Parts DEF Remove, IsFirst
<1>3. /\ DeleteRecording(i) /\ recorders' = [recorders EXCEPT ![k] = Stopped(r)]
      /\ UNCHANGED <<schedule, claims, failures, attempts, deletionStops, world>>
  BY <1>1 DEF Remove
<1>4. OperationDone \/ (UNCHANGED tail /\ \E what \in Waits : busy' = [what |-> what, rec |-> k])
  BY <1>1 DEF Remove, Await, Waits
<1>5. TailStep
  BY <1>2, <1>4 DEF TailStep
<1>6. RecordersKept
  BY <1>1, <1>2, <1>3, Parts, RecorderTypes, StoppedTypes, SetRecorder
<1>7. ManagerOK' /\ failures' \subseteq failures
  BY <1>2, <1>3, <1>5, <1>6, Parts, PlainStep, DeleteRecordingStep
<1> QED BY <1>3, <1>7, Parts, NothingMoves, QuietStep

\* applyScheduleMutation makes a recorder, or completes a session that is over.
LEMMA MakeStep ==
    ASSUME IInv, Make
    PROVE  IInv'
<1>1. PICK i, c : i = Head(tail).res /\ c = candidates[i]
  OBVIOUS
<1>2. i \in Reserves /\ tail # <<>> /\ c \in Candidates /\ OperationDone
      /\ UNCHANGED <<claims, failures, attempts, deletionStops, world>>
  BY <1>1, Parts DEF Make, IsFirst
<1>3. CASE now >= c.row.endAt
  <2>1. LeavePhase(i, c.gen, c.token, {c.phase}, "Completed") /\ UNCHANGED <<recorders, index, indexToken>>
    BY <1>1, <1>3 DEF Make
  <2>2. KeepsSchedule
    BY <1>2, <2>1, Parts, LeavePhaseMoves DEF Phases
  <2>3. ManagerOK' /\ failures' \subseteq failures
    BY <1>2, <2>1, Parts, PlainStep, NoRecorderSet DEF IndexStep, TailStep
  <2> QED BY <1>2, <2>2, <2>3, QuietStep
<1>4. CASE ~(now >= c.row.endAt)
  <2>1. PICK n : n = NewRecorder(i, c)
    OBVIOUS
  <2>2. /\ recorders' = Append(recorders, n) /\ UNCHANGED schedule
        /\ index' = [index EXCEPT ![i] = Len(recorders) + 1]
        /\ indexToken' = [indexToken EXCEPT ![i] = c.token]
    BY <1>1, <1>4, <2>1 DEF Make
  <2>3. n \in Recorders /\ c.token \in Nat
    BY <1>2, <2>1 DEF NewRecorder, Recorders, Candidates, Modes
  <2>4. recorders \in Seq(Recorders) /\ ManagerOK /\ Len(recorders) \in Nat
    BY Parts DEF ManagerOK
  <2>5. recorders' \in Seq(Recorders) /\ Len(recorders') = Len(recorders) + 1
    BY ONLY <2>2, <2>3, <2>4, AppendProperties
  <2>6. tail' \in Seq(Operations) /\ busy' = NotBusy
    BY <1>2, <2>4, TailTypes DEF OperationDone
  <2>7. /\ index \in [Reserves -> Nat] /\ indexToken \in [Reserves -> Nat]
        /\ \A j \in Reserves : index[j] <= Len(recorders)
    BY <2>4 DEF ManagerOK
  <2>8. index' \in [Reserves -> Nat] /\ indexToken' \in [Reserves -> Nat]
    <3>1. Len(recorders) + 1 \in Nat
      BY <2>4
    <3> QED BY <1>2, <2>2, <2>3, <2>7, <3>1
  <2>9. ASSUME NEW j \in Reserves
        PROVE  index'[j] <= Len(recorders') /\ deletionStops'[j] <= Len(recorders')
    <3>1. index'[j] = Len(recorders) + 1 \/ index'[j] = index[j]
      BY <2>2, <2>7
    <3>2. deletionStops'[j] \in Nat /\ deletionStops'[j] <= Len(recorders) /\ index[j] \in Nat
          /\ index[j] <= Len(recorders)
      BY <1>2, <2>4 DEF ManagerOK
    <3> QED BY <2>4, <2>5, <3>1, <3>2
  <2>10. ManagerOK'
    <3>1. busy' \in [what : Waits, rec : Nat] /\ busy'.what = "none"
      BY <2>6 DEF NotBusy, Waits
    <3>2. /\ claims' \subseteq Reserves /\ failures' \subseteq Failures
          /\ attempts' \in [Reserves -> Nat] /\ deletionStops' \in [Reserves -> Nat]
      BY <1>2, <2>4 DEF ManagerOK
    <3> QED BY <2>5, <2>6, <2>8, <2>9, <3>1, <3>2 DEF ManagerOK
  <2> QED BY <1>2, <2>2, <2>10, Parts, NothingMoves, QuietStep
<1> QED BY <1>3, <1>4

\* bindScheduleSession yields a recorder.
LEMMA ReboundTypes ==
    ASSUME NEW r \in Recorders, NEW c \in Candidates
    PROVE  /\ Rebound(r, c) \in Recorders /\ [Rebound(r, c) EXCEPT !.stop = TRUE] \in Recorders
           /\ Cancelled(Rebound(r, c)) \in Recorders
<1>1. c.gen \in Nat /\ c.token \in Nat /\ c.row \in Rows
  BY DEF Candidates
<1>2. PICK m : m = IF r.mode = "retrying" /\ r.gen # c.gen /\ c.phase # "RetryWaiting" THEN "lost" ELSE r.mode
  OBVIOUS
<1>3. m \in Modes
  BY <1>2 DEF Recorders, Modes
<1>4. Rebound(r, c) = [r EXCEPT !.gen = c.gen, !.token = c.token, !.row = c.row, !.mode = m]
  BY <1>2 DEF Rebound
<1>5. Rebound(r, c) \in Recorders
  BY <1>1, <1>3, <1>4 DEF Recorders
<1>6. [Rebound(r, c) EXCEPT !.stop = TRUE] \in Recorders
  BY <1>5 DEF Recorders
<1> QED BY <1>5, <1>6, StoppedTypes

\* applyScheduleMutation with a recorder.
LEMMA FollowStep ==
    ASSUME IInv, Follow
    PROVE  IInv'
<1>1. PICK i, k, c, r, n : /\ i = Head(tail).res /\ k = index[i] /\ c = candidates[i]
                           /\ r = recorders[k] /\ n = Rebound(r, c)
  OBVIOUS
<1>2. /\ i \in Reserves /\ k \in 1 .. Len(recorders) /\ tail # <<>> /\ c \in Candidates
      /\ ScheduleOK /\ ManagerOK /\ r \in Recorders
  BY <1>1, Parts, RecorderTypes DEF Follow, IsFirst
<1>3. /\ UNCHANGED <<generation, sessionToken, queue, started>>
      /\ UNCHANGED <<index, indexToken, claims, failures, attempts, deletionStops, world>>
  BY DEF Follow
<1>4. n \in Recorders /\ [n EXCEPT !.stop = TRUE] \in Recorders /\ Cancelled(n) \in Recorders
  BY <1>1, <1>2, ReboundTypes
<1>5. /\ \E new \in Recorders : recorders' = [recorders EXCEPT ![k] = new]
      /\ OperationDone \/ (UNCHANGED tail /\ \E what \in Waits : busy' = [what |-> what, rec |-> k])
  BY <1>1, <1>4 DEF Follow, Await, Waits
<1>6. ManagerOK' /\ failures' \subseteq failures
  <2>1. RecordersKept
    BY <1>2, <1>5, SetRecorder
  <2>2. TailStep
    BY <1>2, <1>5 DEF TailStep
  <2> QED BY <1>2, <1>3, <2>1, <2>2, PlainStep DEF IndexStep
<1>7. ends \in [Reserves -> Ends] /\ c.gen \in Nat /\ c.token \in Nat /\ c.row.endAt + EndMargin \in Int
  BY SMTT(30), <1>2, ScheduleAssumption DEF ScheduleOK, Candidates, Rows
<1>8. \/ candidates' = [candidates EXCEPT ![i].phase = "Waiting"] /\ WakeNow /\ UNCHANGED ends
      \/ UNCHANGED <<candidates, ends, wake, evaluating>>
      \/ /\ UNCHANGED candidates
         /\ RegisterTimeSpecifiedEnd(i, c, c.gen, c.token, c.row.endAt + EndMargin)
  BY <1>1 DEF Follow
<1>9. KeepsSchedule
  <2>1. CASE candidates' = [candidates EXCEPT ![i].phase = "Waiting"] /\ WakeNow /\ UNCHANGED ends
    <3>1. PICK d : d = [c EXCEPT !.phase = "Waiting"]
      OBVIOUS
    <3>2. d \in Candidates /\ d.gen = c.gen /\ d.row = c.row
      BY <1>2, <3>1 DEF Candidates, Phases
    <3>3. candidates' = [candidates EXCEPT ![i] = d]
      BY <1>1, <2>1, <3>1
    <3> QED BY <1>1, <1>2, <1>3, <1>7, <2>1, <3>2, <3>3, MoveKeeps
  <2>2. CASE UNCHANGED <<candidates, ends, wake, evaluating>>
    BY <1>2, <1>3, <2>2, NothingMoves DEF schedule
  <2>3. CASE /\ UNCHANGED candidates
             /\ RegisterTimeSpecifiedEnd(i, c, c.gen, c.token, c.row.endAt + EndMargin)
    <3>1. candidates' = [candidates EXCEPT ![i] = c]
      BY <1>1, <1>2, <2>3 DEF ScheduleOK
    <3> QED BY <1>1, <1>2, <1>3, <1>7, <2>3, <3>1, RegisterMoves
  <2> QED BY <1>8, <2>1, <2>2, <2>3
<1> QED BY <1>3, <1>6, <1>9, QuietStep

\* dispatchPreparation.
LEMMA PrepareStep ==
    ASSUME IInv, Prepare
    PROVE  IInv'
<1>1. PICK op, k : op = Head(tail) /\ k = index[op.res]
  OBVIOUS
<1>2. /\ op.res \in Reserves /\ op.gen \in Nat /\ op.token \in Nat /\ tail # <<>>
      /\ ScheduleOK /\ ManagerOK /\ OperationDone
      /\ UNCHANGED <<index, indexToken, claims, failures, attempts, deletionStops, world>>
  BY <1>1, Parts DEF Prepare, IsFirst
<1>3. RecordersKept /\ KeepsSchedule
  <2>1. CASE UNCHANGED <<recorders, schedule>>
    BY <1>2, <2>1, NoRecorderSet, NothingMoves
  <2>2. CASE ~UNCHANGED <<recorders, schedule>>
    <3>1. IsCurrent(op, "Preparing")
      BY <1>1, <2>2 DEF Prepare
    <3>2. k \in 1 .. Len(recorders)
      BY <1>1, <1>2, <3>1, Parts DEF IsCurrent
    <3>3. recorders[k] \in Recorders
      BY <1>2, <3>2, RecorderTypes
    <3>4. CASE recorders[k].stop
      <4>1. /\ recorders' = [recorders EXCEPT ![k] = Cancelled(recorders[k])]
            /\ LeavePhase(op.res, op.gen, op.token, LivePhases, "Cancelled")
        BY <1>1, <3>1, <3>4 DEF Prepare
      <4> QED BY <1>2, <3>2, <3>3, <4>1, StoppedTypes, SetRecorder, LeavePhaseMoves DEF Phases
    <3>5. CASE ~recorders[k].stop
      <4>1. PICK new : new = [recorders[k] EXCEPT !.mode = "preparing", !.gen = op.gen]
        OBVIOUS
      <4>2. new \in Recorders
        BY <1>2, <3>3, <4>1 DEF Recorders, Modes
      <4>3. recorders' = [recorders EXCEPT ![k] = new] /\ UNCHANGED schedule
        BY <1>1, <3>1, <3>5, <4>1 DEF Prepare
      <4> QED BY <1>2, <3>2, <4>2, <4>3, SetRecorder, NothingMoves
    <3> QED BY <3>4, <3>5
  <2> QED BY <2>1, <2>2
<1>4. ManagerOK' /\ failures' \subseteq failures
  BY <1>2, <1>3, PlainStep DEF IndexStep, TailStep
<1> QED BY <1>2, <1>3, <1>4, QuietStep

\* dispatchTimeSpecifiedEnd.
LEMMA FinishStep ==
    ASSUME IInv, Finish
    PROVE  IInv'
<1>1. PICK op, k : op = Head(tail) /\ k = index[op.res]
  OBVIOUS
<1>2. /\ op.res \in Reserves /\ tail # <<>> /\ ScheduleOK /\ ManagerOK /\ OperationDone
      /\ UNCHANGED <<schedule, index, indexToken, claims, failures, attempts, deletionStops, world>>
  BY <1>1, Parts DEF Finish, IsFirst
<1>3. RecordersKept
  <2>1. CASE IsCurrent(op, "Finishing") /\ recorders[k].mode = "recording"
    <3>1. k \in 1 .. Len(recorders)
      BY <1>1, <1>2, <2>1, Parts DEF IsCurrent
    <3>2. recorders' = [recorders EXCEPT ![k].mode = "finalizing"]
      BY <1>1, <2>1 DEF Finish
    <3> QED BY <1>2, <3>1, <3>2, SetMode DEF Modes
  <2>2. CASE ~(IsCurrent(op, "Finishing") /\ recorders[k].mode = "recording")
    <3>1. recorders' = recorders
      BY <1>1, <2>2 DEF Finish
    <3> QED BY <1>2, <3>1, NoRecorderSet
  <2> QED BY <2>1, <2>2
<1>4. ManagerOK' /\ failures' \subseteq failures
  BY <1>2, <1>3, PlainStep DEF IndexStep, TailStep
<1> QED BY <1>2, <1>4, NothingMoves, QuietStep

\* The wait of an update for the start of a recording is over.
LEMMA EndAtStep ==
    ASSUME IInv, EndAtWaitOver
    PROVE  IInv'
<1>1. PICK r : r = recorders[busy.rec]
  OBVIOUS
<1>2. /\ busy.rec \in 1 .. Len(recorders) /\ tail # <<>> /\ ScheduleOK /\ ManagerOK /\ OperationDone
      /\ UNCHANGED <<candidates, generation, sessionToken, queue, started, manager, world>>
  BY Parts DEF EndAtWaitOver
<1>3. /\ r.res \in Reserves /\ r.gen \in Nat /\ r.token \in Nat /\ r.row.endAt \in Nat
  BY <1>1, <1>2, RecorderTypes
<1>4. r.row.endAt + EndMargin \in Int /\ candidates[r.res] \in Candidates
      /\ candidates' = [candidates EXCEPT ![r.res] = candidates[r.res]]
  BY SMTT(30), <1>2, <1>3, ScheduleAssumption DEF ScheduleOK
<1>5. KeepsSchedule
  <2>1. CASE RegisterTimeSpecifiedEnd(r.res, candidates[r.res], r.gen, r.token, r.row.endAt + EndMargin)
    BY <1>2, <1>3, <1>4, <2>1, RegisterMoves
  <2>2. CASE UNCHANGED <<ends, wake, evaluating>>
    BY <1>2, <2>2, NothingMoves DEF schedule
  <2> QED BY <1>1, <2>1, <2>2 DEF EndAtWaitOver
<1>6. ManagerOK' /\ failures' \subseteq failures
  BY <1>2, PlainStep, NoRecorderSet DEF IndexStep, TailStep, manager
<1> QED BY <1>2, <1>5, <1>6, QuietStep

\* The stream of a removed recording is closed.
LEMMA DrainedStep ==
    ASSUME IInv, Drained
    PROVE  IInv'
<1>1. PICK k, r : k = busy.rec /\ r = recorders[k]
  OBVIOUS
<1>2. /\ k \in 1 .. Len(recorders) /\ tail # <<>> /\ ScheduleOK /\ ManagerOK /\ OperationDone
      /\ UNCHANGED <<index, indexToken, claims, failures, attempts, deletionStops, world>>
  BY <1>1, Parts DEF Drained
<1>3. CASE r.mode = "recording"
  <2>1. /\ recorders' = [recorders EXCEPT ![k].mode = "finalizing"]
        /\ LeavePhase(r.res, r.gen, r.token, {"Recording"}, "Cancelled")
    BY <1>1, <1>3 DEF Drained
  <2>2. RecordersKept /\ KeepsSchedule
    BY <1>1, <1>2, <2>1, RecorderTypes, SetMode, LeavePhaseMoves DEF Modes, Phases
  <2> QED BY <1>2, <2>2, PlainStep, QuietStep DEF IndexStep, TailStep
<1>4. CASE r.mode # "recording"
  <2>1. UNCHANGED <<recorders, schedule>>
    BY <1>1, <1>4 DEF Drained
  <2>2. RecordersKept /\ KeepsSchedule
    BY <1>2, <2>1, NoRecorderSet, NothingMoves
  <2> QED BY <1>2, <2>2, PlainStep, QuietStep DEF IndexStep, TailStep
<1> QED BY <1>3, <1>4

-----------------------------------------------------------------------------
(* The recorders. *)

\* An attempt stops; an operation that waits for it goes on.
LEMMA PrepCancelledStep ==
    ASSUME IInv, NEW k \in DOMAIN recorders, PrepCancelled(k)
    PROVE  IInv'
<1>1. PICK r, i, c : /\ r = recorders[k] /\ i = r.res
                     /\ c = IF r.deletion THEN candidates[i]
                            ELSE Transition(candidates[i], r.gen, r.token, LivePhases, "Cancelled")
  OBVIOUS
<1>2. PICK mine \in BOOLEAN : mine = (busy.rec = k /\ busy.what \in {"cancel", "reschedule"})
  OBVIOUS
<1>3. k \in 1 .. Len(recorders) /\ ScheduleOK /\ ManagerOK
  BY Parts, LenProperties DEF ManagerOK
<1>4. /\ r \in Recorders /\ i \in Reserves /\ candidates[i] \in Candidates
      /\ mine => tail # <<>>
  BY <1>1, <1>2, <1>3, Parts, RecorderTypes
<1>5. /\ c \in Candidates /\ c.gen = candidates[i].gen /\ c.row = candidates[i].row
      /\ c.phase = "Waiting" => candidates[i].phase = "Waiting"
  BY <1>1, <1>4, TransitionMoves DEF Phases
<1>6. /\ recorders' = [recorders EXCEPT ![k] = Cancelled(r)]
      /\ \/ Requeue(i, c)
         \/ candidates' = [candidates EXCEPT ![i] = c] /\ UNCHANGED <<wake, evaluating>>
      /\ DeleteRecording(i) \/ UNCHANGED <<index, indexToken>>
      /\ IF mine THEN OperationDone ELSE UNCHANGED <<busy, tail>>
      /\ UNCHANGED <<generation, sessionToken, ends, queue, started, claims, failures, attempts,
                     deletionStops, world>>
  BY <1>1, <1>2 DEF PrepCancelled
<1>7. KeepsSchedule
  <2>1. ends \in [Reserves -> Ends]
    BY <1>3 DEF ScheduleOK
  <2>2. CASE candidates' = [candidates EXCEPT ![i] = c] /\ UNCHANGED <<wake, evaluating>>
    BY <1>3, <1>4, <1>5, <1>6, <2>1, <2>2, MoveKeeps
  <2>3. CASE Requeue(i, c) /\ c.phase = "Cancelled"
    <3>1. PICK d : d = [c EXCEPT !.phase = "Waiting"]
      OBVIOUS
    <3>2. d \in Candidates /\ d.gen = c.gen /\ d.row = c.row
      BY <1>5, <3>1 DEF Candidates, Phases
    <3>3. candidates' = [candidates EXCEPT ![i] = d] /\ WakeNow
      BY <2>3, <3>1 DEF Requeue
    <3> QED BY <1>3, <1>4, <1>5, <1>6, <2>1, <3>2, <3>3, MoveKeeps
  <2> QED BY <1>6, <2>2, <2>3 DEF Requeue
<1>8. RecordersKept /\ IndexStep /\ TailStep
  <2>1. RecordersKept
    BY <1>3, <1>4, <1>6, StoppedTypes, SetRecorder
  <2>2. IndexStep
    BY <1>4, <1>6, DeleteRecordingStep DEF IndexStep
  <2>3. TailStep
    BY <1>4, <1>6 DEF TailStep
  <2> QED BY <2>1, <2>2, <2>3
<1> QED BY <1>3, <1>6, <1>7, <1>8, PlainStep, QuietStep

\* The stream is open: the session is handed over, or the attempt ends without a word.
LEMMA PrepSucceedsStep ==
    ASSUME IInv, NEW k \in DOMAIN recorders, PrepSucceeds(k)
    PROVE  IInv'
<1>1. PICK r, i, c : /\ r = recorders[k] /\ i = r.res
                     /\ c = Transition(candidates[i], r.gen, r.token, {"Preparing"}, "Recording")
  OBVIOUS
<1>2. k \in 1 .. Len(recorders) /\ ScheduleOK /\ ManagerOK
  BY Parts, LenProperties DEF ManagerOK
<1>3. /\ r \in Recorders /\ i \in Reserves /\ candidates[i] \in Candidates
      /\ r.gen \in Nat /\ r.token \in Nat
  BY <1>1, <1>2, Parts, RecorderTypes
<1>4. /\ c \in Candidates /\ c.gen = candidates[i].gen /\ c.row = candidates[i].row
      /\ c.phase = "Waiting" => candidates[i].phase = "Waiting"
  BY <1>1, <1>3, TransitionMoves DEF Phases
<1>5. UNCHANGED <<tail, busy, index, indexToken, claims, failures, attempts, deletionStops, world>>
  BY DEF PrepSucceeds
<1>6. RecordersKept /\ KeepsSchedule
  <2>1. CASE c = candidates[i]
    <3>1. recorders' = [recorders EXCEPT ![k].mode = "lost"] /\ UNCHANGED schedule
      BY <1>1, <2>1 DEF PrepSucceeds
    <3> QED BY <1>2, <3>1, SetMode, NothingMoves DEF Modes
  <2>2. CASE c # candidates[i]
    <3>1. /\ recorders' = [recorders EXCEPT ![k].mode = "recording", ![k].row = c.row]
          /\ candidates' = [candidates EXCEPT ![i] = c]
          /\ RegisterTimeSpecifiedEnd(i, c, r.gen, r.token, c.row.endAt + EndMargin)
          /\ UNCHANGED <<generation, sessionToken, queue, started>>
      BY <1>1, <2>2 DEF PrepSucceeds
    <3>2. PICK new : new = [r EXCEPT !.mode = "recording", !.row = c.row]
      OBVIOUS
    <3>3. new \in Recorders /\ c.row.endAt \in Nat
      BY <1>3, <1>4, <3>2 DEF Recorders, Candidates, Rows, Modes
    <3>4. recorders' = [recorders EXCEPT ![k] = new]
      BY <1>1, <3>1, <3>2
    <3>5. c.row.endAt + EndMargin \in Int
      BY <3>3, ScheduleAssumption
    <3>6. RecordersKept
      BY <1>2, <3>3, <3>4, SetRecorder
    <3>7. KeepsSchedule
      BY <1>2, <1>3, <1>4, <3>1, <3>5, RegisterMoves
    <3> QED BY <3>6, <3>7
  <2> QED BY <2>1, <2>2
<1>7. ManagerOK' /\ failures' \subseteq failures
  BY <1>2, <1>5, <1>6, PlainStep DEF IndexStep, TailStep
<1> QED BY <1>5, <1>6, <1>7, QuietStep

\* The recorded row is written.
LEMMA RegistersStep ==
    ASSUME IInv, NEW k \in DOMAIN recorders, Registers(k)
    PROVE  IInv'
<1>1. PICK r, new : r = recorders[k] /\ new = [r EXCEPT !.registered = TRUE]
  OBVIOUS
<1>2. k \in 1 .. Len(recorders) /\ ScheduleOK /\ ManagerOK
  BY Parts, LenProperties DEF ManagerOK
<1>3. r \in Recorders /\ r.res \in Reserves
  BY <1>1, <1>2, RecorderTypes
<1>4. new \in Recorders
  BY <1>1, <1>3 DEF Recorders
<1>5. /\ recorders' = [recorders EXCEPT ![k] = new]
      /\ attempts' = [attempts EXCEPT ![r.res] = @ + 1]
      /\ UNCHANGED <<schedule, tail, busy, index, indexToken, claims, failures, deletionStops, world>>
  BY <1>1 DEF Registers
<1>6. attempts' \in [Reserves -> Nat]
  BY <1>2, <1>3, <1>5 DEF ManagerOK
<1>7. RecordersKept
  BY <1>2, <1>4, <1>5, SetRecorder
<1>8. ManagerOK'
  BY <1>2, <1>5, <1>6, <1>7, ManagerStep DEF IndexStep, TailStep, ManagerOK
<1> QED BY <1>2, <1>5, <1>8, NothingMoves, QuietStep

\* A step that sets the mode of a recorder and moves the session on.
LEMMA ModeStep ==
    ASSUME IInv, NEW k \in 1 .. Len(recorders), NEW new \in Recorders,
           recorders' = [recorders EXCEPT ![k] = new], KeepsSchedule, IndexStep,
           UNCHANGED <<tail, busy, claims, failures, attempts, deletionStops>>,
           UNCHANGED <<now, table, startup, saved, pending>>
    PROVE  IInv'
<1>1. RecordersKept /\ ManagerOK
  BY Parts, SetRecorder
<1>2. ManagerOK' /\ failures' \subseteq failures
  BY <1>1, PlainStep DEF TailStep
<1>3. FailureInv'
  BY <1>2, FailuresKept DEF IInv, KeepsSchedule
<1> QED BY <1>2, <1>3, InvariantKept

\* An attempt fails: it is tried again, or the session is over.
LEMMA PrepFailsStep ==
    ASSUME IInv, NEW k \in DOMAIN recorders, PrepFails(k)
    PROVE  IInv'
<1>1. PICK r, i, c : r = recorders[k] /\ i = r.res /\ c = candidates[i]
  OBVIOUS
<1>2. k \in 1 .. Len(recorders) /\ ScheduleOK /\ ManagerOK
  BY Parts, LenProperties DEF ManagerOK
<1>3. r \in Recorders /\ i \in Reserves /\ c \in Candidates
  BY <1>1, <1>2, Parts, RecorderTypes
<1>4. /\ UNCHANGED <<now, table, startup, saved, pending>>
      /\ UNCHANGED <<tail, busy, claims, failures, attempts, deletionStops>>
  BY DEF PrepFails, Fail
<1>5. \A mode \in Modes : [r EXCEPT !.mode = mode] \in Recorders
  BY <1>3 DEF Recorders
<1>6. \E new \in Recorders : recorders' = [recorders EXCEPT ![k] = new]
  BY <1>1, <1>5 DEF PrepFails, Modes
<1>7. KeepsSchedule /\ IndexStep
  <2>1. CASE UNCHANGED <<schedule, index, indexToken>>
    BY <1>2, <2>1, NothingMoves DEF IndexStep
  <2>2. CASE /\ c.phase \in {"Preparing", "Recording"}
             /\ candidates' = [candidates EXCEPT ![i].phase = "RetryWaiting"]
             /\ UNCHANGED <<generation, sessionToken, ends, queue, started, evaluating, wake,
                            index, indexToken>>
    <3>1. PICK d : d = [c EXCEPT !.phase = "RetryWaiting"]
      OBVIOUS
    <3>2. d \in Candidates /\ d.gen = c.gen /\ d.row = c.row /\ d.phase = "RetryWaiting"
      BY <1>3, <3>1 DEF Candidates, Phases
    <3>3. candidates' = [candidates EXCEPT ![i] = d]
      BY <1>1, <2>2, <3>1
    <3>4. ends' = ends /\ ends \in [Reserves -> Ends]
      BY <1>2, <2>2 DEF ScheduleOK
    <3>5. /\ d.phase = "Waiting" => candidates[i].phase = "Waiting"
          /\ d.gen = candidates[i].gen /\ d.row = candidates[i].row
          /\ \A j \in Reserves : ends'[j].gen # 0 => ends'[j] = ends[j]
          /\ UNCHANGED <<generation, sessionToken, queue, started, evaluating, wake>>
      BY <1>1, <2>2, <3>2
    <3>6. KeepsSchedule
      BY <1>2, <1>3, <3>2, <3>3, <3>4, <3>5, MoveKeeps
    <3> QED BY <2>2, <3>6 DEF IndexStep
  <2>3. CASE LeavePhase(i, r.gen, r.token, {c.phase}, "Completed") /\ DeleteRecording(i)
    BY <1>2, <1>3, <2>3, LeavePhaseMoves, DeleteRecordingStep DEF Phases
  <2> QED BY <1>1, <2>1, <2>2, <2>3 DEF PrepFails
<1> QED BY <1>2, <1>4, <1>6, <1>7, ModeStep

\* The retry timer of a recorder.
LEMMA RetryFiresStep ==
    ASSUME IInv, NEW k \in DOMAIN recorders, RetryFires(k)
    PROVE  IInv'
<1>1. PICK r, i, c : /\ r = recorders[k] /\ i = r.res
                     /\ c = Transition(candidates[i], r.gen, r.token, {"RetryWaiting"}, "Preparing")
  OBVIOUS
<1>2. k \in 1 .. Len(recorders) /\ ScheduleOK /\ ManagerOK
  BY Parts, LenProperties DEF ManagerOK
<1>3. r \in Recorders /\ i \in Reserves /\ candidates[i] \in Candidates
  BY <1>1, <1>2, Parts, RecorderTypes
<1>4. /\ c \in Candidates /\ c.gen = candidates[i].gen /\ c.row = candidates[i].row
      /\ c.phase = "Waiting" => candidates[i].phase = "Waiting"
  BY <1>1, <1>3, TransitionMoves DEF Phases
<1>5. \A mode \in Modes : [r EXCEPT !.mode = mode] \in Recorders
  BY <1>3 DEF Recorders
<1>6. \E new \in Recorders : recorders' = [recorders EXCEPT ![k] = new]
  BY <1>1, <1>5 DEF RetryFires, Modes
<1>7. /\ candidates' = [candidates EXCEPT ![i] = c]
      /\ UNCHANGED <<generation, sessionToken, ends, queue, started, evaluating, wake, tail, busy,
                     index, indexToken, claims, failures, attempts, deletionStops, world>>
  BY <1>1 DEF RetryFires
<1>8. ends' = ends /\ ends \in [Reserves -> Ends]
  BY <1>2, <1>7 DEF ScheduleOK
<1>9. KeepsSchedule
  BY <1>2, <1>3, <1>4, <1>7, <1>8, MoveKeeps
<1> QED BY <1>2, <1>6, <1>7, <1>9, ModeStep DEF IndexStep, world

\* The stream ends, fails, or is over: the recorder goes on and leaves the phase.
LEMMA StreamOverStep ==
    ASSUME IInv, NEW k \in DOMAIN recorders,
           StreamEnds(k) \/ Finalized(k) \/ RecFails(k, "retryable") \/ RecFails(k, "fatal")
    PROVE  IInv'
<1>1. PICK r : r = recorders[k]
  OBVIOUS
<1>2. k \in 1 .. Len(recorders) /\ ScheduleOK /\ ManagerOK
  BY Parts, LenProperties DEF ManagerOK
<1>3. r \in Recorders /\ r.res \in Reserves
  BY <1>1, <1>2, RecorderTypes
<1>4. \A mode \in Modes, failed \in {"no", "retryable", "fatal"} :
         /\ [r EXCEPT !.mode = mode] \in Recorders
         /\ [r EXCEPT !.mode = mode, !.failed = failed] \in Recorders
  BY <1>3 DEF Recorders
<1>5. \E new \in Recorders : recorders' = [recorders EXCEPT ![k] = new]
  <2>1. CASE StreamEnds(k)
    BY <1>1, <1>4, <2>1 DEF StreamEnds, Modes
  <2>2. CASE Finalized(k)
    BY <1>1, <1>4, <2>2 DEF Finalized, Modes
  <2>3. ASSUME NEW kind \in {"retryable", "fatal"}, RecFails(k, kind)
        PROVE  \E new \in Recorders : recorders' = [recorders EXCEPT ![k] = new]
    <3>1. PICK failed \in {"no", "retryable", "fatal"} :
             recorders' = [recorders EXCEPT ![k].mode = "finalizing", ![k].failed = failed]
      BY <2>3 DEF RecFails
    <3> QED BY <1>1, <1>4, <3>1 DEF Modes
  <2> QED BY <2>1, <2>2, <2>3
<1>6. \/ LeavePhase(r.res, r.gen, r.token, {"Recording"}, "Finishing")
      \/ LeavePhase(r.res, r.gen, r.token, {"Finishing"}, "Completed")
  BY <1>1 DEF StreamEnds, Finalized, RecFails
<1>7. KeepsSchedule
  BY <1>2, <1>3, <1>6, LeavePhaseMoves DEF Phases
<1>8. DeleteRecording(r.res) \/ UNCHANGED <<index, indexToken>>
  BY <1>1 DEF StreamEnds, Finalized, RecFails
<1>9. /\ UNCHANGED <<tail, busy, claims, failures, attempts, deletionStops>>
      /\ UNCHANGED <<now, table, startup, saved, pending>>
  BY DEF StreamEnds, Finalized, RecFails, Fail, world
<1>10. IndexStep
  BY <1>3, <1>8, DeleteRecordingStep DEF IndexStep
<1> QED BY <1>2, <1>5, <1>7, <1>9, <1>10, ModeStep

\* A failure is published: it has the row and the generation of its session.
LEMMA FailureReportedStep ==
    ASSUME IInv, NEW k \in DOMAIN recorders, FailureReported(k)
    PROVE  IInv'
<1>1. PICK r, i : r = recorders[k] /\ i = r.res
  OBVIOUS
<1>2. k \in 1 .. Len(recorders) /\ ScheduleOK /\ ManagerOK
  BY Parts, LenProperties DEF ManagerOK
<1>3. /\ r \in Recorders /\ i \in Reserves /\ candidates[i] \in Candidates
      /\ r.gen \in Nat /\ r.token \in Nat /\ r.failed \in {"no", "retryable", "fatal"}
  BY <1>1, <1>2, Parts, RecorderTypes
<1>4. /\ recorders' = [recorders EXCEPT ![k].mode = "ended"]
      /\ UNCHANGED <<schedule, tail, busy, attempts, deletionStops, world>>
  BY <1>1 DEF FailureReported
<1>5. RecordersKept
  BY <1>2, <1>4, SetMode DEF Modes
<1>6. PICK f : f = [res |-> i, gen |-> r.gen, token |-> r.token, row |-> candidates[i].row,
                    kind |-> r.failed]
  OBVIOUS
<1>7. \/ UNCHANGED <<claims, failures, index, indexToken>>
      \/ /\ IsBoundTo(r, candidates[i]) /\ DeleteRecording(i)
         /\ claims' = claims \cup {i} /\ failures' = failures \cup {f}
  BY <1>1, <1>6 DEF FailureReported
<1>8. f \in Failures
  BY <1>3, <1>6 DEF Failures, Candidates
<1>9. ManagerOK'
  <2>1. claims' \subseteq Reserves /\ failures' \subseteq Failures
    BY <1>2, <1>3, <1>7, <1>8 DEF ManagerOK
  <2>2. attempts' \in [Reserves -> Nat] /\ deletionStops' \in [Reserves -> Nat]
        /\ \A j \in Reserves : deletionStops'[j] <= Len(recorders)
    BY <1>2, <1>4 DEF ManagerOK
  <2>3. IndexStep
    BY <1>3, <1>7, DeleteRecordingStep DEF IndexStep
  <2> QED BY <1>2, <1>4, <1>5, <2>1, <2>2, <2>3, ManagerStep DEF TailStep
<1>10. FailureInv'
  <2>1. FailureInv /\ candidates' = candidates /\ generation' = generation
    BY <1>4 DEF IInv, schedule
  <2>2. \A g \in failures' : g \in failures \/ (g = f /\ IsBoundTo(r, candidates[i]))
    BY <1>7
  <2>3. IsBoundTo(r, candidates[i]) =>
           /\ f.gen # 0 /\ f.gen <= generation
           /\ candidates[f.res].gen = f.gen => candidates[f.res].row = f.row
    BY <1>3, <1>6, <2>1 DEF IsBoundTo, FailureInv
  <2> QED BY <2>1, <2>2, <2>3 DEF FailureInv
<1>11. UNCHANGED <<now, table, startup, saved, pending>>
  BY <1>4 DEF world
<1> QED BY <1>2, <1>4, <1>9, <1>10, <1>11, NothingMoves, InvariantKept

\* cancel(i, true): the indexed recorder is told to stop for the deletion of its files.
LEMMA StopForDeletionStep ==
    ASSUME IInv, NEW i \in Reserves, StopForDeletion(i)
    PROVE  IInv'
<1>1. PICK k, r : k = index[i] /\ r = recorders[k]
  OBVIOUS
<1>2. k \in 1 .. Len(recorders) /\ ScheduleOK /\ ManagerOK
  BY <1>1, Parts DEF StopForDeletion
<1>3. r \in Recorders
  BY <1>1, <1>2, RecorderTypes
<1>4. PICK stop \in BOOLEAN, mode \in Modes :
         recorders' = [recorders EXCEPT ![k] = [r EXCEPT !.deletion = TRUE, !.stop = stop, !.mode = mode]]
  <2>1. PICK prepares \in BOOLEAN :
           prepares = \/ r.mode = "preparing"
                      \/ /\ r.mode = "lost"
                         /\ IsBoundTo(r, candidates[i]) /\ candidates[i].phase = "Preparing"
    OBVIOUS
  <2>2. PICK mode : mode = CASE r.mode = "recording" -> "finalizing"
                             [] r.mode \in {"retrying", "lost"} /\ ~prepares -> "idle"
                             [] OTHER -> r.mode
    OBVIOUS
  <2>3. mode \in Modes
    BY <1>3, <2>2 DEF Recorders, Modes
  <2>4. recorders' = [recorders EXCEPT ![k] = [r EXCEPT !.deletion = TRUE, !.stop = prepares, !.mode = mode]]
    BY <1>1, <2>1, <2>2 DEF StopForDeletion
  <2> QED BY <2>3, <2>4
<1>5. [r EXCEPT !.deletion = TRUE, !.stop = stop, !.mode = mode] \in Recorders
  BY <1>3 DEF Recorders
<1>6. RecordersKept
  BY <1>2, <1>4, <1>5, SetRecorder
<1>7. /\ deletionStops' = [deletionStops EXCEPT ![i] = k]
      /\ LeavePhase(i, r.gen, r.token, LivePhases \cup {"Finishing"}, "StoppingForDeletion")
      /\ UNCHANGED <<tail, busy, index, indexToken, claims, failures, attempts, world>>
  BY <1>1 DEF StopForDeletion
<1>8. ManagerOK'
  <2>1. k \in Nat /\ k <= Len(recorders) /\ Len(recorders) \in Nat
    BY <1>2, Parts
  <2>2. deletionStops \in [Reserves -> Nat] /\ \A j \in Reserves : deletionStops[j] <= Len(recorders)
    BY <1>2 DEF ManagerOK
  <2>3. deletionStops' \in [Reserves -> Nat]
    BY <1>7, <2>1, <2>2
  <2>4. \A j \in Reserves : deletionStops'[j] = k \/ deletionStops'[j] = deletionStops[j]
    BY <1>7, <2>2
  <2>5. \A j \in Reserves : deletionStops'[j] <= Len(recorders)
    BY <2>1, <2>2, <2>4
  <2>6. claims' \subseteq Reserves /\ failures' \subseteq Failures /\ attempts' \in [Reserves -> Nat]
    BY <1>2, <1>7 DEF ManagerOK
  <2> QED BY <1>2, <1>6, <1>7, <2>3, <2>5, <2>6, ManagerStep DEF IndexStep, TailStep
<1>9. KeepsSchedule
  BY <1>2, <1>7, LeavePhaseMoves DEF Phases
<1> QED BY <1>7, <1>8, <1>9, QuietStep

\* The stop for a deletion is over.
LEMMA DeletionTerminalStep ==
    ASSUME IInv, NEW i \in Reserves, DeletionTerminal(i)
    PROVE  IInv'
<1>1. PICK k, r : k = deletionStops[i] /\ r = recorders[k]
  OBVIOUS
<1>2. k \in 1 .. Len(recorders) /\ ScheduleOK /\ ManagerOK
  BY <1>1, Parts DEF DeletionTerminal
<1>3. /\ recorders' = [recorders EXCEPT ![k].mode = "ended"]
      /\ deletionStops' = [deletionStops EXCEPT ![i] = 0]
      /\ index' = [index EXCEPT ![i] = 0] /\ indexToken' = [indexToken EXCEPT ![i] = 0]
      /\ LeavePhase(i, r.gen, r.token, {"StoppingForDeletion"}, "Cancelled")
      /\ UNCHANGED <<tail, busy, claims, failures, attempts, world>>
  BY <1>1 DEF DeletionTerminal
<1>4. RecordersKept
  BY <1>2, <1>3, SetMode DEF Modes
<1>5. KeepsSchedule
  BY <1>2, <1>3, LeavePhaseMoves DEF Phases
<1>6. ManagerOK'
  <2>1. Len(recorders) \in Nat
    BY Parts
  <2>2. deletionStops \in [Reserves -> Nat] /\ \A j \in Reserves : deletionStops[j] <= Len(recorders)
    BY <1>2 DEF ManagerOK
  <2>3. deletionStops' \in [Reserves -> Nat]
    BY <1>3, <2>2
  <2>4. \A j \in Reserves : deletionStops'[j] = 0 \/ deletionStops'[j] = deletionStops[j]
    BY <1>3, <2>2
  <2>5. \A j \in Reserves : deletionStops'[j] <= Len(recorders)
    BY <2>1, <2>2, <2>4
  <2>6. claims' \subseteq Reserves /\ failures' \subseteq Failures /\ attempts' \in [Reserves -> Nat]
    BY <1>2, <1>3 DEF ManagerOK
  <2> QED BY <1>2, <1>3, <1>4, <2>3, <2>5, <2>6, ManagerStep DEF IndexStep, TailStep
<1> QED BY <1>3, <1>5, <1>6, QuietStep

-----------------------------------------------------------------------------
(* The queues of mutations. *)

\* The sequence r is q and the mutation m at its end.
Appended(r, q, m) ==
    /\ Len(r) = Len(q) + 1 /\ r[Len(q) + 1] = m
    /\ \A n \in 1 .. Len(q) : r[n] = q[n]

\* Both ways to append a mutation do that.
LEMMA AppendMutation ==
    ASSUME NEW q \in Seq(Mutations), NEW m \in Mutations
    PROVE  /\ Append(q, m) \in Seq(Mutations) /\ Appended(Append(q, m), q, m)
           /\ q \o <<m>> \in Seq(Mutations) /\ Appended(q \o <<m>>, q, m)
<1>1. Append(q, m) \in Seq(Mutations) /\ Appended(Append(q, m), q, m)
  BY AppendProperties DEF Appended
<1>2. Append(q, m) = q \o <<m>>
  BY AppendIsConcat
<1> QED BY <1>1, <1>2

\* A mutation of each sequence of mutations is one.
LEMMA MutationTypes ==
    ASSUME NEW q \in Seq(Mutations), NEW n \in 1 .. Len(q)
    PROVE  /\ q[n] \in Mutations /\ q[n].res \in Reserves /\ q[n].row \in Rows
           /\ q[n].source \in {"insert", "update", "delete"}
           /\ q[n].source = "delete" => q[n].row.isSkip
<1>1. q[n] \in Mutations
  BY ElementOfSeq
<1> QED BY <1>1 DEF Mutations

\* A change of the table is announced with its row: the last word on each reservation is
\* its row again.
LEMMA AnnounceOne ==
    ASSUME NEW q \in Seq(Mutations), NEW r, NEW m \in Mutations, Appended(r, q, m),
           NEW t \in [Reserves -> Rows], NEW t2, Announced(q, t),
           t2[m.res] = m.row, \A j \in Reserves : j # m.res => t2[j] = t[j]
    PROVE  /\ Announced(r, t2)
           /\ \A i \in Reserves : ~About(r, i) => ~About(q, i) /\ t2[i] = t[i]
<1>1. m.res \in Reserves /\ Len(q) \in Nat
  BY LenProperties DEF Mutations
<1>2. Len(r) = Len(q) + 1 /\ r[Len(r)] = m /\ \A n \in 1 .. Len(q) : r[n] = q[n] /\ n \in 1 .. Len(r)
      /\ Len(r) > n /\ Len(r) \in 1 .. Len(r)
  BY <1>1 DEF Appended
<1>3. \A n \in 1 .. Len(r) : n = Len(r) \/ n \in 1 .. Len(q)
  BY <1>1, <1>2
<1>4. ASSUME NEW n \in 1 .. Len(r), \A k \in 1 .. Len(r) : k > n => r[k].res # r[n].res
      PROVE  r[n].row = t2[r[n].res]
  <2>1. CASE n = Len(r)
    BY <1>1, <1>2, <2>1
  <2>2. CASE n \in 1 .. Len(q)
    <3>1. r[n] = q[n] /\ q[n].res # m.res /\ q[n].res \in Reserves
      BY <1>2, <1>4, <2>2, MutationTypes
    <3>2. \A k \in 1 .. Len(q) : k > n => q[k].res # q[n].res
      BY <1>2, <1>4, <2>2
    <3>3. q[n].row = t[q[n].res]
      BY <2>2, <3>2 DEF Announced
    <3> QED BY <3>1, <3>3
  <2> QED BY <1>3, <2>1, <2>2
<1>5. ASSUME NEW i \in Reserves, ~About(r, i)
      PROVE  ~About(q, i) /\ t2[i] = t[i]
  <2>1. i # m.res
    <3>1. Len(r) \in 1 .. Len(r) /\ r[Len(r)].res = m.res
      BY <1>1, <1>2
    <3> QED BY <1>5, <3>1 DEF About
  <2>2. ~About(q, i)
    BY <1>2, <1>5 DEF About
  <2> QED BY <2>1, <2>2
<1> QED BY <1>4, <1>5 DEF Announced

\* A woken controller loses nothing, whatever is queued meanwhile.
LEMMA CoalescedWake ==
    ASSUME ScheduleOK, WakeInv, UNCHANGED <<started, evaluating>>, RequestCoalescedEvaluation
    PROVE  WakeInv' /\ wake' \in [scheduled : BOOLEAN, microtask : BOOLEAN, timer : Int]
<1>1. CASE ~started \/ wake.scheduled
  <2>1. wake' = wake
    BY <1>1 DEF RequestCoalescedEvaluation
  <2>2. (~started)' \/ (wake.microtask)'
    BY <1>1, <2>1 DEF WakeInv
  <2>3. NoLostWake'
    BY <2>2 DEF NoLostWake
  <2> QED BY <2>1, <2>3 DEF WakeInv, ScheduleOK
<1>2. CASE ~(~started \/ wake.scheduled)
  <2>1. wake' = [scheduled |-> TRUE, microtask |-> TRUE, timer |-> NoTime]
    BY <1>2 DEF RequestCoalescedEvaluation
  <2>2. started' /\ (wake.microtask)' /\ (wake.scheduled)'
    BY <1>2, <2>1
  <2>3. NoLostWake'
    BY <2>2 DEF NoLostWake
  <2>4. NoTime \in Int
    BY DEF NoTime
  <2>5. WakeInv'
    BY <2>2, <2>3 DEF WakeInv
  <2>6. wake' \in [scheduled : BOOLEAN, microtask : BOOLEAN, timer : Int]
    BY <2>1, <2>4, Zenon
  <2> QED BY <2>5, <2>6
<1> QED BY <1>1, <1>2

\* A change of the table is handed on, kept until the scheduler starts, or ignored when it
\* never will.
LEMMA ChangeStep ==
    ASSUME IInv, NEW i \in Reserves, NEW source \in {"insert", "update", "delete"}, NEW row \in Rows,
           source = "delete" => row.isSkip, Change(i, source, row)
    PROVE  IInv'
<1>1. PICK m : m = [source |-> source, res |-> i, row |-> row]
  OBVIOUS
<1>2. m \in Mutations /\ m.res = i /\ m.row = row
  BY <1>1 DEF Mutations
<1>3. /\ ScheduleOK /\ ManagerOK /\ WakeInv /\ RegistryInv /\ FailureInv /\ WorldOK
      /\ queue \in Seq(Mutations) /\ pending \in Seq(Mutations) /\ table \in [Reserves -> Rows]
  BY DEF IInv, TypeOK, ScheduleOK, WorldOK
<1>4. /\ table' = [table EXCEPT ![m.res] = m.row] /\ Accept(m)
      /\ UNCHANGED <<now, candidates, generation, sessionToken, ends, started, evaluating, tail,
                     busy, manager, startup, saved>>
  BY <1>1, <1>2 DEF Change
<1>5. ManagerOK' /\ FailureInv'
  BY <1>3, <1>4 DEF ManagerOK, FailureInv, manager
<1>6. table' \in [Reserves -> Rows]
  BY <1>2, <1>3, <1>4
<1>7. CASE startup = "Started"
  <2>1. queue' = queue \o <<m>> /\ RequestCoalescedEvaluation /\ pending' = pending
    BY <1>4, <1>7 DEF Accept, AcceptMutations
  <2>2. queue' \in Seq(Mutations) /\ Appended(queue', queue, m)
    BY <1>2, <1>3, <2>1, AppendMutation
  <2>3. WakeInv' /\ wake' \in [scheduled : BOOLEAN, microtask : BOOLEAN, timer : Int]
    BY <1>3, <1>4, <2>1, CoalescedWake
  <2>4. ScheduleOK' /\ WorldOK'
    BY <1>3, <1>4, <1>6, <2>1, <2>2, <2>3 DEF ScheduleOK, WorldOK
  <2>5. /\ started /\ Announced(queue, table)
        /\ \A j \in Reserves : ~About(queue, j) => Reflects(candidates[j], table[j], now)
    BY <1>3, <1>7 DEF RegistryInv
  <2>6. /\ Announced(queue', table')
        /\ \A j \in Reserves : ~About(queue', j) => ~About(queue, j) /\ table'[j] = table[j]
    <3>1. table' = [table EXCEPT ![m.res] = m.row] /\ m \in Mutations
      BY <1>2, <1>4
    <3>2. PICK q2, t2 : q2 = queue' /\ t2 = table'
      OBVIOUS
    <3>3. Appended(q2, queue, m) /\ Announced(queue, table)
      BY <2>2, <2>5, <3>2
    <3>4. t2[m.res] = m.row /\ \A j \in Reserves : j # m.res => t2[j] = table[j]
      BY <1>2, <1>3, <3>1, <3>2
    <3>5. Announced(q2, t2) /\ \A j \in Reserves : ~About(q2, j) => ~About(queue, j) /\ t2[j] = table[j]
      BY <1>3, <3>1, <3>3, <3>4, AnnounceOne
    <3> QED BY <3>2, <3>5
  <2>7. \A j \in Reserves : ~About(queue', j) => Reflects(candidates[j], table'[j], now)
    BY <2>5, <2>6
  <2>8. RegistryInv'
    BY <1>4, <1>7, <2>5, <2>6, <2>7 DEF RegistryInv, Announced, About, Reflects
  <2> QED BY <1>5, <2>3, <2>4, <2>8 DEF IInv, TypeOK
<1>8. CASE startup # "Started"
  <2>1. UNCHANGED <<queue, wake>>
    BY <1>4, <1>8 DEF Accept
  <2>2. KeepsSchedule /\ ScheduleOK'
    BY <1>3, <1>4, <2>1, NothingMoves DEF schedule, KeepsSchedule
  <2>3. WakeInv'
    BY <1>3, <1>4, <2>2, DeadlinesKeepWake
  <2>4. ~started /\ \A j \in Reserves : candidates[j].gen = 0
    BY <1>3, <1>8 DEF RegistryInv
  <2>5. CASE startup = "Failed"
    <3>1. pending' = pending
      BY <1>4, <2>5 DEF Accept
    <3>2. WorldOK'
      BY <1>3, <1>4, <1>6, <3>1 DEF WorldOK
    <3>3. RegistryInv'
      BY <1>4, <2>4, <2>5 DEF RegistryInv
    <3> QED BY <1>5, <2>2, <2>3, <3>2, <3>3 DEF IInv, TypeOK
  <2>6. CASE startup \in {"NotStarted", "Starting", "Reading"}
    <3>1. pending' = Append(pending, m)
      BY <1>4, <2>6 DEF Accept
    <3>2. pending' \in Seq(Mutations) /\ Appended(pending', pending, m)
      BY <1>2, <1>3, <3>1, AppendMutation
    <3>3. /\ Announced(pending, table)
          /\ startup = "Reading" => \A j \in Reserves : ~About(pending, j) => saved[j] = table[j]
      BY <1>3, <2>6 DEF RegistryInv
    <3>4. /\ Announced(pending', table')
          /\ \A j \in Reserves : ~About(pending', j) => ~About(pending, j) /\ table'[j] = table[j]
      <4>1. table' = [table EXCEPT ![m.res] = m.row] /\ m \in Mutations
        BY <1>2, <1>4
      <4>2. PICK q2, t2 : q2 = pending' /\ t2 = table'
        OBVIOUS
      <4>3. Appended(q2, pending, m) /\ Announced(pending, table)
        BY <3>2, <3>3, <4>2
      <4>4. t2[m.res] = m.row /\ \A j \in Reserves : j # m.res => t2[j] = table[j]
        BY <1>2, <1>3, <4>1, <4>2
      <4>5. Announced(q2, t2) /\ \A j \in Reserves : ~About(q2, j) => ~About(pending, j) /\ t2[j] = table[j]
        BY <1>3, <4>1, <4>3, <4>4, AnnounceOne
      <4> QED BY <4>2, <4>5
    <3>5. startup = "Reading" => \A j \in Reserves : ~About(pending', j) => saved[j] = table'[j]
      BY <3>3, <3>4
    <3>6. WorldOK'
      BY <1>3, <1>4, <1>6, <3>2 DEF WorldOK
    <3>7. RegistryInv'
      BY <1>4, <1>8, <2>4, <3>4, <3>5 DEF RegistryInv, Announced, About
    <3> QED BY <1>5, <2>2, <2>3, <3>6, <3>7 DEF IInv, TypeOK
  <2> QED BY <1>3, <1>8, <2>5, <2>6 DEF WorldOK
<1> QED BY <1>7, <1>8

\* A reservation is made or changed.
LEMMA ReservationStep ==
    ASSUME IInv, NEW i \in Reserves, NEW s \in Slots, NEW skip \in BOOLEAN,
           Insert(i, s) \/ Update(i, s, skip)
    PROVE  IInv'
<1>1. s.startAt \in Nat /\ s.endAt \in Nat
  BY ManageAssumption
<1>2. \A b \in BOOLEAN : [startAt |-> s.startAt, endAt |-> s.endAt, isSkip |-> b] \in Rows
  BY <1>1 DEF Rows
<1>3. CASE Insert(i, s)
  BY <1>2, <1>3, ChangeStep DEF Insert
<1>4. CASE Update(i, s, skip)
  BY <1>2, <1>4, ChangeStep DEF Update
<1> QED BY <1>3, <1>4

\* A failed recording is put back with the row its session has, which is that of the table:
\* nothing is queued when the database answers.
LEMMA RetryDecidedStep ==
    ASSUME IInv, NEW f \in failures, RetryDecided(f)
    PROVE  IInv'
<1>1. /\ ScheduleOK /\ ManagerOK /\ WakeInv /\ RegistryInv /\ FailureInv /\ WorldOK
      /\ queue \in Seq(Mutations) /\ table \in [Reserves -> Rows]
  BY DEF IInv, TypeOK, ScheduleOK, WorldOK
<1>2. f \in Failures
  BY <1>1 DEF ManagerOK
<1>3. /\ Quiet /\ failures' \subseteq failures
      /\ UNCHANGED <<candidates, generation, sessionToken, ends, started, evaluating, tail, busy,
                     recorders, index, indexToken, claims, attempts, deletionStops, world>>
  BY DEF RetryDecided
<1>4. /\ ManagerOK' /\ WorldOK' /\ FailureInv'
      /\ UNCHANGED <<now, table, startup, saved, pending>>
  <2>1. UNCHANGED <<now, table, startup, saved, pending>>
    BY <1>3 DEF world
  <2>2. ManagerOK'
    BY <1>1, <1>3 DEF ManagerOK
  <2>3. FailureInv'
    BY <1>1, <1>3 DEF FailureInv
  <2> QED BY <1>1, <2>1, <2>2, <2>3 DEF WorldOK
<1>5. CASE UNCHANGED <<queue, wake>>
  <2>1. KeepsSchedule
    BY <1>1, <1>3, <1>5, NothingMoves DEF schedule
  <2> QED BY <1>4, <2>1, InvariantKept
<1>6. CASE ~UNCHANGED <<queue, wake>>
  <2>1. PICK m : m = [source |-> "insert", res |-> f.res, row |-> f.row]
    OBVIOUS
  <2>2. /\ candidates[f.res].gen = f.gen
        /\ queue' = queue \o <<m>> /\ RequestCoalescedEvaluation
    BY <1>6, <2>1 DEF RetryDecided, AcceptMutations
  <2>3. m \in Mutations /\ m.res = f.res /\ m.row = f.row /\ f.res \in Reserves
    BY <1>2, <2>1 DEF Failures, Mutations
  <2>4. f.gen # 0 /\ candidates[f.res].row = f.row /\ candidates[f.res].gen # 0
    BY <1>1, <2>2 DEF FailureInv
  <2>5. started /\ startup = "Started"
    BY <1>1, <2>3, <2>4 DEF RegistryInv
  <2>6. queue = <<>>
    BY <1>1, <1>3, <2>5 DEF Quiet, WakeInv, NoLostWake
  <2>7. /\ Announced(queue, table)
        /\ \A j \in Reserves : ~About(queue, j) => Reflects(candidates[j], table[j], now)
    BY <1>1, <2>5 DEF RegistryInv
  <2>8. table[f.res] = f.row
    <3>1. ~About(queue, f.res)
      BY <2>6, EmptySeq DEF About
    <3> QED BY <2>3, <2>4, <2>7, <3>1 DEF Reflects
  <2>9. table[m.res] = m.row
    BY <2>3, <2>8
  <2>10. queue' \in Seq(Mutations) /\ Appended(queue', queue, m)
    BY <1>1, <2>2, <2>3, AppendMutation
  <2>11. /\ Announced(queue', table)
         /\ \A j \in Reserves : ~About(queue', j) => ~About(queue, j)
    BY <1>1, <2>3, <2>7, <2>9, <2>10, AnnounceOne
  <2>12. RegistryInv'
    BY <1>3, <1>4, <2>5, <2>7, <2>11 DEF RegistryInv, Announced, About, Reflects
  <2>13. WakeInv' /\ wake' \in [scheduled : BOOLEAN, microtask : BOOLEAN, timer : Int]
    BY <1>1, <1>3, <2>2, CoalescedWake
  <2>14. ScheduleOK'
    BY <1>1, <1>3, <2>10, <2>13 DEF ScheduleOK
  <2> QED BY <1>4, <2>12, <2>13, <2>14 DEF IInv, TypeOK
<1> QED BY <1>5, <1>6

-----------------------------------------------------------------------------
(* The start of the scheduler. *)

\* A finite set has an enumeration.
LEMMA Enumeration ==
    ASSUME NEW S, IsFiniteSet(S)
    PROVE  /\ Cardinality(S) \in Nat
           /\ \E s \in [1 .. Cardinality(S) -> S] : \A i \in S : \E k \in DOMAIN s : s[k] = i
<1>1. Cardinality(S) \in Nat /\ ExistsBijection(1 .. Cardinality(S), S)
  BY FS_CardinalityType
<1>2. PICK s : s \in Bijection(1 .. Cardinality(S), S)
  BY <1>1 DEF ExistsBijection
<1>3. /\ s \in [1 .. Cardinality(S) -> S]
      /\ \A i \in S : \E k \in 1 .. Cardinality(S) : s[k] = i
  BY <1>2 DEF Bijection, Surjection
<1>4. DOMAIN s = 1 .. Cardinality(S)
  BY <1>3
<1> QED BY <1>1, <1>3, <1>4

\* A function on 1 .. n is a sequence.
LEMMA FunctionIsSequence ==
    ASSUME NEW S, NEW n \in Nat, NEW f \in [1 .. n -> S]
    PROVE  f \in Seq(S) /\ Len(f) = n
OBVIOUS

\* The rows that are left, in some order, and the mutations that came meanwhile after them
\* are what the table says.
LEMMA AnnounceAll ==
    ASSUME NEW rows \in Seq(Mutations), NEW q \in Seq(Mutations), NEW old \in [Reserves -> Rows],
           NEW t \in [Reserves -> Rows], Announced(q, t),
           \A i \in Reserves : ~About(q, i) => old[i] = t[i],
           \A n \in 1 .. Len(rows) : rows[n].row = old[rows[n].res]
    PROVE  /\ rows \o q \in Seq(Mutations) /\ Announced(rows \o q, t)
           /\ \A i \in Reserves : ~About(rows \o q, i) => ~About(rows, i) /\ ~About(q, i)
<1>1. PICK r : r = rows \o q
  OBVIOUS
<1>2. /\ r \in Seq(Mutations) /\ Len(rows) \in Nat /\ Len(q) \in Nat /\ Len(r) = Len(rows) + Len(q)
      /\ \A n \in 1 .. Len(rows) + Len(q) : r[n] = IF n <= Len(rows) THEN rows[n] ELSE q[n - Len(rows)]
  BY <1>1, ConcatProperties, LenProperties
<1>3. /\ \A n \in 1 .. Len(rows) : n \in 1 .. Len(r) /\ r[n] = rows[n]
      /\ \A n \in 1 .. Len(q) : n + Len(rows) \in 1 .. Len(r) /\ r[n + Len(rows)] = q[n]
                                /\ \A k \in 1 .. Len(rows) : n + Len(rows) > k
  <2>1. ASSUME NEW n \in 1 .. Len(rows) PROVE n \in 1 .. Len(r) /\ r[n] = rows[n]
    BY <1>2
  <2>2. ASSUME NEW n \in 1 .. Len(q)
        PROVE  /\ n + Len(rows) \in 1 .. Len(r) /\ r[n + Len(rows)] = q[n]
               /\ \A k \in 1 .. Len(rows) : n + Len(rows) > k
    <3>1. n + Len(rows) \in 1 .. Len(r) /\ ~(n + Len(rows) <= Len(rows)) /\ (n + Len(rows)) - Len(rows) = n
      BY <1>2
    <3> QED BY <1>2, <3>1
  <2> QED BY <2>1, <2>2
<1>4. \A n \in 1 .. Len(r) : n \in 1 .. Len(rows) \/ \E k \in 1 .. Len(q) : n = k + Len(rows)
  <2>1. ASSUME NEW n \in 1 .. Len(r), n \notin 1 .. Len(rows)
        PROVE  \E k \in 1 .. Len(q) : n = k + Len(rows)
    <3>1. n - Len(rows) \in 1 .. Len(q) /\ n = (n - Len(rows)) + Len(rows)
      BY <1>2, <2>1
    <3> QED BY <3>1
  <2> QED BY <2>1
<1>5. ASSUME NEW n \in 1 .. Len(r), \A m \in 1 .. Len(r) : m > n => r[m].res # r[n].res
      PROVE  r[n].row = t[r[n].res]
  <2>1. CASE n \in 1 .. Len(rows)
    <3>1. r[n] = rows[n] /\ rows[n].res \in Reserves
      BY <1>3, <2>1, MutationTypes
    <3>2. ~About(q, rows[n].res)
      <4>1. ASSUME NEW k \in 1 .. Len(q) PROVE q[k].res # rows[n].res
        <5>1. k + Len(rows) \in 1 .. Len(r) /\ r[k + Len(rows)] = q[k] /\ k + Len(rows) > n
          BY <1>3, <2>1
        <5> QED BY <1>5, <3>1, <5>1
      <4> QED BY <4>1 DEF About
    <3> QED BY <2>1, <3>1, <3>2
  <2>2. ASSUME NEW k \in 1 .. Len(q), n = k + Len(rows)
        PROVE  r[n].row = t[r[n].res]
    <3>1. r[n] = q[k]
      BY <1>3, <2>2
    <3>2. \A m \in 1 .. Len(q) : m > k => q[m].res # q[k].res
      <4>1. ASSUME NEW m \in 1 .. Len(q), m > k PROVE q[m].res # q[k].res
        <5>1. m + Len(rows) > n
          BY <1>2, <2>2, <4>1
        <5> QED BY SMTT(30), <1>3, <1>5, <3>1, <5>1
      <4> QED BY <4>1
    <3> QED BY <3>1, <3>2 DEF Announced
  <2> QED BY <1>4, <2>1, <2>2
<1>6. \A i \in Reserves : ~About(r, i) => ~About(rows, i) /\ ~About(q, i)
  BY <1>3 DEF About
<1> QED BY <1>1, <1>2, <1>5, <1>6 DEF Announced

\* The scheduler starts with the rows it read and the changes that came meanwhile.
LEMMA StartupDoneStep ==
    ASSUME IInv, StartupDone
    PROVE  IInv'
<1>1. /\ ScheduleOK /\ ManagerOK /\ RegistryInv /\ FailureInv /\ WorldOK /\ startup = "Reading"
      /\ now \in Nat /\ table \in [Reserves -> Rows] /\ saved \in [Reserves -> Rows]
      /\ pending \in Seq(Mutations) /\ generation \in Nat /\ sessionToken \in Nat
  BY DEF IInv, TypeOK, WorldOK, ScheduleOK, StartupDone
<1>2. /\ Announced(pending, table) /\ \A i \in Reserves : ~About(pending, i) => saved[i] = table[i]
  BY <1>1 DEF RegistryInv
<1>3. PICK keep : keep = {i \in Reserves : ~saved[i].isSkip /\ saved[i].endAt > now}
  OBVIOUS
<1>4. PICK ids : ids = CHOOSE s \in [1 .. Cardinality(keep) -> keep] :
                          \A i \in keep : \E k \in DOMAIN s : s[k] = i
  OBVIOUS
<1>5. PICK rows : rows = [k \in DOMAIN ids |-> [source |-> "insert", res |-> ids[k], row |-> saved[ids[k]]]]
  OBVIOUS
<1>6. /\ candidates' = [i \in Reserves |->
             IF i \notin keep THEN NoCandidate
             ELSE [row |-> saved[i], gen |-> generation + 1, token |-> sessionToken + 1,
                   phase |-> "Waiting"]]
      /\ generation' = generation + 1 /\ sessionToken' = sessionToken + 1
      /\ queue' = rows \o pending /\ pending' = <<>>
      /\ started' = TRUE /\ evaluating' = TRUE /\ wake' = InvalidateScheduledWake
      /\ startup' = "Started" /\ saved' = [i \in Reserves |-> NoRow]
      /\ UNCHANGED <<ends, tail, busy, manager, now, table, changes>>
  BY <1>3, <1>4, <1>5 DEF StartupDone
<1>7. /\ Cardinality(keep) \in Nat /\ ids \in [1 .. Cardinality(keep) -> keep]
      /\ \A i \in keep : \E k \in 1 .. Cardinality(keep) : ids[k] = i
  <2>1. IsFiniteSet(keep)
    BY <1>3, ManageAssumption, FS_Subset
  <2>2. /\ ids \in [1 .. Cardinality(keep) -> keep]
        /\ \A i \in keep : \E k \in DOMAIN ids : ids[k] = i
    BY <1>4, <2>1, Enumeration
  <2> QED BY <2>1, <2>2, Enumeration
<1>8. /\ rows \in Seq(Mutations) /\ Len(rows) = Cardinality(keep)
      /\ \A n \in 1 .. Len(rows) : rows[n].res = ids[n] /\ rows[n].row = saved[ids[n]]
  <2>1. ASSUME NEW n \in 1 .. Cardinality(keep)
        PROVE  [source |-> "insert", res |-> ids[n], row |-> saved[ids[n]]] \in Mutations
    <3>1. ids[n] \in Reserves /\ saved[ids[n]] \in Rows
      BY <1>1, <1>3, <1>7
    <3> QED BY <3>1 DEF Mutations
  <2>2. rows \in [1 .. Cardinality(keep) -> Mutations]
    BY <1>5, <1>7, <2>1
  <2>3. rows \in Seq(Mutations) /\ Len(rows) = Cardinality(keep)
    BY <1>7, <2>2, FunctionIsSequence
  <2> QED BY <1>5, <1>7, <2>3
<1>9. \A i \in Reserves : ~About(rows, i) => i \notin keep
  BY <1>7, <1>8 DEF About
<1>10. /\ queue' \in Seq(Mutations) /\ Announced(queue', table)
       /\ \A i \in Reserves : ~About(queue', i) => i \notin keep /\ ~About(pending, i)
  <2>1. \A n \in 1 .. Len(rows) : rows[n].row = saved[rows[n].res]
    BY <1>8
  <2>2. /\ rows \o pending \in Seq(Mutations) /\ Announced(rows \o pending, table)
        /\ \A i \in Reserves : ~About(rows \o pending, i) => ~About(rows, i) /\ ~About(pending, i)
    BY <1>1, <1>2, <1>8, <2>1, AnnounceAll
  <2>3. PICK r : r = rows \o pending
    OBVIOUS
  <2>4. queue' = r
    BY <1>6, <2>3
  <2> QED BY <1>9, <2>2, <2>3, <2>4
<1>11. candidates' \in [Reserves -> Candidates]
  BY <1>1, <1>6 DEF Candidates, NoCandidate, NoRow, Rows, Phases
<1>12. ScheduleOK'
  <2>1. NoTime \in Int
    BY DEF NoTime
  <2>2. wake' \in [scheduled : BOOLEAN, microtask : BOOLEAN, timer : Int]
    BY <1>6, <2>1, Zenon DEF InvalidateScheduledWake
  <2>3. generation' \in Nat /\ sessionToken' \in Nat
    BY <1>1, <1>6
  <2>4. ends' \in [Reserves -> Ends] /\ started' \in BOOLEAN /\ evaluating' \in BOOLEAN
    BY <1>1, <1>6 DEF ScheduleOK
  <2> QED BY <1>10, <1>11, <2>2, <2>3, <2>4 DEF ScheduleOK
<1>13. ManagerOK'
  BY <1>1, <1>6 DEF ManagerOK, manager
<1>14. WorldOK'
  BY <1>1, <1>6, EmptySeq DEF WorldOK, Rows, NoRow
<1>15. WakeInv'
  BY <1>6 DEF WakeInv, NoLostWake, InvalidateScheduledWake
<1>16. RegistryInv'
  <2>1. ASSUME NEW i \in Reserves, ~About(queue', i)
        PROVE  Reflects(candidates'[i], table[i], now)
    <3>1. i \notin keep /\ saved[i] = table[i]
      BY <1>2, <1>10, <2>1
    <3>2. candidates'[i].gen = 0
      BY <1>6, <3>1 DEF NoCandidate
    <3> QED BY <1>3, <3>1, <3>2 DEF Reflects
  <2> QED BY <1>6, <1>10, <2>1 DEF RegistryInv, Announced, About, Reflects
<1>17. FailureInv'
  <2>1. \A i \in Reserves : candidates'[i].gen = 0 \/ candidates'[i].gen = generation + 1
    BY <1>6 DEF NoCandidate
  <2>2. \A f \in failures : f.res \in Reserves /\ f.gen \in Nat /\ f.gen # 0 /\ f.gen <= generation
    BY <1>1 DEF ManagerOK, Failures, FailureInv
  <2>3. failures' = failures
    BY <1>6 DEF manager
  <2>4. \A i \in Reserves : candidates'[i].gen <= generation + 1
    BY <1>1, <2>1
  <2>5. \A f \in failures : f.gen <= generation + 1 /\ candidates'[f.res].gen # f.gen
    BY <1>1, <2>1, <2>2
  <2> QED BY <1>6, <2>2, <2>3, <2>4, <2>5 DEF FailureInv
<1> QED BY <1>12, <1>13, <1>14, <1>15, <1>16, <1>17 DEF IInv, TypeOK

\* A step that keeps the registry and leaves the manager and the world alone.
LEMMA RegistryStep ==
    ASSUME IInv, ScheduleOK', ManagerOK', WakeInv', KeepsRegistry, failures' = failures,
           UNCHANGED <<now, table, startup, saved, pending>>
    PROVE  IInv'
<1>1. WorldOK'
  BY DEF IInv, TypeOK, WorldOK
<1>2. RegistryInv'
  BY RegistryKept DEF IInv
<1>3. FailureInv'
  BY FailuresKept DEF IInv
<1> QED BY <1>1, <1>2, <1>3 DEF IInv, TypeOK

\* The rows are asked for and read; the start fails; the timer is reset; time passes.
LEMMA StartupSteps ==
    ASSUME IInv, StartupBegin \/ StartupRead \/ StartupFails \/ ResetTimer \/ Tick
    PROVE  IInv'
<1>1. /\ ScheduleOK /\ ManagerOK /\ WakeInv /\ RegistryInv /\ FailureInv /\ WorldOK
  BY DEF IInv, TypeOK
<1>2. UNCHANGED <<tail, busy, manager>>
  BY DEF StartupBegin, StartupRead, StartupFails, ResetTimer, Tick
<1>3. ManagerOK'
  BY <1>1, <1>2 DEF ManagerOK, manager
<1>4. CASE StartupBegin \/ StartupRead \/ StartupFails
  <2>1. /\ UNCHANGED <<schedule, now, table>> /\ startup # "Started" /\ startup' # "Started"
        /\ \/ startup' = "Starting" /\ UNCHANGED <<saved, pending>> /\ startup = "NotStarted"
           \/ /\ startup = "Starting" /\ startup' = "Reading" /\ saved' = table /\ pending' = pending
           \/ startup' = "Failed" /\ pending' = <<>> /\ saved' = [i \in Reserves |-> NoRow]
    BY <1>4 DEF StartupBegin, StartupRead, StartupFails
  <2>2. ScheduleOK' /\ KeepsSchedule
    BY <1>1, <2>1, NothingMoves DEF KeepsSchedule
  <2>3. WakeInv'
    BY <1>1, <2>1, <2>2, DeadlinesKeepWake
  <2>4. WorldOK'
    <3>1. NoRow \in Rows /\ <<>> \in Seq(Mutations)
      BY EmptySeq DEF Rows, NoRow
    <3>2. now' \in Nat /\ table' \in [Reserves -> Rows]
      BY <1>1, <2>1 DEF WorldOK
    <3>3. saved' \in [Reserves -> Rows] /\ pending' \in Seq(Mutations)
      BY <1>1, <2>1, <3>1 DEF WorldOK
    <3>4. startup' \in {"NotStarted", "Starting", "Reading", "Started", "Failed"}
      BY <2>1
    <3> QED BY <3>2, <3>3, <3>4 DEF WorldOK
  <2>5. ~started' /\ \A i \in Reserves : candidates'[i].gen = 0
    BY <1>1, <2>1 DEF schedule, RegistryInv
  <2>6. startup' \in {"NotStarted", "Starting", "Reading"} => Announced(pending', table')
    BY <1>1, <2>1 DEF RegistryInv
  <2>7. startup' = "Reading" => \A i \in Reserves : saved'[i] = table'[i]
    BY <2>1
  <2>8. RegistryInv'
    BY <2>1, <2>5, <2>6, <2>7 DEF RegistryInv, Announced, About
  <2>9. FailureInv'
    BY <1>1, <1>2, <2>1 DEF FailureInv, schedule, manager
  <2> QED BY <1>3, <2>2, <2>3, <2>4, <2>8, <2>9 DEF IInv, TypeOK
<1>5. CASE ResetTimer
  <2>1. /\ RequestCoalescedEvaluation
        /\ UNCHANGED <<candidates, generation, sessionToken, ends, queue, started, evaluating, world>>
    BY <1>5 DEF ResetTimer
  <2>2. WakeInv' /\ wake' \in [scheduled : BOOLEAN, microtask : BOOLEAN, timer : Int]
    BY <1>1, <2>1, CoalescedWake
  <2>3. ScheduleOK' /\ KeepsRegistry
    BY <1>1, <2>1, <2>2 DEF ScheduleOK, KeepsRegistry
  <2> QED BY <1>2, <1>3, <2>1, <2>2, <2>3, RegistryStep DEF manager, world
<1>6. CASE Tick
  <2>1. now' = now + 1 /\ UNCHANGED <<schedule, table, startup, saved, pending>> /\ now \in Nat
    BY <1>1, <1>6 DEF Tick, WorldOK
  <2>2. ScheduleOK' /\ WorldOK' /\ FailureInv'
    <3>1. ScheduleOK'
      BY <1>1, <2>1 DEF ScheduleOK, schedule
    <3>2. WorldOK'
      BY <1>1, <2>1 DEF WorldOK
    <3>3. FailureInv'
      BY <1>1, <1>2, <2>1 DEF FailureInv, schedule, manager
    <3> QED BY <3>1, <3>2, <3>3
  <2>3. WakeInv'
    <3>1. Deadlines(ends)' = Deadlines(ends) /\ wake' = wake /\ queue' = queue /\ started' = started
          /\ evaluating' = evaluating
      BY <2>1 DEF Deadlines, schedule
    <3>2. wake.timer <= now + ScanInterval => wake.timer <= now' + ScanInterval
      BY <1>1, <2>1, ScheduleAssumption DEF ScheduleOK
    <3> QED BY <1>1, <3>1, <3>2 DEF WakeInv, NoLostWake
  <2>4. \A i \in Reserves : Reflects(candidates[i], table[i], now) => Reflects(candidates[i], table[i], now')
    <3>1. ASSUME NEW i \in Reserves, table[i].endAt > now' PROVE table[i].endAt > now
      <4>1. table[i].endAt \in Nat
        BY <1>1 DEF WorldOK, Rows
      <4> QED BY <2>1, <3>1, <4>1
    <3> QED BY <3>1 DEF Reflects
  <2>5. RegistryInv'
    BY <1>1, <2>1, <2>4 DEF RegistryInv, Announced, About, Reflects, schedule
  <2> QED BY <1>3, <2>2, <2>3, <2>5 DEF IInv, TypeOK
<1> QED BY <1>4, <1>5, <1>6

-----------------------------------------------------------------------------
(* evaluate. *)

\* A session operation is launched.
LEMMA LaunchStep ==
    ASSUME ManagerOK, NEW op \in Operations, Launch(op), claims' \subseteq Reserves,
           UNCHANGED <<busy, recorders, index, indexToken, failures, attempts, deletionStops>>
    PROVE  ManagerOK'
<1>1. tail' \in Seq(Operations) /\ tail' # <<>>
  BY TailTypes DEF Launch
<1> QED BY <1>1 DEF ManagerOK

\* What is left in the queue when its first mutation is applied.
LEMMA QueueTail ==
    ASSUME NEW q \in Seq(Mutations), q # <<>>, NEW t, Announced(q, t)
    PROVE  /\ Tail(q) \in Seq(Mutations) /\ Head(q) \in Mutations /\ Announced(Tail(q), t)
           /\ \A i \in Reserves : ~About(Tail(q), i) /\ i # Head(q).res => ~About(q, i)
           /\ ~About(Tail(q), Head(q).res) => Head(q).row = t[Head(q).res]
<1>1. PICK r : r = Tail(q)
  OBVIOUS
<1>2. /\ Len(q) \in Nat \ {0} /\ r \in Seq(Mutations) /\ Len(r) = Len(q) - 1 /\ Len(r) \in Nat
      /\ Head(q) = q[1] /\ Head(q) \in Mutations /\ \A n \in 1 .. Len(r) : r[n] = q[n + 1]
  BY <1>1, EmptySeq, HeadTailProperties, LenProperties
<1>3. /\ \A n \in 1 .. Len(r) : n + 1 \in 1 .. Len(q)
      /\ \A n \in 1 .. Len(q) : n = 1 \/ (n - 1 \in 1 .. Len(r) /\ r[n - 1] = q[n])
  <2>1. \A n \in 1 .. Len(r) : n + 1 \in 1 .. Len(q)
    BY <1>2
  <2>2. ASSUME NEW n \in 1 .. Len(q), n # 1 PROVE n - 1 \in 1 .. Len(r) /\ r[n - 1] = q[n]
    <3>1. n - 1 \in 1 .. Len(r) /\ (n - 1) + 1 = n
      BY <1>2, <2>2
    <3> QED BY <1>2, <3>1
  <2> QED BY <2>1, <2>2
<1>4. Announced(r, t)
  <2>1. ASSUME NEW n \in 1 .. Len(r), \A m \in 1 .. Len(r) : m > n => r[m].res # r[n].res
        PROVE  r[n].row = t[r[n].res]
    <3>1. r[n] = q[n + 1] /\ n + 1 \in 1 .. Len(q)
      BY <1>2, <1>3
    <3>2. ASSUME NEW m \in 1 .. Len(q), m > n + 1 PROVE q[m].res # q[n + 1].res
      <4>1. m - 1 \in 1 .. Len(r) /\ m - 1 > n /\ m # 1
        BY <1>2, <3>2
      <4> QED BY <1>3, <2>1, <3>1, <4>1
    <3> QED BY <3>1, <3>2 DEF Announced
  <2> QED BY <2>1 DEF Announced
<1>5. ASSUME NEW i \in Reserves, ~About(r, i), i # Head(q).res PROVE ~About(q, i)
  <2>1. \A n \in 1 .. Len(q) : q[n].res # i
    BY <1>2, <1>3, <1>5 DEF About
  <2> QED BY <2>1 DEF About
<1>6. ASSUME ~About(r, Head(q).res) PROVE Head(q).row = t[Head(q).res]
  <2>1. \A m \in 1 .. Len(q) : m > 1 => q[m].res # q[1].res
    <3>1. ASSUME NEW m \in 1 .. Len(q), m > 1 PROVE q[m].res # q[1].res
      <4>1. m # 1
        BY <3>1
      <4> QED BY <1>2, <1>3, <1>6, <4>1 DEF About
    <3> QED BY <3>1
  <2>2. 1 \in 1 .. Len(q)
    BY <1>2
  <2> QED BY <1>2, <2>1, <2>2 DEF Announced
<1> QED BY <1>1, <1>2, <1>4, <1>5, <1>6

\* Applying a mutation gives its reservation the row it announces, or takes it away.
LEMMA ApplyMoves ==
    ASSUME ScheduleOK, NEW m \in Mutations,
           IF m.source = "delete" THEN ApplyRemove(m) ELSE ApplyUpsert(m)
    PROVE  \E c \in Candidates :
              /\ candidates' = [candidates EXCEPT ![m.res] = c]
              /\ c.gen = 0 \/ c.gen = generation + 1
              /\ c.gen # 0 => c.row = m.row
              /\ c.gen = 0 <=> m.row.isSkip
              /\ sessionToken' \in Nat
              /\ tail' = tail \/ \E op \in Operations : Launch(op)
<1>1. /\ m.res \in Reserves /\ m.row \in Rows /\ m.source \in {"insert", "update", "delete"}
      /\ m.source = "delete" => m.row.isSkip
      /\ generation \in Nat /\ sessionToken \in Nat /\ candidates[m.res] \in Candidates
      /\ candidates[m.res].token \in Nat /\ candidates[m.res].phase \in Phases
  BY DEF Mutations, ScheduleOK, Candidates
<1>2. NoCandidate \in Candidates /\ NoCandidate.gen = 0
  BY DEF NoCandidate, NoRow, Candidates, Rows, Phases
<1>3. \A token \in Nat, prev \in Nat, kind \in {"apply", "remove"} :
         [kind |-> kind, res |-> m.res, gen |-> generation + 1, token |-> token, prev |-> prev] \in Operations
  BY <1>1 DEF Operations
<1>4. CASE m.source = "delete"
  <2>1. /\ candidates' = [candidates EXCEPT ![m.res] = NoCandidate] /\ sessionToken' = sessionToken
        /\ Launch([kind |-> "remove", res |-> m.res, gen |-> generation + 1, token |-> 0,
                   prev |-> candidates[m.res].token])
    BY <1>4 DEF ApplyRemove
  <2>2. \E op \in Operations : Launch(op)
    BY <1>1, <1>3, <2>1
  <2> QED BY <1>1, <1>2, <1>4, <2>1, <2>2
<1>5. CASE m.source # "delete" /\ m.row.isSkip
  <2>1. /\ candidates' = [candidates EXCEPT ![m.res] = NoCandidate] /\ sessionToken' = sessionToken
        /\ \/ Launch([kind |-> "remove", res |-> m.res, gen |-> generation + 1, token |-> 0,
                      prev |-> candidates[m.res].token])
           \/ tail' = tail
    BY <1>5 DEF ApplyUpsert
  <2>2. tail' = tail \/ \E op \in Operations : Launch(op)
    BY <1>1, <1>3, <2>1
  <2> QED BY <1>1, <1>2, <1>5, <2>1, <2>2
<1>6. CASE m.source # "delete" /\ ~m.row.isSkip
  <2>1. PICK keep \in BOOLEAN : keep = (m.source = "update" /\ IsCandidate(m.res))
    OBVIOUS
  <2>2. PICK token, phase : /\ token = IF keep THEN candidates[m.res].token ELSE sessionToken + 1
                            /\ phase = IF keep THEN candidates[m.res].phase ELSE "Waiting"
    OBVIOUS
  <2>3. PICK c : c = [row |-> m.row, gen |-> generation + 1, token |-> token, phase |-> phase]
    OBVIOUS
  <2>4. /\ candidates' = [candidates EXCEPT ![m.res] = c]
        /\ sessionToken' = IF keep THEN sessionToken ELSE sessionToken + 1
        /\ Launch([kind |-> "apply", res |-> m.res, gen |-> c.gen, token |-> c.token,
                   prev |-> candidates[m.res].token])
    BY <1>6, <2>1, <2>2, <2>3 DEF ApplyUpsert
  <2>5. token \in Nat /\ phase \in Phases /\ sessionToken' \in Nat
    BY <1>1, <2>2, <2>4 DEF Phases
  <2>6. c \in Candidates /\ c.gen = generation + 1 /\ c.gen # 0 /\ c.row = m.row /\ c.token = token
    BY <1>1, <2>3, <2>5 DEF Candidates
  <2>7. \E op \in Operations : Launch(op)
    BY <1>1, <1>3, <2>4, <2>5, <2>6
  <2> QED BY <1>6, <2>4, <2>5, <2>6, <2>7
<1> QED BY <1>1, <1>4, <1>5, <1>6

\* applyQueuedWork, one mutation: its reservation has the row that was announced last.
LEMMA EvalApplyStep ==
    ASSUME IInv, EvalApply, claims' \subseteq claims,
           UNCHANGED <<busy, recorders, index, indexToken, failures, attempts, deletionStops, world>>
    PROVE  IInv'
<1>1. /\ ScheduleOK /\ ManagerOK /\ WakeInv /\ RegistryInv /\ FailureInv /\ WorldOK
      /\ queue \in Seq(Mutations) /\ queue # <<>> /\ generation \in Nat /\ evaluating
  BY DEF IInv, TypeOK, ScheduleOK, EvalApply
<1>2. started /\ startup = "Started"
  BY <1>1 DEF WakeInv, RegistryInv
<1>3. /\ Announced(queue, table)
      /\ \A i \in Reserves : ~About(queue, i) => Reflects(candidates[i], table[i], now)
  BY <1>1, <1>2 DEF RegistryInv
<1>4. PICK m : m = Head(queue)
  OBVIOUS
<1>5. PICK q : q = Tail(queue)
  OBVIOUS
<1>6. /\ q \in Seq(Mutations) /\ m \in Mutations /\ Announced(q, table)
      /\ \A i \in Reserves : ~About(q, i) /\ i # m.res => ~About(queue, i)
      /\ ~About(q, m.res) => m.row = table[m.res]
  BY <1>1, <1>3, <1>4, <1>5, QueueTail
<1>7. /\ queue' = q /\ generation' = generation + 1 /\ ends' = [ends EXCEPT ![m.res] = NoEnd]
      /\ IF m.source = "delete" THEN ApplyRemove(m) ELSE ApplyUpsert(m)
      /\ UNCHANGED <<started, evaluating, wake>>
  BY <1>4, <1>5 DEF EvalApply
<1>8. PICK c \in Candidates :
         /\ candidates' = [candidates EXCEPT ![m.res] = c]
         /\ c.gen = 0 \/ c.gen = generation + 1
         /\ c.gen # 0 => c.row = m.row
         /\ c.gen = 0 <=> m.row.isSkip
         /\ sessionToken' \in Nat
         /\ tail' = tail \/ \E op \in Operations : Launch(op)
  BY <1>1, <1>6, <1>7, ApplyMoves
<1>9. /\ m.res \in Reserves /\ candidates \in [Reserves -> Candidates] /\ ends \in [Reserves -> Ends]
      /\ NoEnd \in Ends
  BY <1>1, <1>6 DEF ScheduleOK, Mutations, NoEnd, Ends
<1>10. /\ candidates' \in [Reserves -> Candidates] /\ ends' \in [Reserves -> Ends]
       /\ candidates'[m.res] = c /\ \A i \in Reserves : i # m.res => candidates'[i] = candidates[i]
  BY <1>7, <1>8, <1>9
<1>11. ScheduleOK'
  BY <1>1, <1>6, <1>7, <1>8, <1>10 DEF ScheduleOK
<1>12. ManagerOK'
  <2>1. claims' \subseteq Reserves
    BY <1>1 DEF ManagerOK
  <2>2. CASE tail' = tail
    BY <1>1, <2>1, <2>2 DEF ManagerOK
  <2>3. ASSUME NEW op \in Operations, Launch(op) PROVE ManagerOK'
    BY <1>1, <2>1, <2>3, LaunchStep
  <2> QED BY <1>8, <2>2, <2>3
<1>13. WorldOK' /\ UNCHANGED <<now, table, startup, saved, pending>>
  BY <1>1 DEF WorldOK, world
<1>14. WakeInv'
  BY <1>1, <1>7 DEF WakeInv, NoLostWake
<1>15. RegistryInv'
  <2>1. ASSUME NEW i \in Reserves, ~About(q, i)
        PROVE  Reflects(candidates'[i], table[i], now)
    <3>1. CASE i = m.res
      <4>1. candidates'[i] = c /\ m.row = table[i]
        BY <1>6, <1>10, <2>1, <3>1
      <4>2. /\ candidates'[i].gen # 0 => candidates'[i].row = table[i] /\ ~table[i].isSkip
            /\ ~table[i].isSkip => candidates'[i].gen # 0
        BY <1>8, <4>1, Zenon
      <4> QED BY <4>2 DEF Reflects
    <3>2. CASE i # m.res
      BY <1>3, <1>6, <1>10, <2>1, <3>2
    <3> QED BY <3>1, <3>2
  <2> QED BY <1>2, <1>6, <1>7, <1>13, <2>1 DEF RegistryInv, Announced, About, Reflects
<1>16. FailureInv'
  <2>1. \A i \in Reserves : candidates[i].gen \in Nat /\ candidates[i].gen <= generation
    BY <1>1, <1>9 DEF FailureInv, Candidates
  <2>2. \A f \in failures : /\ f.res \in Reserves /\ f.gen \in Nat /\ f.gen # 0 /\ f.gen <= generation
                            /\ candidates[f.res].gen = f.gen => candidates[f.res].row = f.row
    BY <1>1 DEF ManagerOK, Failures, FailureInv
  <2>3. \A i \in Reserves : candidates'[i].gen <= generation + 1
    <3>1. ASSUME NEW i \in Reserves PROVE candidates'[i].gen <= generation + 1
      <4>1. candidates'[i].gen \in {0, generation + 1, candidates[i].gen}
        BY <1>8, <1>10
      <4> QED BY <1>1, <2>1, <4>1
    <3> QED BY <3>1
  <2>4. ASSUME NEW f \in failures
        PROVE  /\ f.gen <= generation + 1
               /\ candidates'[f.res].gen = f.gen => candidates'[f.res].row = f.row
    <3>1. f.gen <= generation + 1 /\ f.gen # 0 /\ f.gen # generation + 1
      BY <1>1, <2>2
    <3>2. CASE f.res = m.res
      BY <1>8, <1>10, <3>1, <3>2
    <3>3. CASE f.res # m.res
      BY <1>10, <2>2, <3>1, <3>3
    <3> QED BY <3>1, <3>2, <3>3
  <2> QED BY <1>7, <2>2, <2>3, <2>4 DEF FailureInv
<1> QED BY <1>11, <1>12, <1>13, <1>14, <1>15, <1>16 DEF IInv, TypeOK

\* What is due is dispatched: a preparation, a session that is over, or an end.
LEMMA EvalDispatchStep ==
    ASSUME IInv, NEW i \in Reserves, EvalPrepare(i) \/ EvalEnd(i),
           UNCHANGED <<busy, recorders, index, indexToken, claims, failures, attempts, deletionStops, world>>
    PROVE  IInv'
<1>1. /\ ScheduleOK /\ ManagerOK /\ candidates[i] \in Candidates /\ ends[i] \in Ends
      /\ ends \in [Reserves -> Ends] /\ NoEnd \in Ends
  BY DEF IInv, TypeOK, ScheduleOK, NoEnd, Ends
<1>2. PICK c, e : c = candidates[i] /\ e = ends[i]
  OBVIOUS
<1>3. c.gen \in Nat /\ c.token \in Nat /\ e.gen \in Nat /\ e.token \in Nat
  BY <1>1, <1>2 DEF Candidates, Ends
<1>4. PICK phase \in {"Completed", "Preparing", "Finishing"} :
         candidates' = [candidates EXCEPT ![i].phase = phase]
  BY DEF EvalPrepare, EvalEnd
<1>5. \/ tail' = tail
      \/ Launch([kind |-> "prepare", res |-> i, gen |-> c.gen, token |-> c.token, prev |-> 0])
      \/ Launch([kind |-> "finish", res |-> i, gen |-> e.gen, token |-> e.token, prev |-> 0])
  BY <1>2 DEF EvalPrepare, EvalEnd
<1>6. /\ ends' = ends \/ ends' = [ends EXCEPT ![i] = NoEnd]
      /\ UNCHANGED <<generation, sessionToken, queue, started, evaluating, wake>>
  BY DEF EvalPrepare, EvalEnd
<1>7. KeepsSchedule
  <2>1. PICK d : d = [c EXCEPT !.phase = phase]
    OBVIOUS
  <2>2. d \in Candidates /\ d.gen = c.gen /\ d.row = c.row /\ d.phase # "Waiting"
    BY <1>1, <1>2, <2>1 DEF Candidates, Phases
  <2>3. candidates' = [candidates EXCEPT ![i] = d]
    BY <1>2, <1>4, <2>1
  <2>4. ends' \in [Reserves -> Ends] /\ \A j \in Reserves : ends'[j].gen # 0 => ends'[j] = ends[j]
    BY <1>1, <1>6 DEF NoEnd
  <2> QED BY <1>1, <1>2, <1>6, <2>2, <2>3, <2>4, MoveKeeps
<1>8. ManagerOK'
  <2>1. claims' \subseteq Reserves
    BY <1>1 DEF ManagerOK
  <2>2. CASE tail' = tail
    BY <1>1, <2>1, <2>2 DEF ManagerOK
  <2>3. ASSUME NEW op \in Operations, Launch(op) PROVE ManagerOK'
    BY <1>1, <2>1, <2>3, LaunchStep
  <2>4. \A kind \in {"prepare", "finish"}, g \in Nat, t \in Nat :
           [kind |-> kind, res |-> i, gen |-> g, token |-> t, prev |-> 0] \in Operations
    BY DEF Operations
  <2> QED BY <1>3, <1>5, <2>2, <2>3, <2>4
<1> QED BY <1>7, <1>8, QuietStep

\* The delay is the shortest there is, and never longer than the scan interval.
LEMMA DelayIsLeast ==
    ASSUME NEW at \in Nat, NEW D, D \subseteq Int
    PROVE  LET delay == ComputeNextDelay(at, D)
           IN  /\ delay \in Nat /\ delay <= ScanInterval
               /\ \A d \in D : delay # 0 => at + delay <= d
<1>1. PICK until : until = {IF d > at THEN d - at ELSE 0 : d \in D} \cup {ScanInterval}
  OBVIOUS
<1>2. until \subseteq Nat /\ until # {} /\ ScanInterval \in until
  BY <1>1, ScheduleAssumption
<1>3. PICK m \in until : \A n \in until : ~(<<n, m>> \in OpToRel(<, Nat))
  BY <1>2, NatLessThanWellFounded, WFMin
<1>4. ASSUME NEW n \in until PROVE m <= n
  <2> SUFFICES ASSUME ~(m <= n) PROVE FALSE
    OBVIOUS
  <2>1. n < m /\ n \in Nat /\ m \in Nat
    BY <1>2
  <2>2. <<n, m>> \in OpToRel(<, Nat)
    BY <2>1 DEF OpToRel
  <2> QED BY <1>3, <2>2
<1>5. PICK delay : delay = ComputeNextDelay(at, D)
  OBVIOUS
<1>6. delay \in until /\ \A n \in until : delay <= n
  BY <1>1, <1>4, <1>5 DEF ComputeNextDelay
<1>7. delay \in Nat /\ delay <= ScanInterval
  BY <1>2, <1>6
<1>8. ASSUME NEW d \in D, delay # 0 PROVE at + delay <= d
  <2>1. (IF d > at THEN d - at ELSE 0) \in until
    BY <1>1
  <2>2. delay <= IF d > at THEN d - at ELSE 0
    BY <1>6, <2>1
  <2>3. d \in Int
    OBVIOUS
  <2> QED BY <1>7, <1>8, <2>2, <2>3
<1> QED BY <1>5, <1>7, <1>8

\* The end of evaluate: the wake that is armed is early enough for every deadline.
LEMMA EvalDoneStep ==
    ASSUME IInv, EvalDone,
           UNCHANGED <<busy, recorders, index, indexToken, claims, failures, attempts, deletionStops, world>>
    PROVE  IInv'
<1>1. /\ ScheduleOK /\ ManagerOK /\ WakeInv /\ now \in Nat /\ ScanInterval \in Nat
      /\ candidates \in [Reserves -> Candidates] /\ ends \in [Reserves -> Ends] /\ NoEnd \in Ends
  BY ScheduleAssumption DEF IInv, TypeOK, WorldOK, ScheduleOK, NoEnd, Ends
<1>2. PICK left : left = [i \in Reserves |-> IF IsActiveEnd(i, candidates[i], ends[i].gen) /\ ends[i].gen # 0
                                               THEN ends[i] ELSE NoEnd]
  OBVIOUS
<1>3. PICK D : D = Deadlines(left)
  OBVIOUS
<1>4. PICK delay : delay = ComputeNextDelay(now, D)
  OBVIOUS
<1>5. /\ evaluating /\ queue = <<>> /\ evaluating' = FALSE /\ ends' = left
      /\ wake' = IF delay = 0 THEN [scheduled |-> TRUE, microtask |-> TRUE, timer |-> NoTime]
                 ELSE [wake EXCEPT !.timer = now + delay]
      /\ UNCHANGED <<candidates, generation, sessionToken, queue, started, tail>>
  BY <1>2, <1>3, <1>4 DEF EvalDone, ArmSingleWake
<1>6. left \in [Reserves -> Ends]
  BY <1>1, <1>2
<1>7. D \subseteq Int
  <2>1. \A i \in Reserves : candidates[i].row.startAt - Lead \in Int
    BY <1>1, ScheduleAssumption DEF Candidates, Rows
  <2>2. \A i \in Reserves : left[i].dueAt \in Int
    BY <1>6 DEF Ends
  <2> QED BY <1>3, <2>1, <2>2 DEF Deadlines
<1>8. delay \in Nat /\ delay <= ScanInterval /\ \A d \in D : delay # 0 => now + delay <= d
  BY <1>1, <1>4, <1>7, DelayIsLeast
<1>9. started /\ started'
  BY <1>1, <1>5 DEF WakeInv
<1>10. Deadlines(ends)' = D
  BY <1>3, <1>5 DEF Deadlines
<1>11. wake' \in [scheduled : BOOLEAN, microtask : BOOLEAN, timer : Int]
  <2>1. NoTime \in Int /\ now + delay \in Int
    BY <1>1, <1>8 DEF NoTime
  <2>2. wake \in [scheduled : BOOLEAN, microtask : BOOLEAN, timer : Int]
    BY <1>1 DEF ScheduleOK
  <2>3. CASE delay = 0
    BY <1>5, <2>1, <2>3, Zenon
  <2>4. CASE delay # 0
    <3>1. PICK at : at = now + delay
      OBVIOUS
    <3>2. wake' = [wake EXCEPT !.timer = at] /\ at \in Int
      BY <1>5, <2>1, <2>4, <3>1
    <3> QED BY <2>2, <3>2
  <2> QED BY <2>3, <2>4
<1>12. WakeInv'
  <2>1. CASE delay = 0
    <3>1. wake' = [scheduled |-> TRUE, microtask |-> TRUE, timer |-> NoTime]
      BY <1>5, <2>1
    <3>2. wake'.scheduled /\ wake'.microtask
      BY <3>1
    <3> QED BY <1>5, <1>9, <3>2 DEF WakeInv, NoLostWake
  <2>2. CASE delay # 0
    <3>1. PICK at : at = now + delay
      OBVIOUS
    <3>2. wake' = [wake EXCEPT !.timer = at]
      BY <1>5, <2>2, <3>1
    <3>3. wake \in [scheduled : BOOLEAN, microtask : BOOLEAN, timer : Int]
      BY <1>1 DEF ScheduleOK
    <3>4. wake'.timer = at /\ wake'.scheduled = wake.scheduled /\ wake'.microtask = wake.microtask
      BY <3>2, <3>3
    <3>5. at # NoTime /\ at <= now + ScanInterval /\ \A d \in D : at <= d
      BY <1>1, <1>8, <2>2, <3>1 DEF NoTime
    <3>6. now' = now
      BY DEF world
    <3>7. NoLostWake'
      BY <1>5, <1>10, <3>4, <3>5, <3>6 DEF NoLostWake
    <3> QED BY <1>1, <1>5, <1>9, <3>4, <3>7 DEF WakeInv
  <2> QED BY <2>1, <2>2
<1>13. ScheduleOK' /\ KeepsRegistry
  BY <1>1, <1>5, <1>6, <1>11 DEF ScheduleOK, KeepsRegistry
<1>14. ManagerOK'
  BY <1>1, <1>5 DEF ManagerOK
<1> QED BY <1>12, <1>13, <1>14, RegistryStep DEF world

\* The microtask or the timer begins an evaluation.
LEMMA EvalBeginsStep ==
    ASSUME IInv, MicrotaskRuns \/ TimerFires,
           UNCHANGED <<busy, recorders, index, indexToken, claims, failures, attempts, deletionStops, world>>
    PROVE  IInv'
<1>1. ScheduleOK /\ ManagerOK /\ WakeInv /\ started
  BY DEF IInv, TypeOK, WakeInv, MicrotaskRuns, TimerFires
<1>2. /\ evaluating' = TRUE
      /\ UNCHANGED <<candidates, generation, sessionToken, ends, queue, started, tail>>
  BY DEF MicrotaskRuns, TimerFires
<1>3. wake' \in [scheduled : BOOLEAN, microtask : BOOLEAN, timer : Int]
  <2>1. wake \in [scheduled : BOOLEAN, microtask : BOOLEAN, timer : Int]
    BY <1>1 DEF ScheduleOK
  <2>2. CASE MicrotaskRuns
    BY <2>1, <2>2, Zenon DEF MicrotaskRuns
  <2>3. CASE TimerFires
    <3>1. NoTime \in Int /\ wake' = [wake EXCEPT !.timer = NoTime]
      BY <2>3 DEF TimerFires, NoTime
    <3> QED BY <2>1, <3>1
  <2> QED BY <2>2, <2>3
<1>4. wake'.scheduled <=> wake'.microtask
  <2>1. wake \in [scheduled : BOOLEAN, microtask : BOOLEAN, timer : Int]
    BY <1>1 DEF ScheduleOK
  <2>2. CASE MicrotaskRuns
    BY <2>1, <2>2 DEF MicrotaskRuns
  <2>3. CASE TimerFires
    <3>1. wake'.scheduled = wake.scheduled /\ wake'.microtask = wake.microtask
      BY <2>1, <2>3 DEF TimerFires
    <3> QED BY <1>1, <3>1 DEF WakeInv
  <2> QED BY <2>2, <2>3
<1>5. WakeInv'
  BY <1>1, <1>2, <1>4 DEF WakeInv, NoLostWake
<1>6. ScheduleOK' /\ KeepsRegistry
  BY <1>1, <1>2, <1>3 DEF ScheduleOK, KeepsRegistry
<1>7. ManagerOK'
  BY <1>1, <1>2 DEF ManagerOK
<1> QED BY <1>5, <1>6, <1>7, RegistryStep DEF world

\* A step of the controller.
LEMMA ControllerKeeps ==
    ASSUME IInv, ControllerStep
    PROVE  IInv'
<1>1. UNCHANGED <<busy, recorders, index, indexToken, failures, attempts, deletionStops, world>>
  BY DEF ControllerStep
<1>2. CASE EvalApply /\ claims' = IF tail' # tail THEN claims \ {Head(queue).res} ELSE claims
  <2>1. claims' \subseteq claims
    BY <1>2
  <2> QED BY <1>1, <1>2, <2>1, EvalApplyStep
<1>3. ASSUME NEW i \in Reserves, EvalPrepare(i) \/ EvalEnd(i), UNCHANGED claims PROVE IInv'
  BY <1>1, <1>3, EvalDispatchStep
<1>4. CASE EvalDone /\ UNCHANGED claims
  BY <1>1, <1>4, EvalDoneStep
<1>5. CASE (MicrotaskRuns \/ TimerFires) /\ UNCHANGED claims
  BY <1>1, <1>5, EvalBeginsStep
<1> QED BY <1>2, <1>3, <1>4, <1>5 DEF ControllerStep

\* A step of a recorder.
LEMMA RecorderKeeps ==
    ASSUME IInv, NEW k \in DOMAIN recorders, RecorderStep(k)
    PROVE  IInv'
BY PrepSucceedsStep, PrepFailsStep, PrepCancelledStep, RetryFiresStep, StreamOverStep,
   RegistersStep, FailureReportedStep DEF RecorderStep

-----------------------------------------------------------------------------
(* The theorems. *)

\* At the start there is no candidate, no wake, and nothing is announced.
LEMMA InvInit == Init => IInv
<1> SUFFICES ASSUME Init PROVE IInv
  OBVIOUS
<1>1. /\ NoRow \in Rows /\ NoEnd \in Ends /\ NoCandidate \in Candidates /\ NoCandidate.gen = 0
  BY DEF NoRow, Rows, NoEnd, Ends, NoCandidate, Candidates, Phases
<1>2. /\ now = 0 /\ candidates = [i \in Reserves |-> NoCandidate] /\ generation = 0 /\ sessionToken = 0
      /\ ends = [i \in Reserves |-> NoEnd] /\ queue = <<>> /\ started = FALSE /\ evaluating = FALSE
      /\ wake = [scheduled |-> FALSE, microtask |-> FALSE, timer |-> NoTime] /\ tail = <<>>
      /\ busy = NotBusy /\ startup = "NotStarted" /\ saved = [i \in Reserves |-> NoRow]
      /\ pending = <<>> /\ recorders = <<>> /\ index = [i \in Reserves |-> 0]
      /\ indexToken = [i \in Reserves |-> 0] /\ claims = {} /\ failures = {}
      /\ attempts = [i \in Reserves |-> 0] /\ deletionStops = [i \in Reserves |-> 0]
  BY DEF Init
<1>3. table \in [Reserves -> Rows]
  <2>1. \A s \in Slots : [startAt |-> s.startAt, endAt |-> s.endAt, isSkip |-> FALSE] \in Rows
    BY ManageAssumption DEF Rows
  <2>2. table \in [Reserves -> {NoRow} \cup {[startAt |-> s.startAt, endAt |-> s.endAt,
                                             isSkip |-> FALSE] : s \in Slots}]
    BY DEF Init
  <2> QED BY <1>1, <2>1, <2>2
<1>4. ScheduleOK
  <2>1. wake \in [scheduled : BOOLEAN, microtask : BOOLEAN, timer : Int]
    <3>1. NoTime \in Int
      BY DEF NoTime
    <3> QED BY <1>2, <3>1, Zenon
  <2>2. generation \in Nat /\ sessionToken \in Nat
    BY <1>2
  <2> QED BY <1>1, <1>2, <2>1, <2>2, EmptySeq DEF ScheduleOK
<1>5. ManagerOK
  <2>1. tail \in Seq(Operations) /\ recorders \in Seq(Recorders) /\ Len(recorders) = 0
    BY <1>2, EmptySeq
  <2>2. busy \in [what : Waits, rec : Nat] /\ busy.what = "none"
    BY <1>2 DEF NotBusy, Waits
  <2> QED BY <1>2, <2>1, <2>2 DEF ManagerOK
<1>6. WorldOK
  BY <1>1, <1>2, <1>3, EmptySeq DEF WorldOK
<1>7. WakeInv
  BY <1>2 DEF WakeInv, NoLostWake
<1>8. RegistryInv
  <2>1. Len(pending) = 0
    BY <1>2, EmptySeq
  <2>2. Announced(pending, table)
    BY <2>1 DEF Announced
  <2> QED BY <1>1, <1>2, <2>2 DEF RegistryInv
<1>9. FailureInv
  BY <1>1, <1>2 DEF FailureInv
<1> QED BY <1>4, <1>5, <1>6, <1>7, <1>8, <1>9 DEF IInv, TypeOK

\* Every step keeps the invariant.
LEMMA InvStep ==
    ASSUME IInv, [Next]_vars
    PROVE  IInv'
<1>1. CASE UNCHANGED vars
  <2>1. UNCHANGED schedule /\ UNCHANGED <<tail, busy, manager, world>>
    BY <1>1 DEF vars
  <2>2. KeepsSchedule /\ ManagerOK'
    <3>1. ScheduleOK /\ ManagerOK
      BY DEF IInv, TypeOK
    <3>2. KeepsSchedule
      BY <2>1, <3>1, NothingMoves
    <3>3. ManagerOK'
      BY <2>1, <3>1 DEF ManagerOK, manager
    <3> QED BY <3>2, <3>3
  <2> QED BY <2>1, <2>2, QuietStep DEF manager
<1>2. ASSUME NEW i \in Reserves, NEW s \in Slots, Insert(i, s) PROVE IInv'
  BY <1>2, ReservationStep
<1>3. ASSUME NEW i \in Reserves, NEW s \in Slots, NEW skip \in BOOLEAN, Update(i, s, skip) PROVE IInv'
  BY <1>3, ReservationStep
<1>4. ASSUME NEW i \in Reserves, Delete(i) PROVE IInv'
  <2>1. NoRow \in Rows /\ NoRow.isSkip
    BY DEF NoRow, Rows
  <2> QED BY <1>4, <2>1, ChangeStep DEF Delete
<1>5. ASSUME NEW i \in Reserves, StopForDeletion(i) \/ DeletionTerminal(i) PROVE IInv'
  BY <1>5, StopForDeletionStep, DeletionTerminalStep
<1>6. CASE StartupBegin \/ StartupRead \/ StartupFails \/ ResetTimer \/ Tick
  BY <1>6, StartupSteps
<1>7. CASE StartupDone
  BY <1>7, StartupDoneStep
<1>8. CASE ControllerStep
  BY <1>8, ControllerKeeps
<1>9. CASE SessionOperation \/ WaitEnds
  BY <1>9, SkipSteps, RemoveStep, MakeStep, FollowStep, PrepareStep, FinishStep, EndAtStep, DrainedStep
     DEF SessionOperation, WaitEnds
<1>10. ASSUME NEW k \in DOMAIN recorders, RecorderStep(k) PROVE IInv'
  BY <1>10, RecorderKeeps
<1>11. ASSUME NEW f \in failures, RetryDecided(f) PROVE IInv'
  BY <1>11, RetryDecidedStep
<1> QED BY <1>1, <1>2, <1>3, <1>4, <1>5, <1>6, <1>7, <1>8, <1>9, <1>10, <1>11 DEF Next

\* The inductive invariant of schedule and manager holds in every behaviour.
THEOREM Invariance == Spec => []IInv
<1>1. Init => IInv
  BY InvInit
<1>2. IInv /\ [Next]_vars => IInv'
  BY InvStep
<1> QED BY <1>1, <1>2, PTL DEF Spec

\* Types: RecordingScheduleController and RecordingManageModel never leave the values their
\* fields may have, and the index and the waits name recorders that were made.
THEOREM TypeCorrect == Spec => []TypeOK
<1>1. IInv => TypeOK
  BY DEF IInv
<1> QED BY <1>1, Invariance, PTL

\* The controller never loses a wake: armSingleWake, requestCoalescedEvaluation and wake()
\* leave a microtask or a timer in time for the next deadline, however they are interleaved.
THEOREM NoWakeIsLost == Spec => []NoLostWake
<1>1. IInv => NoLostWake
  BY DEF IInv, WakeInv
<1> QED BY <1>1, Invariance, PTL

\* The candidates are the reservations that are to be recorded, with the rows of the table,
\* as soon as the queued mutations are applied: no change that comes while the scheduler
\* starts is lost, and a failed recording is put back with the row the table has.
THEOREM RegistryFollows == Spec => []RegistryFollowsTable
<1>1. ASSUME IInv PROVE RegistryFollowsTable
  <2> SUFFICES ASSUME startup = "Started", queue = <<>>, NEW i \in Reserves
               PROVE  Reflects(candidates[i], table[i], now)
    BY DEF RegistryFollowsTable, Reflects, IsCandidate
  <2>1. \A j \in Reserves : ~About(queue, j) => Reflects(candidates[j], table[j], now)
    BY <1>1 DEF IInv, RegistryInv
  <2>2. ~About(queue, i)
    BY EmptySeq DEF About
  <2> QED BY <2>1, <2>2
<1> QED BY <1>1, Invariance, PTL
=============================================================================
