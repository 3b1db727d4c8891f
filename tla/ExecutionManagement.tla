------------------------ MODULE ExecutionManagement ------------------------
(***************************************************************************)
(* ExecutionManagementModel: the prioritised exclusive right that every     *)
(* reservation, encode-queue and path-allocation operation takes.  A call   *)
(* of getExecution is given an id, waits in exeQueue (priority order) and   *)
(* then owns the lock; when every id is in use it waits in allocationQueue  *)
(* until one is free.  One action is one run-to-completion turn of the      *)
(* event loop: a call, a timer, or an unlock.                               *)
(***************************************************************************)
EXTENDS Integers, Sequences

CONSTANTS
    Requests,           \* calls of getExecution
    Priorities,         \* the priorities callers pass
    MaxExecutionId,     \* ids are 1 .. MaxExecutionId, handed out round-robin
    OwnerWatchdog,      \* whether an owner is watched (reservationOwnerWatchdog)
    NoRequest           \* the null of `owner`

ASSUME MaxExecutionIdAssumption == MaxExecutionId \in Nat \ {0}
ASSUME PrioritiesAssumption == Priorities \subseteq Int
ASSUME NoRequestAssumption == NoRequest \notin Requests
ASSUME OwnerWatchdogAssumption == OwnerWatchdog \in BOOLEAN

Ids == 1 .. MaxExecutionId
NoId == 0
States == {"new", "allocating", "waiting", "granted", "overdue", "expired", "released"}

VARIABLES
    state,              \* the state of each entry ("new": not called yet)
    id,                 \* the id of each entry, NoId before allocation
    priority,           \* the priority each call passed
    lockId,             \* id of the owner, NoId when the lock is free
    owner,              \* the owner, NoRequest when the lock is free
    nextExecutionId,    \* next candidate of the round-robin
    exeQueue,           \* entries with an id that wait for the lock
    allocationQueue,    \* entries that wait for an id
    ticket,             \* history: the order in which the calls were made
    calls               \* history: number of calls made so far

queues == <<exeQueue, allocationQueue>>
history == <<ticket, calls>>
vars == <<state, id, priority, lockId, owner, nextExecutionId, queues, history>>

-----------------------------------------------------------------------------
(* The queue operations. *)

\* Mutant: <= instead of <, a new call overtakes the calls of its own priority.
BugPosition(q, e, pr) ==
    IF \E i \in 1 .. Len(q) : pr[q[i]] <= pr[e]
      THEN CHOOSE i \in 1 .. Len(q) :
             /\ pr[q[i]] <= pr[e]
             /\ \A j \in 1 .. i - 1 : pr[q[j]] > pr[e]
      ELSE Len(q) + 1

\* splice(position, 0, e): e goes before the first entry of lower priority.
Position(q, e, pr) ==
    IF \E i \in 1 .. Len(q) : pr[q[i]] < pr[e]
      THEN CHOOSE i \in 1 .. Len(q) :
             /\ pr[q[i]] < pr[e]
             /\ \A j \in 1 .. i - 1 : pr[q[j]] >= pr[e]
      ELSE Len(q) + 1

Enqueue(q, e, pr) ==
    [i \in 1 .. Len(q) + 1 |->
        IF i < Position(q, e, pr) THEN q[i]
        ELSE IF i = Position(q, e, pr) THEN e ELSE q[i - 1]]

\* removeEntryByIdentity: splice(indexOf(e), 1), nothing when e is not there.
Remove(q, e) ==
    IF \E i \in 1 .. Len(q) : q[i] = e
      THEN LET at == CHOOSE i \in 1 .. Len(q) : q[i] = e
           IN  [i \in 1 .. Len(q) - 1 |-> IF i < at THEN q[i] ELSE q[i + 1]]
      ELSE q

(* Id allocation. *)

IsIdHoldingState(s) == s \in {"waiting", "granted", "overdue"}

\* Mutant: only the owner's id counts as used.
BugIsExecutionIdUsed(i, lock, q, st) == lock = i

IsExecutionIdUsed(i, lock, q, st) ==
    \/ lock = i
    \/ \E k \in 1 .. Len(q) : id[q[k]] = i /\ IsIdHoldingState(st[q[k]])

FreeIds(lock, q, st) == {i \in Ids : ~IsExecutionIdUsed(i, lock, q, st)}

\* Candidates tried before i when the round-robin stands at nextExecutionId.
Distance(i) ==
    IF i >= nextExecutionId THEN i - nextExecutionId
    ELSE i - nextExecutionId + MaxExecutionId

\* The first unused candidate of the round-robin.
AllocateExecutionId(free) ==
    CHOOSE i \in free : \A j \in free : Distance(i) <= Distance(j)

Successor(i) == IF i = MaxExecutionId THEN 1 ELSE i + 1

-----------------------------------------------------------------------------
Init ==
    /\ state = [r \in Requests |-> "new"]
    /\ id = [r \in Requests |-> NoId]
    /\ priority = [r \in Requests |-> 0]
    /\ lockId = NoId
    /\ owner = NoRequest
    /\ nextExecutionId = 1
    /\ exeQueue = <<>>
    /\ allocationQueue = <<>>
    /\ ticket = [r \in Requests |-> 0]
    /\ calls = 0

\* Mutant: the lock is handed on although somebody owns it.
BugGrantNext(lock, own, q, st) ==
    IF q # <<>>
      THEN /\ lockId' = id'[Head(q)]
           /\ owner' = Head(q)
           /\ exeQueue' = Tail(q)
           /\ state' = [st EXCEPT ![Head(q)] = "granted"]
      ELSE /\ lockId' = lock
           /\ owner' = own
           /\ exeQueue' = q
           /\ state' = st

(***************************************************************************)
(* grantNext on the lock (lock, own), the queue q and the entry states st:  *)
(* a free lock goes to the head of the queue, whose promise resolves in the *)
(* same turn (its onGranted listener is the only one that accepts).  The    *)
(* branch that skips a head that is no longer waiting is unreachable:       *)
(* QueuesConsistent.                                                        *)
(***************************************************************************)
GrantNext(lock, own, q, st) ==
    IF lock = NoId /\ q # <<>>
      THEN /\ lockId' = id'[Head(q)]
           /\ owner' = Head(q)
           /\ exeQueue' = Tail(q)
           /\ state' = [st EXCEPT ![Head(q)] = "granted"]
      ELSE /\ lockId' = lock
           /\ owner' = own
           /\ exeQueue' = q
           /\ state' = st

(***************************************************************************)
(* assignAllocationWaiters on the lock, the queues q and aq and the states  *)
(* st, followed by grantNext when `grant`.  The loop's body runs at most    *)
(* once: a caller only waits for an id while none is free (IdsExhausted),   *)
(* and one turn frees at most one id.                                       *)
(***************************************************************************)
AssignAllocationWaiters(lock, own, q, aq, st, grant) ==
    LET free == FreeIds(lock, q, st)
        e    == Head(aq)
        i    == AllocateExecutionId(free)
        q2   == Enqueue(q, e, priority)
        st2  == [st EXCEPT ![e] = "waiting"]
    IN  IF aq # <<>> /\ free # {}
          THEN /\ id' = [id EXCEPT ![e] = i]
               /\ nextExecutionId' = Successor(i)
               /\ allocationQueue' = Tail(aq)
               /\ IF grant THEN GrantNext(lock, own, q2, st2)
                  ELSE /\ exeQueue' = q2 /\ state' = st2
                       /\ lockId' = lock /\ owner' = own
          ELSE /\ UNCHANGED <<id, nextExecutionId>>
               /\ allocationQueue' = aq
               /\ IF grant THEN GrantNext(lock, own, q, st)
                  ELSE /\ exeQueue' = q /\ state' = st
                       /\ lockId' = lock /\ owner' = own

\* getExecution(p) called as request r.
GetExecution(r, p) ==
    LET pr   == [priority EXCEPT ![r] = p]
        free == FreeIds(lockId, exeQueue, state)
        i    == AllocateExecutionId(free)
    IN  /\ state[r] = "new"
        /\ priority' = pr
        /\ calls' = calls + 1
        /\ ticket' = [ticket EXCEPT ![r] = calls + 1]
        /\ IF free # {}
             THEN /\ id' = [id EXCEPT ![r] = i]
                  /\ nextExecutionId' = Successor(i)
                  /\ UNCHANGED allocationQueue
                  /\ GrantNext(lockId, owner, Enqueue(exeQueue, r, pr),
                               [state EXCEPT ![r] = "waiting"])
             ELSE /\ UNCHANGED <<id, nextExecutionId>>
                  /\ allocationQueue' = Enqueue(allocationQueue, r, pr)
                  /\ GrantNext(lockId, owner, exeQueue,
                               [state EXCEPT ![r] = "allocating"])

\* The timer of r's call fires before the lock was granted.
Expire(r) ==
    /\ state[r] \in {"allocating", "waiting"}
    /\ AssignAllocationWaiters(lockId, owner,
            Remove(exeQueue, r), Remove(allocationQueue, r),
            [state EXCEPT ![r] = "expired"], FALSE)
    /\ UNCHANGED <<priority, history>>

\* Mutant: unLockExecution forgets grantNext.
BugUnLockNoGrant(r) ==
    /\ state[r] \in {"granted", "overdue"}
    /\ lockId = id[r]
    /\ owner # NoRequest
    /\ AssignAllocationWaiters(NoId, NoRequest, exeQueue, allocationQueue,
            [state EXCEPT ![owner] = "released"], FALSE)
    /\ UNCHANGED <<priority, history>>

\* Mutant: unLockExecution ignores an owner the watchdog has marked.
BugUnLockIgnoresOverdue(r) ==
    /\ state[r] = "granted"
    /\ lockId = id[r]
    /\ owner # NoRequest
    /\ AssignAllocationWaiters(NoId, NoRequest, exeQueue, allocationQueue,
            [state EXCEPT ![owner] = "released"], TRUE)
    /\ UNCHANGED <<priority, history>>

\* The caller that was granted as r calls unLockExecution with its id, once,
\* in its finally block.  What is released is whatever `owner` is.
UnLockExecution(r) ==
    /\ state[r] \in {"granted", "overdue"}
    /\ lockId = id[r]
    /\ owner # NoRequest
    /\ state[owner] \in {"granted", "overdue"}
    /\ AssignAllocationWaiters(NoId, NoRequest, exeQueue, allocationQueue,
            [state EXCEPT ![owner] = "released"], TRUE)
    /\ UNCHANGED <<priority, history>>

\* The owner watchdog only marks the owner; it never takes the lock away.
OwnerOverdue(r) ==
    /\ OwnerWatchdog
    /\ owner = r
    /\ state[r] = "granted"
    /\ state' = [state EXCEPT ![r] = "overdue"]
    /\ UNCHANGED <<id, priority, lockId, owner, nextExecutionId, queues, history>>

Next ==
    \E r \in Requests :
        \/ \E p \in Priorities : GetExecution(r, p)
        \/ Expire(r)
        \/ UnLockExecution(r)
        \/ OwnerOverdue(r)

Spec == Init /\ [][Next]_vars

\* Callers release what they were granted (every caller unlocks in a finally).
\* No fairness of the timers: a call must not need its timeout to be served.
FairSpec == Spec /\ \A r \in Requests : WF_vars(UnLockExecution(r))
-----------------------------------------------------------------------------
(* Properties. *)

Held(r) == state[r] \in {"granted", "overdue"}
Pending(r) == state[r] \in {"allocating", "waiting"}
Listed(q, r) == \E i \in 1 .. Len(q) : q[i] = r

TypeOK ==
    /\ state \in [Requests -> States]
    /\ id \in [Requests -> Ids \cup {NoId}]
    /\ priority \in [Requests -> Int]
    /\ lockId \in Ids \cup {NoId}
    /\ owner \in Requests \cup {NoRequest}
    /\ nextExecutionId \in Ids
    /\ exeQueue \in Seq(Requests)
    /\ allocationQueue \in Seq(Requests)
    /\ ticket \in [Requests -> Nat]
    /\ calls \in Nat

\* The right is exclusive: whoever was told it owns the lock is the owner the
\* model knows, under the id it was told, and nobody else was told so.
MutualExclusion ==
    /\ \A r \in Requests : Held(r) <=> owner = r
    /\ \A r \in Requests : Held(r) => lockId = id[r]
    /\ owner = NoRequest <=> lockId = NoId

\* unLockExecution and the id allocation identify a call by its id alone:
\* no two live calls carry the same id, however often the round-robin wraps.
IdsDistinct ==
    \A r, s \in Requests :
        /\ IsIdHoldingState(state[r]) => id[r] # NoId
        /\ (r # s /\ IsIdHoldingState(state[r]) /\ IsIdHoldingState(state[s]))
              => id[r] # id[s]

\* No lost wakeup: the lock is never free while a call waits for it, or for an id.
NoIdleLock == lockId = NoId => exeQueue = <<>> /\ allocationQueue = <<>>

\* A call waits for an id only while every id is in use: an id freed by an
\* unlock or by a timeout is handed on in the same turn.
IdsExhausted == allocationQueue # <<>> => FreeIds(lockId, exeQueue, state) = {}

\* The queues hold exactly the pending calls, each once, in the state that the
\* queue stands for: the skip branches of grantNext and assignAllocationWaiters
\* are dead code.
QueuesConsistent ==
    /\ \A r \in Requests : Listed(exeQueue, r) <=> state[r] = "waiting"
    /\ \A r \in Requests : Listed(allocationQueue, r) <=> state[r] = "allocating"
    /\ \A i, j \in 1 .. Len(exeQueue) : exeQueue[i] = exeQueue[j] => i = j
    /\ \A i, j \in 1 .. Len(allocationQueue) :
          allocationQueue[i] = allocationQueue[j] => i = j

\* The contract of IExecutionManagementModel: calls are served by priority and,
\* within a priority, in the order they were made.  Ids, their exhaustion and the
\* second queue do not show.
Contract == INSTANCE ExclusiveRight WITH
    pending <- {r \in Requests : Pending(r)},
    holder  <- owner,
    settled <- {r \in Requests : state[r] \in {"expired", "released"}}
ImplementsContract == Contract!Spec

\* If callers release what they hold, every call of getExecution settles, and
\* it does not need its timeout for that.
EveryCallSettles ==
    \A r \in Requests : Pending(r) ~> ~Pending(r)
=============================================================================
