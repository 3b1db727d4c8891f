--------------------- MODULE ExecutionManagementProofs ---------------------
(***************************************************************************)
(* Proofs about ExecutionManagement, for every set of calls, every set of   *)
(* priorities and every size of the id space.                               *)
(***************************************************************************)
EXTENDS ExecutionManagement, SequenceTheorems, WellFoundedInduction, TLAPS

-----------------------------------------------------------------------------
(* The queue operations. *)

\* The insertion point of Enqueue lies inside the queue or right behind it: nobody before
\* it has a lower priority than the new entry, and the entry it displaces has.
LEMMA PositionProperties ==
    ASSUME NEW q \in Seq(Requests), NEW e \in Requests, NEW pr \in [Requests -> Int]
    PROVE  /\ Position(q, e, pr) \in 1 .. Len(q) + 1
           /\ \A j \in 1 .. Position(q, e, pr) - 1 : pr[q[j]] >= pr[e]
           /\ Position(q, e, pr) <= Len(q) => pr[q[Position(q, e, pr)]] < pr[e]
<1> DEFINE Lower(i) == pr[q[i]] < pr[e]
           L == {i \in 1 .. Len(q) : Lower(i)}
<1>0. /\ Len(q) \in Nat /\ pr[e] \in Int
      /\ \A j \in 1 .. Len(q) : q[j] \in Requests /\ pr[q[j]] \in Int
  <2>1. \A j \in 1 .. Len(q) : q[j] \in Requests
    BY ElementOfSeq
  <2> QED BY <2>1, LenProperties
<1>1. CASE L = {}
  <2>1. Position(q, e, pr) = Len(q) + 1
    BY <1>1 DEF Position
  <2> QED BY SMTT(30), <1>1, <1>0, <2>1
<1>2. CASE L # {}
  <2>1. PICK i \in L : \A j \in L : ~(<<j, i>> \in OpToRel(<, Nat))
    <3>1. L \subseteq Nat
      BY <1>0
    <3> QED BY <1>2, <3>1, NatLessThanWellFounded, WFMin
  <2>2. i \in 1 .. Len(q) /\ Lower(i)
    OBVIOUS
  <2>3. \A j \in 1 .. i - 1 : pr[q[j]] >= pr[e]
    <3> SUFFICES ASSUME NEW j \in 1 .. i - 1, ~(pr[q[j]] >= pr[e])
                 PROVE  FALSE
      OBVIOUS
    <3>1. j \in 1 .. Len(q) /\ j < i /\ j \in Nat /\ i \in Nat
      BY <1>0, <2>2
    <3>2. Lower(j)
      BY <1>0, <3>1
    <3>3. <<j, i>> \in OpToRel(<, Nat)
      BY <3>1 DEF OpToRel
    <3> QED BY <2>1, <3>1, <3>2, <3>3
  <2>4. /\ Position(q, e, pr) \in 1 .. Len(q)
        /\ pr[q[Position(q, e, pr)]] < pr[e]
        /\ \A j \in 1 .. Position(q, e, pr) - 1 : pr[q[j]] >= pr[e]
    BY <2>2, <2>3 DEF Position
  <2> QED BY <1>0, <2>4
<1> QED BY <1>1, <1>2

\* Enqueue inserts e once, at its position, and keeps the others in order.
LEMMA EnqueueProperties ==
    ASSUME NEW q \in Seq(Requests), NEW e \in Requests, NEW pr \in [Requests -> Int]
    PROVE  /\ Enqueue(q, e, pr) \in Seq(Requests)
           /\ Len(Enqueue(q, e, pr)) = Len(q) + 1
           /\ \A x \in Requests : Listed(Enqueue(q, e, pr), x) <=> (x = e \/ Listed(q, x))
           /\ (\A i, j \in 1 .. Len(q) : q[i] = q[j] => i = j) /\ ~Listed(q, e)
                => \A i, j \in 1 .. Len(q) + 1 :
                     Enqueue(q, e, pr)[i] = Enqueue(q, e, pr)[j] => i = j
<1> DEFINE n == Len(q)
           k == Position(q, e, pr)
           z == Enqueue(q, e, pr)
<1>1. n \in Nat /\ q \in [1 .. n -> Requests]
  BY LenProperties
<1>2. k \in 1 .. n + 1
  BY PositionProperties
<1>3. z = [i \in 1 .. n + 1 |-> IF i < k THEN q[i] ELSE IF i = k THEN e ELSE q[i - 1]]
  BY DEF Enqueue
<1> HIDE DEF n, k, z
<1>4. z \in [1 .. n + 1 -> Requests]
  BY <1>1, <1>2, <1>3
<1>5. z \in Seq(Requests) /\ Len(z) = n + 1
  BY <1>1, <1>4, SeqDef, LenProperties
<1>6. ASSUME NEW x \in Requests PROVE Listed(z, x) <=> (x = e \/ Listed(q, x))
  <2>1. Listed(z, x) => (x = e \/ Listed(q, x))
    <3> SUFFICES ASSUME NEW i \in 1 .. n + 1, z[i] = x, x # e PROVE Listed(q, x)
      BY <1>5 DEF Listed
    <3>1. PICK m \in 1 .. n : q[m] = x
      BY <1>1, <1>2, <1>3
    <3> QED BY <3>1 DEF Listed, n
  <2>2. x = e => Listed(z, x)
    <3>1. z[k] = e
      BY <1>1, <1>2, <1>3
    <3> QED BY <1>2, <1>5, <3>1 DEF Listed
  <2>3. Listed(q, x) => Listed(z, x)
    <3> SUFFICES ASSUME NEW i \in 1 .. n, q[i] = x PROVE Listed(z, x)
      BY DEF Listed, n
    <3>1. CASE i < k
      BY <1>1, <1>2, <1>3, <1>5, <3>1 DEF Listed
    <3>2. CASE ~(i < k)
      <4>1. i + 1 \in 1 .. n + 1 /\ z[i + 1] = x
        BY <1>1, <1>2, <1>3, <3>2
      <4> QED BY <4>1, <1>5 DEF Listed
    <3> QED BY <3>1, <3>2
  <2> QED BY <2>1, <2>2, <2>3
<1>7. ASSUME \A i, j \in 1 .. n : q[i] = q[j] => i = j, ~Listed(q, e),
             NEW i \in 1 .. n + 1, NEW j \in 1 .. n + 1, z[i] = z[j]
      PROVE  i = j
  <2>1. \A m \in 1 .. n : q[m] # e
    BY <1>7 DEF Listed, n
  <2> QED BY <1>1, <1>2, <1>3, <1>7, <2>1
<1> QED BY <1>5, <1>6, <1>7 DEF n, z

\* Remove takes e out of a queue that holds it once, and nothing else.
LEMMA RemoveProperties ==
    ASSUME NEW q \in Seq(Requests), NEW e \in Requests,
           \A i, j \in 1 .. Len(q) : q[i] = q[j] => i = j
    PROVE  /\ Remove(q, e) \in Seq(Requests)
           /\ \A x \in Requests : Listed(Remove(q, e), x) <=> (x # e /\ Listed(q, x))
           /\ \A i, j \in 1 .. Len(Remove(q, e)) :
                 Remove(q, e)[i] = Remove(q, e)[j] => i = j
<1> DEFINE n == Len(q)
           z == Remove(q, e)
<1>1. n \in Nat /\ q \in [1 .. n -> Requests]
  BY LenProperties
<1>2. CASE ~Listed(q, e)
  BY <1>2 DEF Remove, Listed
<1>3. CASE Listed(q, e)
  <2>1. PICK at \in 1 .. n : q[at] = e /\ z = [i \in 1 .. n - 1 |-> IF i < at THEN q[i] ELSE q[i + 1]]
    BY <1>3 DEF Remove, Listed
  <2> HIDE DEF z
  <2>2. n - 1 \in Nat /\ z \in [1 .. n - 1 -> Requests]
    BY <1>1, <2>1
  <2>3. z \in Seq(Requests) /\ Len(z) = n - 1
    BY <2>2, SeqDef, LenProperties
  <2>4. ASSUME NEW x \in Requests PROVE Listed(z, x) <=> (x # e /\ Listed(q, x))
    <3>1. Listed(z, x) => (x # e /\ Listed(q, x))
      <4> SUFFICES ASSUME NEW i \in 1 .. n - 1, z[i] = x PROVE x # e /\ Listed(q, x)
        BY <2>3 DEF Listed
      <4>1. PICK m \in 1 .. n : m # at /\ q[m] = x
        BY <1>1, <2>1, <2>2
      <4> QED BY <2>1, <4>1 DEF Listed
    <3>2. ASSUME x # e, Listed(q, x) PROVE Listed(z, x)
      <4>1. PICK m \in 1 .. n : q[m] = x
        BY <3>2 DEF Listed
      <4>2. m # at
        BY <2>1, <3>2, <4>1
      <4>3. CASE m < at
        <5>1. m \in 1 .. n - 1 /\ z[m] = x
          BY <1>1, <2>1, <4>1, <4>3
        <5> QED BY <2>3, <5>1 DEF Listed
      <4>4. CASE m > at
        <5>1. m - 1 \in 1 .. n - 1 /\ z[m - 1] = x
          BY <1>1, <2>1, <4>1, <4>4
        <5> QED BY <2>3, <5>1 DEF Listed
      <4> QED BY <1>1, <4>2, <4>3, <4>4
    <3> QED BY <3>1, <3>2
  <2>5. ASSUME NEW i \in 1 .. n - 1, NEW j \in 1 .. n - 1, z[i] = z[j] PROVE i = j
    BY <1>1, <2>1, <2>5
  <2> QED BY <2>3, <2>4, <2>5 DEF z
<1> QED BY <1>2, <1>3

-----------------------------------------------------------------------------
(* Ids. *)

\* The round-robin hands out one of the free ids whenever there is one.
LEMMA AllocatedIdIsFree ==
    ASSUME NEW free, free \subseteq Ids, free # {}, nextExecutionId \in Ids
    PROVE  AllocateExecutionId(free) \in free
<1> DEFINE D == {Distance(i) : i \in free}
<1>1. \A i \in free : Distance(i) \in Nat
  BY MaxExecutionIdAssumption DEF Distance, Ids
<1>2. D \subseteq Nat /\ D # {}
  BY <1>1
<1>3. PICK d \in D : \A c \in D : ~(<<c, d>> \in OpToRel(<, Nat))
  BY <1>2, NatLessThanWellFounded, WFMin
<1>4. PICK i \in free : d = Distance(i)
  OBVIOUS
<1>5. \A j \in free : Distance(i) <= Distance(j)
  <2> SUFFICES ASSUME NEW j \in free, ~(Distance(i) <= Distance(j)) PROVE FALSE
    OBVIOUS
  <2>1. Distance(j) < d /\ Distance(j) \in Nat /\ d \in Nat /\ Distance(j) \in D
    BY <1>1, <1>4
  <2>2. <<Distance(j), d>> \in OpToRel(<, Nat)
    BY <2>1 DEF OpToRel
  <2> QED BY <1>3, <2>1, <2>2
<1> QED BY <1>5 DEF AllocateExecutionId

\* Id i belongs to a live call.
Used(st, ident, i) == \E r \in Requests : IsIdHoldingState(st[r]) /\ ident[r] = i

\* The invariant of the lock, the queues and the ids, in a form that also holds
\* between the steps of one turn (before grantNext the lock may be idle).
Consistent(lock, own, q, aq, st, ident) ==
    /\ lock \in Ids \cup {NoId}
    /\ own \in Requests \cup {NoRequest}
    /\ q \in Seq(Requests)
    /\ aq \in Seq(Requests)
    /\ st \in [Requests -> States]
    /\ ident \in [Requests -> Ids \cup {NoId}]
    /\ \A r \in Requests : st[r] \in {"granted", "overdue"} <=> own = r
    /\ \A r \in Requests : own = r => lock = ident[r]
    /\ own = NoRequest <=> lock = NoId
    /\ \A r \in Requests : IsIdHoldingState(st[r]) => ident[r] # NoId
    /\ \A r, s \in Requests :
          (r # s /\ IsIdHoldingState(st[r]) /\ IsIdHoldingState(st[s])) => ident[r] # ident[s]
    /\ \A r \in Requests : Listed(q, r) <=> st[r] = "waiting"
    /\ \A r \in Requests : Listed(aq, r) <=> st[r] = "allocating"
    /\ \A i, j \in 1 .. Len(q) : q[i] = q[j] => i = j
    /\ \A i, j \in 1 .. Len(aq) : aq[i] = aq[j] => i = j

\* isExecutionIdUsed sees exactly the ids of the live calls.
LEMMA FreeIdsAreUnused ==
    ASSUME NEW lock, NEW own, NEW q, NEW aq, NEW st,
           Consistent(lock, own, q, aq, st, id), NEW i \in Ids
    PROVE  i \in FreeIds(lock, q, st) <=> ~Used(st, id, i)
<1>1. IsExecutionIdUsed(i, lock, q, st) => Used(st, id, i)
  <2>1. CASE lock = i
    <3>1. own \in Requests /\ st[own] \in {"granted", "overdue"} /\ id[own] = i
      BY <2>1, MaxExecutionIdAssumption DEF Consistent, Ids, NoId
    <3> QED BY <3>1 DEF Used, IsIdHoldingState
  <2>2. ASSUME NEW k \in 1 .. Len(q), id[q[k]] = i, IsIdHoldingState(st[q[k]])
        PROVE  Used(st, id, i)
    <3>1. q[k] \in Requests
      BY ElementOfSeq DEF Consistent
    <3> QED BY <2>2, <3>1 DEF Used
  <2> QED BY <2>1, <2>2 DEF IsExecutionIdUsed
<1>2. ASSUME NEW r \in Requests, IsIdHoldingState(st[r]), id[r] = i
      PROVE  IsExecutionIdUsed(i, lock, q, st)
  <2>1. CASE st[r] \in {"granted", "overdue"}
    BY <1>2, <2>1 DEF Consistent, IsExecutionIdUsed
  <2>2. CASE st[r] = "waiting"
    BY <1>2, <2>2 DEF Consistent, IsExecutionIdUsed, Listed
  <2> QED BY <1>2, <2>1, <2>2 DEF IsIdHoldingState
<1> QED BY <1>1, <1>2 DEF FreeIds, Used

\* The head of a queue without repetitions leaves it, and nothing else does.
LEMMA TailProperties ==
    ASSUME NEW q \in Seq(Requests), q # <<>>,
           \A i, j \in 1 .. Len(q) : q[i] = q[j] => i = j
    PROVE  /\ Head(q) \in Requests
           /\ Listed(q, Head(q))
           /\ Tail(q) \in Seq(Requests)
           /\ \A x \in Requests : Listed(Tail(q), x) <=> (x # Head(q) /\ Listed(q, x))
           /\ \A i, j \in 1 .. Len(Tail(q)) : Tail(q)[i] = Tail(q)[j] => i = j
<1>1. /\ Len(q) \in Nat \ {0}
      /\ Head(q) = q[1]
      /\ Head(q) \in Requests
      /\ Tail(q) \in Seq(Requests)
      /\ Len(Tail(q)) = Len(q) - 1
      /\ \A i \in 1 .. Len(q) - 1 : Tail(q)[i] = q[i + 1]
  BY EmptySeq, HeadTailProperties
<1>2. Listed(q, Head(q))
  BY <1>1 DEF Listed
<1>3. ASSUME NEW x \in Requests PROVE Listed(Tail(q), x) <=> (x # Head(q) /\ Listed(q, x))
  <2>1. Listed(Tail(q), x) => (x # Head(q) /\ Listed(q, x))
    <3> SUFFICES ASSUME NEW i \in 1 .. Len(q) - 1, Tail(q)[i] = x
                 PROVE  x # Head(q) /\ Listed(q, x)
      BY <1>1 DEF Listed
    <3>1. i + 1 \in 1 .. Len(q) /\ q[i + 1] = x /\ i + 1 # 1 /\ 1 \in 1 .. Len(q)
      BY <1>1
    <3> QED BY <1>1, <3>1 DEF Listed
  <2>2. ASSUME x # Head(q), NEW i \in 1 .. Len(q), q[i] = x PROVE Listed(Tail(q), x)
    <3>1. i - 1 \in 1 .. Len(q) - 1 /\ Tail(q)[i - 1] = x
      BY <1>1, <2>2
    <3> QED BY <1>1, <3>1 DEF Listed
  <2> QED BY <2>1, <2>2 DEF Listed
<1>4. ASSUME NEW i \in 1 .. Len(Tail(q)), NEW j \in 1 .. Len(Tail(q)), Tail(q)[i] = Tail(q)[j]
      PROVE  i = j
  <2>1. i + 1 \in 1 .. Len(q) /\ j + 1 \in 1 .. Len(q) /\ q[i + 1] = q[j + 1]
    BY <1>1, <1>4
  <2>2. i + 1 = j + 1
    BY <2>1
  <2> QED BY <1>1, <2>2
<1> QED BY <1>1, <1>2, <1>3, <1>4

-----------------------------------------------------------------------------
(* The two helpers every turn ends with. *)

\* grantNext keeps the bookkeeping consistent, leaves no waiting call while the
\* lock is free, and neither takes an id away nor gives one out.
LEMMA GrantNextStep ==
    ASSUME NEW lock, NEW own, NEW q, NEW aq, NEW st,
           Consistent(lock, own, q, aq, st, id'), GrantNext(lock, own, q, st)
    PROVE  /\ Consistent(lockId', owner', exeQueue', aq, state', id')
           /\ lockId' = NoId => exeQueue' = <<>>
           /\ \A i \in Ids : Used(st, id', i) => Used(state', id', i)
<1>1. CASE lock = NoId /\ q # <<>>
  <2> DEFINE h == Head(q)
  <2>1. /\ h \in Requests /\ Listed(q, h) /\ Tail(q) \in Seq(Requests)
        /\ \A x \in Requests : Listed(Tail(q), x) <=> (x # h /\ Listed(q, x))
        /\ \A i, j \in 1 .. Len(Tail(q)) : Tail(q)[i] = Tail(q)[j] => i = j
    BY <1>1, TailProperties DEF Consistent
  <2> HIDE DEF h
  <2>2. /\ lockId' = id'[h] /\ owner' = h /\ exeQueue' = Tail(q)
        /\ state' = [st EXCEPT ![h] = "granted"]
    BY <1>1 DEF GrantNext, h
  <2>3. st[h] = "waiting"
    BY <2>1 DEF Consistent
  <2>4. id'[h] \in Ids /\ id'[h] # NoId
    BY <2>1, <2>3 DEF Consistent, IsIdHoldingState
  <2>5. own = NoRequest /\ \A r \in Requests : ~(st[r] \in {"granted", "overdue"})
    BY <1>1, NoRequestAssumption DEF Consistent
  <2>6. state' \in [Requests -> States] /\ \A r \in Requests : state'[r] = IF r = h THEN "granted" ELSE st[r]
    BY <2>1, <2>2 DEF Consistent, States
  <2>7. \A r \in Requests : IsIdHoldingState(state'[r]) <=> IsIdHoldingState(st[r])
    BY <2>3, <2>6 DEF IsIdHoldingState
  <2>8. \A r \in Requests : state'[r] \in {"granted", "overdue"} <=> owner' = r
    BY <2>2, <2>5, <2>6
  <2>9. owner' # NoRequest /\ owner' \in Requests
    BY <2>1, <2>2, NoRequestAssumption
  <2>10. \A r \in Requests : Listed(exeQueue', r) <=> state'[r] = "waiting"
    BY <2>1, <2>2, <2>6 DEF Consistent
  <2>11. \A r \in Requests : Listed(aq, r) <=> state'[r] = "allocating"
    BY <2>3, <2>6 DEF Consistent
  <2>12. Consistent(lockId', owner', exeQueue', aq, state', id')
    BY <2>1, <2>2, <2>4, <2>6, <2>7, <2>8, <2>9, <2>10, <2>11 DEF Consistent
  <2> QED BY <2>2, <2>4, <2>7, <2>12 DEF Used
<1>2. CASE ~(lock = NoId /\ q # <<>>)
  BY <1>2 DEF GrantNext
<1> QED BY <1>1, <1>2

\* Queue a2 is queue a, without repetitions and without e.
Without(a2, a, e) ==
    /\ a2 \in Seq(Requests)
    /\ \A x \in Requests : Listed(a2, x) <=> (x # e /\ Listed(a, x))
    /\ \A k, j \in 1 .. Len(a2) : a2[k] = a2[j] => k = j

\* A call that waited for an id gets a free one and joins the waiting calls.
LEMMA AssignOne ==
    ASSUME NEW lock, NEW own, NEW q, NEW aq, NEW st, NEW ident,
           NEW e \in Requests, NEW i \in Ids, NEW pr \in [Requests -> Int],
           NEW aq2,
           Consistent(lock, own, q, aq, st, ident),
           st[e] \in {"allocating", "new"}, ~Used(st, ident, i),
           Without(aq2, aq, e)
    PROVE  /\ Consistent(lock, own, Enqueue(q, e, pr), aq2,
                          [st EXCEPT ![e] = "waiting"], [ident EXCEPT ![e] = i])
           /\ \A j \in Ids : Used([st EXCEPT ![e] = "waiting"], [ident EXCEPT ![e] = i], j)
                               <=> (j = i \/ Used(st, ident, j))
<1> DEFINE st2 == [st EXCEPT ![e] = "waiting"]
           id2 == [ident EXCEPT ![e] = i]
           q2  == Enqueue(q, e, pr)
<1>1. /\ st2 \in [Requests -> States]
      /\ \A r \in Requests : st2[r] = IF r = e THEN "waiting" ELSE st[r]
  BY DEF Consistent, States
<1>2. /\ id2 \in [Requests -> Ids \cup {NoId}]
      /\ \A r \in Requests : id2[r] = IF r = e THEN i ELSE ident[r]
  BY DEF Consistent
<1>3. ~Listed(q, e)
  BY DEF Consistent
<1>4. /\ q2 \in Seq(Requests)
      /\ \A x \in Requests : Listed(q2, x) <=> (x = e \/ Listed(q, x))
      /\ \A k, j \in 1 .. Len(q2) : q2[k] = q2[j] => k = j
  <2>1. q \in Seq(Requests) /\ \A k, j \in 1 .. Len(q) : q[k] = q[j] => k = j
    BY DEF Consistent
  <2>2. /\ q2 \in Seq(Requests)
        /\ Len(q2) = Len(q) + 1
        /\ \A x \in Requests : Listed(q2, x) <=> (x = e \/ Listed(q, x))
    BY <2>1, EnqueueProperties
  <2>3. \A k, j \in 1 .. Len(q) + 1 : q2[k] = q2[j] => k = j
    BY <1>3, <2>1, EnqueueProperties
  <2> QED BY <2>2, <2>3
<1> HIDE DEF st2, id2, q2
<1>5. \A r \in Requests : st2[r] \in {"granted", "overdue"} <=> own = r
  BY <1>1 DEF Consistent
<1>6. own # e
  BY DEF Consistent
<1>7. \A r \in Requests : IsIdHoldingState(st2[r]) <=> (r = e \/ IsIdHoldingState(st[r]))
  BY <1>1 DEF IsIdHoldingState
<1>8. ~IsIdHoldingState(st[e])
  BY DEF IsIdHoldingState
<1>9. i # NoId
  BY MaxExecutionIdAssumption DEF Ids, NoId
<1>10. \A r \in Requests : IsIdHoldingState(st2[r]) => id2[r] # NoId
  BY <1>2, <1>7, <1>9 DEF Consistent
<1>11. \A r, s \in Requests :
         (r # s /\ IsIdHoldingState(st2[r]) /\ IsIdHoldingState(st2[s])) => id2[r] # id2[s]
  <2> SUFFICES ASSUME NEW r \in Requests, NEW s \in Requests, r # s,
                      IsIdHoldingState(st2[r]), IsIdHoldingState(st2[s])
               PROVE  id2[r] # id2[s]
    OBVIOUS
  <2>1. CASE r = e
    BY <1>2, <1>7, <2>1 DEF Used
  <2>2. CASE s = e
    BY <1>2, <1>7, <2>2 DEF Used
  <2>3. CASE r # e /\ s # e
    BY <1>2, <1>7, <2>3 DEF Consistent
  <2> QED BY <2>1, <2>2, <2>3
<1>12. \A r \in Requests : Listed(q2, r) <=> st2[r] = "waiting"
  BY <1>1, <1>4 DEF Consistent
<1>13. \A r \in Requests : Listed(aq2, r) <=> st2[r] = "allocating"
  BY <1>1 DEF Consistent, Without
<1>14. \A r \in Requests : own = r => lock = id2[r]
  BY <1>2, <1>6 DEF Consistent
<1>15. Consistent(lock, own, q2, aq2, st2, id2)
  BY <1>1, <1>2, <1>4, <1>5, <1>10, <1>11, <1>12, <1>13, <1>14 DEF Consistent, Without
<1>16. \A j \in Ids : Used(st2, id2, j) <=> (j = i \/ Used(st, ident, j))
  BY <1>2, <1>7, <1>8 DEF Used
<1> QED BY <1>15, <1>16 DEF st2, id2, q2

\* At most the id x is free among the ids of the live calls.
UsedExcept(st, ident, x) == \A i \in Ids : i = x \/ Used(st, ident, i)

\* assignAllocationWaiters (and grantNext) when at most one id became free in
\* this turn: the bookkeeping stays consistent and a call that still waits for
\* an id means that all of them are in use.
LEMMA AssignStep ==
    ASSUME NEW lock, NEW own, NEW q, NEW aq, NEW st, NEW grant \in BOOLEAN,
           NEW x,
           Consistent(lock, own, q, aq, st, id),
           priority \in [Requests -> Int], nextExecutionId \in Ids,
           aq # <<>> => UsedExcept(st, id, x),
           AssignAllocationWaiters(lock, own, q, aq, st, grant)
    PROVE  /\ Consistent(lockId', owner', exeQueue', allocationQueue', state', id')
           /\ nextExecutionId' \in Ids
           /\ allocationQueue' # <<>> => \A i \in Ids : Used(state', id', i)
           /\ grant => (lockId' = NoId => exeQueue' = <<>>)
           /\ ~grant => lockId' = lock
<1> DEFINE free == FreeIds(lock, q, st)
           e    == Head(aq)
           i    == AllocateExecutionId(free)
           q2   == Enqueue(q, e, priority)
           st2  == [st EXCEPT ![e] = "waiting"]
<1>0. free \subseteq Ids
  BY DEF FreeIds
<1>1. CASE aq # <<>> /\ free # {}
  <2>1. /\ e \in Requests /\ Listed(aq, e) /\ Tail(aq) \in Seq(Requests)
        /\ \A y \in Requests : Listed(Tail(aq), y) <=> (y # e /\ Listed(aq, y))
        /\ \A k, j \in 1 .. Len(Tail(aq)) : Tail(aq)[k] = Tail(aq)[j] => k = j
    BY <1>1, TailProperties DEF Consistent
  <2>2. i \in free /\ i \in Ids
    BY <1>0, <1>1, AllocatedIdIsFree
  <2>3. ~Used(st, id, i)
    BY <2>2, FreeIdsAreUnused
  <2>4. st[e] = "allocating"
    BY <2>1 DEF Consistent
  <2>5. /\ id' = [id EXCEPT ![e] = i]
        /\ nextExecutionId' = Successor(i)
        /\ allocationQueue' = Tail(aq)
        /\ grant => GrantNext(lock, own, q2, st2)
        /\ ~grant => /\ exeQueue' = q2 /\ state' = st2
                     /\ lockId' = lock /\ owner' = own
    BY <1>1 DEF AssignAllocationWaiters
  <2> HIDE DEF e, i, free
  <2>6. /\ Consistent(lock, own, q2, Tail(aq), st2, id')
        /\ \A j \in Ids : Used(st2, id', j) <=> (j = i \/ Used(st, id, j))
    <3>1. Without(Tail(aq), aq, e) /\ st[e] \in {"allocating", "new"}
      BY <2>1, <2>4 DEF Without
    <3>2. /\ Consistent(lock, own, Enqueue(q, e, priority), Tail(aq),
                        [st EXCEPT ![e] = "waiting"], [id EXCEPT ![e] = i])
          /\ \A j \in Ids : Used([st EXCEPT ![e] = "waiting"], [id EXCEPT ![e] = i], j)
                             <=> (j = i \/ Used(st, id, j))
      BY <2>1, <2>2, <2>3, <3>1, AssignOne
    <3> QED BY <2>5, <3>2
  <2>7. \A j \in Ids : Used(st2, id', j)
    BY <1>1, <2>2, <2>3, <2>6 DEF UsedExcept
  <2>8. nextExecutionId' \in Ids
    BY <2>2, <2>5, MaxExecutionIdAssumption DEF Successor, Ids
  <2> HIDE DEF q2, st2
  <2>9. CASE grant
    <3>1. GrantNext(lock, own, q2, st2)
      BY <2>5, <2>9
    <3>2. /\ Consistent(lockId', owner', exeQueue', Tail(aq), state', id')
          /\ lockId' = NoId => exeQueue' = <<>>
          /\ \A j \in Ids : Used(st2, id', j) => Used(state', id', j)
      BY <2>6, <3>1, GrantNextStep
    <3> QED BY <2>5, <2>7, <2>8, <2>9, <3>2
  <2>10. CASE ~grant
    BY <2>5, <2>6, <2>7, <2>8, <2>10
  <2> QED BY <2>9, <2>10
<1>2. CASE ~(aq # <<>> /\ free # {})
  <2>1. /\ id' = id /\ nextExecutionId' = nextExecutionId /\ allocationQueue' = aq
        /\ grant => GrantNext(lock, own, q, st)
        /\ ~grant => /\ exeQueue' = q /\ state' = st
                     /\ lockId' = lock /\ owner' = own
    BY <1>2 DEF AssignAllocationWaiters
  <2>2. aq # <<>> => \A j \in Ids : Used(st, id', j)
    BY <1>2, <2>1, FreeIdsAreUnused
  <2>3. Consistent(lock, own, q, aq, st, id')
    BY <2>1
  <2>4. CASE grant
    <3>1. GrantNext(lock, own, q, st)
      BY <2>1, <2>4
    <3>2. /\ Consistent(lockId', owner', exeQueue', aq, state', id')
          /\ lockId' = NoId => exeQueue' = <<>>
          /\ \A j \in Ids : Used(st, id', j) => Used(state', id', j)
      BY <2>3, <3>1, GrantNextStep
    <3> QED BY <2>1, <2>2, <2>4, <3>2
  <2>5. CASE ~grant
    BY <2>1, <2>2, <2>3, <2>5
  <2> QED BY <2>4, <2>5
<1> QED BY <1>1, <1>2

-----------------------------------------------------------------------------
(* The inductive invariant. *)

IInv ==
    /\ Consistent(lockId, owner, exeQueue, allocationQueue, state, id)
    /\ lockId = NoId => exeQueue = <<>>
    /\ allocationQueue # <<>> => \A i \in Ids : Used(state, id, i)
    /\ priority \in [Requests -> Int]
    /\ nextExecutionId \in Ids
    /\ ticket \in [Requests -> Nat]
    /\ calls \in Nat

\* A queue that lists nobody is empty.
LEMMA NobodyListed ==
    ASSUME NEW q \in Seq(Requests), \A r \in Requests : ~Listed(q, r)
    PROVE  q = <<>>
<1> SUFFICES ASSUME q # <<>> PROVE FALSE
  OBVIOUS
<1>1. Len(q) \in Nat \ {0}
  BY EmptySeq
<1>2. q[1] \in Requests
  BY <1>1, ElementOfSeq
<1> QED BY <1>1, <1>2 DEF Listed

\* With a free lock nobody waits, not even for an id.
LEMMA FreeLockNobodyPending ==
    ASSUME IInv, lockId = NoId
    PROVE  /\ exeQueue = <<>>
           /\ allocationQueue = <<>>
           /\ \A r \in Requests : ~Pending(r)
<1>1. exeQueue = <<>>
  BY DEF IInv
<1>2. \A r \in Requests : ~Listed(exeQueue, r)
  BY <1>1, EmptySeq DEF Listed
<1>3. \A r \in Requests : ~IsIdHoldingState(state[r])
  BY <1>2, NoRequestAssumption DEF IInv, Consistent, IsIdHoldingState
<1>4. allocationQueue = <<>>
  <2>1. 1 \in Ids
    BY MaxExecutionIdAssumption DEF Ids
  <2> QED BY <1>3, <2>1 DEF IInv, Used
<1>5. \A r \in Requests : ~Listed(allocationQueue, r)
  BY <1>4, EmptySeq DEF Listed
<1> QED BY <1>1, <1>2, <1>4, <1>5 DEF IInv, Consistent, Pending

\* The inductive invariant implies the properties the model checker checks.
LEMMA InvariantImplies ==
    IInv => /\ TypeOK /\ MutualExclusion /\ IdsDistinct
            /\ NoIdleLock /\ IdsExhausted /\ QueuesConsistent
<1> SUFFICES ASSUME IInv
             PROVE  /\ TypeOK /\ MutualExclusion /\ IdsDistinct
                    /\ NoIdleLock /\ IdsExhausted /\ QueuesConsistent
  OBVIOUS
<1>1. TypeOK
  BY DEF IInv, Consistent, TypeOK
<1>2. MutualExclusion
  BY DEF IInv, Consistent, MutualExclusion, Held
<1>3. IdsDistinct
  BY DEF IInv, Consistent, IdsDistinct
<1>4. NoIdleLock
  BY FreeLockNobodyPending DEF NoIdleLock
<1>5. IdsExhausted
  <2>1. Consistent(lockId, owner, exeQueue, allocationQueue, state, id)
    BY DEF IInv
  <2>2. \A i \in Ids : i \in FreeIds(lockId, exeQueue, state) <=> ~Used(state, id, i)
    BY <2>1, FreeIdsAreUnused
  <2>3. FreeIds(lockId, exeQueue, state) \subseteq Ids
    BY DEF FreeIds
  <2> QED BY <2>2, <2>3 DEF IInv, IdsExhausted
<1>6. QueuesConsistent
  BY DEF IInv, Consistent, QueuesConsistent
<1> QED BY <1>1, <1>2, <1>3, <1>4, <1>5, <1>6

\* Nobody has called yet.
LEMMA InitInvariant == Init => IInv
<1> SUFFICES ASSUME Init PROVE IInv
  OBVIOUS
<1>1. exeQueue = <<>> /\ allocationQueue = <<>> /\ <<>> \in Seq(Requests) /\ Len(<<>>) = 0
  BY EmptySeq DEF Init
<1>2. \A r \in Requests : ~Listed(exeQueue, r) /\ ~Listed(allocationQueue, r)
  BY <1>1 DEF Listed
<1>3. \A r \in Requests : state[r] = "new" /\ ~IsIdHoldingState(state[r])
  BY DEF Init, IsIdHoldingState
<1>4. Consistent(lockId, owner, exeQueue, allocationQueue, state, id)
  BY <1>1, <1>2, <1>3, NoRequestAssumption DEF Init, Consistent, States
<1>5. 1 \in Ids
  BY MaxExecutionIdAssumption DEF Ids
<1> QED BY <1>1, <1>4, <1>5 DEF Init, IInv

\* getExecution: a new call gets an id or joins the calls that wait for one.
LEMMA GetExecutionInvariant ==
    ASSUME IInv, NEW r \in Requests, NEW p \in Priorities, GetExecution(r, p)
    PROVE  IInv'
<1> DEFINE pr   == [priority EXCEPT ![r] = p]
           free == FreeIds(lockId, exeQueue, state)
           i    == AllocateExecutionId(free)
<1>1. Consistent(lockId, owner, exeQueue, allocationQueue, state, id) /\ state[r] = "new"
  BY DEF IInv, GetExecution
<1>2. pr \in [Requests -> Int] /\ priority' = pr
  BY PrioritiesAssumption DEF IInv, GetExecution
<1>3. calls' \in Nat /\ ticket' \in [Requests -> Nat]
  BY DEF IInv, GetExecution
<1>4. free \subseteq Ids
  BY DEF FreeIds
<1>5. ~Listed(allocationQueue, r) /\ ~Listed(exeQueue, r)
  BY <1>1 DEF Consistent
<1>6. CASE free # {}
  <2>1. i \in free /\ i \in Ids
    BY <1>4, <1>6, AllocatedIdIsFree DEF IInv
  <2>2. ~Used(state, id, i)
    BY <1>1, <2>1, FreeIdsAreUnused
  <2>3. allocationQueue = <<>>
    BY <2>1, <2>2 DEF IInv
  <2>4. Without(allocationQueue, allocationQueue, r)
    BY <1>1, <1>5 DEF Without, Consistent
  <2>5. /\ id' = [id EXCEPT ![r] = i]
        /\ nextExecutionId' = Successor(i)
        /\ allocationQueue' = allocationQueue
        /\ GrantNext(lockId, owner, Enqueue(exeQueue, r, pr), [state EXCEPT ![r] = "waiting"])
    BY <1>6 DEF GetExecution
  <2> HIDE DEF free, i, pr
  <2>6. Consistent(lockId, owner, Enqueue(exeQueue, r, pr), allocationQueue,
                   [state EXCEPT ![r] = "waiting"], [id EXCEPT ![r] = i])
    BY <1>1, <1>2, <2>1, <2>2, <2>4, AssignOne
  <2>7. /\ Consistent(lockId', owner', exeQueue', allocationQueue, state', id')
        /\ lockId' = NoId => exeQueue' = <<>>
    BY <2>5, <2>6, GrantNextStep
  <2>8. nextExecutionId' \in Ids
    BY <2>1, <2>5, MaxExecutionIdAssumption DEF Successor, Ids
  <2> QED BY <1>2, <1>3, <2>3, <2>5, <2>7, <2>8 DEF IInv
<1>7. CASE free = {}
  <2> DEFINE st == [state EXCEPT ![r] = "allocating"]
             aq == Enqueue(allocationQueue, r, pr)
  <2>1. /\ id' = id /\ nextExecutionId' = nextExecutionId
        /\ allocationQueue' = aq
        /\ GrantNext(lockId, owner, exeQueue, st)
    BY <1>7 DEF GetExecution
  <2>2. \A j \in Ids : Used(state, id, j)
    BY <1>1, <1>7, FreeIdsAreUnused
  <2>3. /\ st \in [Requests -> States]
        /\ \A s \in Requests : st[s] = IF s = r THEN "allocating" ELSE state[s]
    BY <1>1 DEF Consistent, States
  <2>4. /\ aq \in Seq(Requests)
        /\ Len(aq) = Len(allocationQueue) + 1
        /\ \A x \in Requests : Listed(aq, x) <=> (x = r \/ Listed(allocationQueue, x))
        /\ \A k, j \in 1 .. Len(allocationQueue) + 1 : aq[k] = aq[j] => k = j
    BY <1>1, <1>2, <1>5, EnqueueProperties DEF Consistent
  <2>5. \A k, j \in 1 .. Len(aq) : aq[k] = aq[j] => k = j
    BY <2>4
  <2> HIDE DEF st, aq
  <2>6. \A s \in Requests : IsIdHoldingState(st[s]) <=> IsIdHoldingState(state[s])
    BY <1>1, <2>3 DEF IsIdHoldingState
  <2>7. /\ \A s \in Requests : st[s] \in {"granted", "overdue"} <=> owner = s
        /\ \A s \in Requests : Listed(exeQueue, s) <=> st[s] = "waiting"
        /\ \A s \in Requests : Listed(aq, s) <=> st[s] = "allocating"
    BY <1>1, <2>3, <2>4 DEF Consistent
  <2>8. Consistent(lockId, owner, exeQueue, aq, st, id')
    BY <1>1, <2>1, <2>3, <2>4, <2>5, <2>6, <2>7 DEF Consistent
  <2>9. \A j \in Ids : Used(st, id', j)
    BY <2>1, <2>2, <2>6 DEF Used
  <2>10. /\ Consistent(lockId', owner', exeQueue', aq, state', id')
         /\ lockId' = NoId => exeQueue' = <<>>
         /\ \A j \in Ids : Used(st, id', j) => Used(state', id', j)
    BY <2>1, <2>8, GrantNextStep
  <2> QED BY <1>2, <1>3, <2>1, <2>9, <2>10 DEF IInv
<1> QED BY <1>6, <1>7

\* The bookkeeping in the middle of a turn: without the call that expired, and without the
\* owner that let go.
LEMMA ExpireMiddle ==
    ASSUME IInv, NEW r \in Requests, Expire(r)
    PROVE  Consistent(lockId, owner, Remove(exeQueue, r), Remove(allocationQueue, r),
                      [state EXCEPT ![r] = "expired"], id)
<1> DEFINE st == [state EXCEPT ![r] = "expired"]
           q  == Remove(exeQueue, r)
           aq == Remove(allocationQueue, r)
<1>1. /\ Consistent(lockId, owner, exeQueue, allocationQueue, state, id)
      /\ state[r] \in {"allocating", "waiting"}
  BY DEF IInv, Expire
<1>2. /\ st \in [Requests -> States]
      /\ \A s \in Requests : st[s] = IF s = r THEN "expired" ELSE state[s]
  BY <1>1 DEF Consistent, States
<1>3. Without(q, exeQueue, r) /\ Without(aq, allocationQueue, r)
  BY <1>1, RemoveProperties DEF Consistent, Without
<1> HIDE DEF st, q, aq
<1>4. /\ \A s \in Requests : st[s] \in {"granted", "overdue"} <=> owner = s
      /\ \A s \in Requests : Listed(q, s) <=> st[s] = "waiting"
      /\ \A s \in Requests : Listed(aq, s) <=> st[s] = "allocating"
  BY <1>1, <1>2, <1>3 DEF Consistent, Without
<1>5. \A s \in Requests : IsIdHoldingState(st[s]) <=> (s # r /\ IsIdHoldingState(state[s]))
  BY <1>2 DEF IsIdHoldingState
<1>6. Consistent(lockId, owner, q, aq, st, id)
  BY <1>1, <1>2, <1>3, <1>4, <1>5 DEF Consistent, Without
<1> QED BY <1>6 DEF st, q, aq

\* Between the release by the owner and the two tails of the turn: the owner's id is
\* free again, and the queues are as consistent as before.
LEMMA UnLockMiddle ==
    ASSUME IInv, owner # NoRequest
    PROVE  /\ owner \in Requests
           /\ Consistent(NoId, NoRequest, exeQueue, allocationQueue,
                         [state EXCEPT ![owner] = "released"], id)
           /\ ~Used([state EXCEPT ![owner] = "released"], id, id[owner]) /\ id[owner] \in Ids
<1> DEFINE st == [state EXCEPT ![owner] = "released"]
<1>1. /\ Consistent(lockId, owner, exeQueue, allocationQueue, state, id)
      /\ owner \in Requests /\ state[owner] \in {"granted", "overdue"}
  BY DEF IInv, Consistent
<1>2. /\ st \in [Requests -> States]
      /\ \A s \in Requests : st[s] = IF s = owner THEN "released" ELSE state[s]
  BY <1>1 DEF Consistent, States
<1> HIDE DEF st
<1>3. /\ \A s \in Requests : ~(st[s] \in {"granted", "overdue"})
      /\ \A s \in Requests : Listed(exeQueue, s) <=> st[s] = "waiting"
      /\ \A s \in Requests : Listed(allocationQueue, s) <=> st[s] = "allocating"
  BY <1>1, <1>2 DEF Consistent
<1>4. \A s \in Requests : IsIdHoldingState(st[s]) <=> (s # owner /\ IsIdHoldingState(state[s]))
  BY <1>2 DEF IsIdHoldingState
<1>5. Consistent(NoId, NoRequest, exeQueue, allocationQueue, st, id)
  BY <1>1, <1>2, <1>3, <1>4, NoRequestAssumption DEF Consistent
<1>6. IsIdHoldingState(state[owner]) /\ id[owner] \in Ids
  BY <1>1 DEF Consistent, IsIdHoldingState
<1>7. ~Used(st, id, id[owner])
  BY <1>1, <1>4, <1>6 DEF Used, Consistent
<1> QED BY <1>1, <1>5, <1>6, <1>7 DEF st

\* expire: the call leaves its queue, and its id (if it had one) is handed on.
LEMMA ExpireInvariant ==
    ASSUME IInv, NEW r \in Requests, Expire(r)
    PROVE  IInv'
<1> DEFINE st == [state EXCEPT ![r] = "expired"]
           q  == Remove(exeQueue, r)
           aq == Remove(allocationQueue, r)
<1>1. /\ Consistent(lockId, owner, exeQueue, allocationQueue, state, id)
      /\ state[r] \in {"allocating", "waiting"}
      /\ AssignAllocationWaiters(lockId, owner, q, aq, st, FALSE)
      /\ priority' = priority /\ ticket' = ticket /\ calls' = calls
  BY DEF IInv, Expire, history
<1>2. Consistent(lockId, owner, q, aq, st, id)
  BY ExpireMiddle
<1>3. Without(aq, allocationQueue, r)
  BY <1>1, RemoveProperties DEF Consistent, Without
<1>4. lockId # NoId
  BY <1>1, FreeLockNobodyPending DEF Pending
<1>5. \A s \in Requests : s # r /\ IsIdHoldingState(state[s]) => IsIdHoldingState(st[s])
  BY <1>1 DEF Consistent
<1> HIDE DEF st, q, aq
<1>6. aq # <<>> => UsedExcept(st, id, id[r])
  <2>1. ASSUME aq # <<>> PROVE allocationQueue # <<>>
    <3>1. PICK s \in Requests : Listed(aq, s)
      BY <1>3, <2>1, NobodyListed DEF Without
    <3>2. Listed(allocationQueue, s)
      BY <1>3, <3>1 DEF Without
    <3> QED BY <3>2, EmptySeq DEF Listed
  <2>2. allocationQueue # <<>> => \A i \in Ids : Used(state, id, i)
    BY DEF IInv
  <2> QED BY <1>5, <2>1, <2>2 DEF Used, UsedExcept
<1>7. /\ Consistent(lockId', owner', exeQueue', allocationQueue', state', id')
      /\ nextExecutionId' \in Ids
      /\ allocationQueue' # <<>> => \A i \in Ids : Used(state', id', i)
      /\ lockId' = lockId
  BY <1>1, <1>2, <1>6, AssignStep DEF IInv
<1> QED BY <1>1, <1>4, <1>7 DEF IInv

\* unLockExecution: the owner lets go, and the right passes on in the same turn.
LEMMA UnLockExecutionInvariant ==
    ASSUME IInv, NEW r \in Requests, UnLockExecution(r)
    PROVE  IInv'
<1> DEFINE st == [state EXCEPT ![owner] = "released"]
<1>1. /\ owner # NoRequest
      /\ AssignAllocationWaiters(NoId, NoRequest, exeQueue, allocationQueue, st, TRUE)
      /\ priority' = priority /\ ticket' = ticket /\ calls' = calls
  BY DEF UnLockExecution, history
<1>2. Consistent(NoId, NoRequest, exeQueue, allocationQueue, st, id)
  BY <1>1, UnLockMiddle
<1>3. \A s \in Requests : s # owner /\ IsIdHoldingState(state[s]) => IsIdHoldingState(st[s])
  BY DEF IInv, Consistent
<1> HIDE DEF st
<1>4. allocationQueue # <<>> => UsedExcept(st, id, id[owner])
  BY <1>3 DEF IInv, Used, UsedExcept
<1>5. /\ Consistent(lockId', owner', exeQueue', allocationQueue', state', id')
      /\ nextExecutionId' \in Ids
      /\ allocationQueue' # <<>> => \A i \in Ids : Used(state', id', i)
      /\ lockId' = NoId => exeQueue' = <<>>
  BY <1>1, <1>2, <1>4, AssignStep DEF IInv
<1> QED BY <1>1, <1>5 DEF IInv

\* The owner watchdog marks the owner and leaves it its right.
LEMMA OwnerOverdueInvariant ==
    ASSUME IInv, NEW r \in Requests, OwnerOverdue(r)
    PROVE  IInv'
<1>1. /\ Consistent(lockId, owner, exeQueue, allocationQueue, state, id)
      /\ owner = r /\ state[r] = "granted"
      /\ state' = [state EXCEPT ![r] = "overdue"]
      /\ UNCHANGED <<id, priority, lockId, owner, nextExecutionId, exeQueue,
                     allocationQueue, ticket, calls>>
  BY DEF IInv, OwnerOverdue, queues, history
<1>2. /\ state' \in [Requests -> States]
      /\ \A s \in Requests : state'[s] = IF s = r THEN "overdue" ELSE state[s]
  BY <1>1 DEF Consistent, States
<1>3. \A s \in Requests : IsIdHoldingState(state'[s]) <=> IsIdHoldingState(state[s])
  BY <1>1, <1>2 DEF IsIdHoldingState
<1>4. /\ \A s \in Requests : state'[s] \in {"granted", "overdue"} <=> owner = s
      /\ \A s \in Requests : Listed(exeQueue, s) <=> state'[s] = "waiting"
      /\ \A s \in Requests : Listed(allocationQueue, s) <=> state'[s] = "allocating"
  BY <1>1, <1>2 DEF Consistent
<1>5. Consistent(lockId, owner, exeQueue, allocationQueue, state', id)
  BY <1>1, <1>2, <1>3, <1>4 DEF Consistent
<1>6. \A i \in Ids : Used(state, id, i) => Used(state', id, i)
  BY <1>3 DEF Used
<1>7. /\ Consistent(lockId', owner', exeQueue', allocationQueue', state', id')
      /\ lockId' = NoId => exeQueue' = <<>>
      /\ allocationQueue' # <<>> => \A i \in Ids : Used(state', id', i)
  BY <1>1, <1>5, <1>6 DEF IInv
<1> QED BY <1>1, <1>7 DEF IInv

\* The inductive invariant holds in every reachable state.
THEOREM Invariance == Spec => []IInv
<1>1. Init => IInv
  BY InitInvariant
<1>2. IInv /\ [Next]_vars => IInv'
  <2> SUFFICES ASSUME IInv, [Next]_vars PROVE IInv'
    OBVIOUS
  <2>1. ASSUME NEW r \in Requests, NEW p \in Priorities, GetExecution(r, p) PROVE IInv'
    BY <2>1, GetExecutionInvariant
  <2>2. ASSUME NEW r \in Requests, Expire(r) PROVE IInv'
    BY <2>2, ExpireInvariant
  <2>3. ASSUME NEW r \in Requests, UnLockExecution(r) PROVE IInv'
    BY <2>3, UnLockExecutionInvariant
  <2>4. ASSUME NEW r \in Requests, OwnerOverdue(r) PROVE IInv'
    BY <2>4, OwnerOverdueInvariant
  <2>5. CASE UNCHANGED vars
    BY <2>5 DEF IInv, vars, queues, history, Used, Consistent
  <2> QED BY <2>1, <2>2, <2>3, <2>4, <2>5 DEF Next
<1> QED BY <1>1, <1>2, PTL DEF Spec

\* Every variable of ExecutionManagementModel keeps its type.
THEOREM TypeCorrect == Spec => []TypeOK
BY Invariance, InvariantImplies, PTL

\* The right that getExecution hands out is exclusive, whatever the interleaving
\* of calls, timeouts, unlocks and watchdogs and however small the id space.
THEOREM Exclusive == Spec => []MutualExclusion
BY Invariance, InvariantImplies, PTL

\* No two live calls of getExecution carry the same id.
THEOREM DistinctIds == Spec => []IdsDistinct
BY Invariance, InvariantImplies, PTL

\* No lost wakeup: the lock is never free while a call is pending.
THEOREM NoLostWakeup == Spec => []NoIdleLock
BY Invariance, InvariantImplies, PTL

\* An id that becomes free never stays unused while a call waits for one.
THEOREM NoLostId == Spec => []IdsExhausted
BY Invariance, InvariantImplies, PTL

\* The queues hold exactly the pending calls, each of them once.
THEOREM QueuesHoldPendingCalls == Spec => []QueuesConsistent
BY Invariance, InvariantImplies, PTL
-----------------------------------------------------------------------------
(* The order of the queues. *)

Before(a, b, pr, tk) == pr[a] > pr[b] \/ (pr[a] = pr[b] /\ tk[a] < tk[b])

Sorted(q, pr, tk) ==
    \A i, j \in 1 .. Len(q) : i < j => Before(q[i], q[j], pr, tk)

\* Both queues are in the order of the contract, and of two calls of one priority the one
\* that has an id was made first.
Ordered(q, aq, pr, tk) ==
    /\ Sorted(q, pr, tk) /\ Sorted(aq, pr, tk)
    /\ \A x, y \in Requests :
          Listed(q, x) /\ Listed(aq, y) /\ pr[x] = pr[y] => tk[x] < tk[y]

OrderInv ==
    /\ Ordered(exeQueue, allocationQueue, priority, ticket)
    /\ \A r \in Requests : ticket[r] <= calls

\* Enqueue keeps a queue in order when the new entry has the last ticket of its priority.
LEMMA EnqueueSorted ==
    ASSUME NEW q \in Seq(Requests), NEW e \in Requests,
           NEW pr \in [Requests -> Int], NEW tk \in [Requests -> Nat],
           Sorted(q, pr, tk),
           \A x \in Requests : Listed(q, x) /\ pr[x] = pr[e] => tk[x] < tk[e]
    PROVE  Sorted(Enqueue(q, e, pr), pr, tk)
<1> DEFINE n == Len(q)
           k == Position(q, e, pr)
           z == Enqueue(q, e, pr)
<1>1. n \in Nat /\ Len(z) = n + 1
  BY EnqueueProperties, LenProperties
<1>2. /\ k \in 1 .. n + 1
      /\ \A j \in 1 .. k - 1 : pr[q[j]] >= pr[e]
      /\ k <= n => pr[q[k]] < pr[e]
  BY PositionProperties
<1>3. z = [i \in 1 .. n + 1 |-> IF i < k THEN q[i] ELSE IF i = k THEN e ELSE q[i - 1]]
  BY DEF Enqueue
<1>4. pr[e] \in Int /\ tk[e] \in Nat
      /\ \A i \in 1 .. n : q[i] \in Requests /\ pr[q[i]] \in Int /\ tk[q[i]] \in Nat
  <2>1. \A i \in 1 .. n : q[i] \in Requests
    BY ElementOfSeq
  <2> QED BY <2>1
<1>5. \A i, j \in 1 .. n : i < j => Before(q[i], q[j], pr, tk)
  BY DEF Sorted
<1>6. \A i \in 1 .. n : pr[q[i]] = pr[e] => tk[q[i]] < tk[e]
  BY <1>4 DEF Listed
<1> HIDE DEF n, k, z
<1>7. \A i \in 1 .. n : i < k => Before(q[i], e, pr, tk)
  <2> SUFFICES ASSUME NEW i \in 1 .. n, i < k PROVE Before(q[i], e, pr, tk)
    OBVIOUS
  <2>1. pr[q[i]] >= pr[e]
    BY <1>1, <1>2
  <2> QED BY <1>4, <1>6, <2>1 DEF Before
<1>8. \A i \in 1 .. n : i >= k => Before(e, q[i], pr, tk)
  <2> SUFFICES ASSUME NEW i \in 1 .. n, i >= k PROVE Before(e, q[i], pr, tk)
    OBVIOUS
  <2>1. k \in 1 .. n /\ pr[q[k]] < pr[e]
    BY <1>1, <1>2
  <2>2. k = i \/ Before(q[k], q[i], pr, tk)
    BY <1>5, <2>1
  <2>3. pr[q[i]] < pr[e]
    BY SMTT(30), <1>4, <2>1, <2>2 DEF Before
  <2> QED BY <2>3, <1>4 DEF Before
<1>9. ASSUME NEW i \in 1 .. n + 1, NEW j \in 1 .. n + 1, i < j
      PROVE  Before(z[i], z[j], pr, tk)
  <2>1. CASE j < k
    BY <1>1, <1>2, <1>3, <1>5, <1>9, <2>1
  <2>2. CASE j = k
    BY <1>1, <1>2, <1>3, <1>7, <1>9, <2>2
  <2>3. CASE i < k /\ j > k
    <3>1. i \in 1 .. n /\ j - 1 \in 1 .. n /\ i < j - 1 /\ z[i] = q[i] /\ z[j] = q[j - 1]
      BY <1>1, <1>2, <1>3, <1>9, <2>3
    <3> QED BY <1>5, <3>1
  <2>4. CASE i = k
    <3>1. j - 1 \in 1 .. n /\ j - 1 >= k /\ z[i] = e /\ z[j] = q[j - 1]
      BY <1>1, <1>2, <1>3, <1>9, <2>4
    <3> QED BY <1>8, <3>1
  <2>5. CASE i > k
    <3>1. i - 1 \in 1 .. n /\ j - 1 \in 1 .. n /\ i - 1 < j - 1 /\ z[i] = q[i - 1] /\ z[j] = q[j - 1]
      BY <1>1, <1>2, <1>3, <1>9, <2>5
    <3> QED BY <1>5, <3>1
  <2> QED BY <1>1, <1>2, <2>1, <2>2, <2>3, <2>4, <2>5
<1> QED BY <1>1, <1>9 DEF Sorted, z
\* Whoever leaves a queue leaves it in order.
LEMMA RemoveSorted ==
    ASSUME NEW q \in Seq(Requests), NEW e \in Requests, NEW pr, NEW tk, Sorted(q, pr, tk)
    PROVE  Sorted(Remove(q, e), pr, tk)
<1>1. CASE ~Listed(q, e)
  BY <1>1 DEF Remove, Listed
<1>2. CASE Listed(q, e)
  <2> DEFINE n == Len(q)
             z == Remove(q, e)
  <2>1. n \in Nat
    BY LenProperties
  <2>2. PICK at \in 1 .. n : z = [i \in 1 .. n - 1 |-> IF i < at THEN q[i] ELSE q[i + 1]]
    BY <1>2 DEF Remove, Listed
  <2>3. \A i \in 1 .. n - 1 : z[i] \in {q[i], q[i + 1]} /\ (z[i] = q[i] \/ i >= at) /\ (i < at => z[i] = q[i])
    BY <2>2
  <2>4. Len(z) = n - 1
    <3>1. z \in Seq(Requests) /\ n - 1 \in Nat
      <4>1. \A i \in 1 .. n : q[i] \in Requests
        BY ElementOfSeq
      <4>2. z \in [1 .. n - 1 -> Requests] /\ n - 1 \in Nat
        BY <2>1, <2>2, <4>1
      <4> QED BY <4>2, SeqDef
    <3> QED BY <2>2, <3>1, LenProperties
  <2> HIDE DEF z
  <2>5. ASSUME NEW i \in 1 .. n - 1, NEW j \in 1 .. n - 1, i < j
        PROVE  Before(z[i], z[j], pr, tk)
    <3>1. \A a, b \in 1 .. n : a < b => Before(q[a], q[b], pr, tk)
      BY DEF Sorted
    <3>2. i \in 1 .. n /\ i + 1 \in 1 .. n /\ j \in 1 .. n /\ j + 1 \in 1 .. n
      BY <2>1
    <3>3. CASE j < at
      BY <2>2, <2>5, <3>1, <3>2, <3>3
    <3>4. CASE i < at /\ ~(j < at)
      BY <2>2, <2>5, <3>1, <3>2, <3>4
    <3>5. CASE ~(i < at)
      <4>1. z[i] = q[i + 1] /\ z[j] = q[j + 1] /\ i + 1 < j + 1
        BY <2>2, <2>5, <3>5
      <4> QED BY <3>1, <3>2, <4>1
    <3> QED BY <2>5, <3>3, <3>4, <3>5
  <2> QED BY <2>4, <2>5 DEF Sorted, z
<1> QED BY <1>1, <1>2

\* Without its head a sorted queue is sorted, and the head comes before all that are left.
LEMMA TailSorted ==
    ASSUME NEW q \in Seq(Requests), q # <<>>, NEW pr, NEW tk, Sorted(q, pr, tk)
    PROVE  /\ Sorted(Tail(q), pr, tk)
           /\ \A x \in Requests : Listed(Tail(q), x) => Before(Head(q), x, pr, tk)
<1>1. /\ Len(q) \in Nat \ {0} /\ Head(q) = q[1] /\ Len(Tail(q)) = Len(q) - 1
      /\ \A i \in 1 .. Len(q) - 1 : Tail(q)[i] = q[i + 1]
  BY EmptySeq, HeadTailProperties
<1>2. \A i \in 1 .. Len(q) - 1 : i + 1 \in 1 .. Len(q) /\ 1 \in 1 .. Len(q) /\ 1 < i + 1
  BY <1>1
<1>3. \A a, b \in 1 .. Len(q) : a < b => Before(q[a], q[b], pr, tk)
  BY DEF Sorted
<1>4. ASSUME NEW i \in 1 .. Len(q) - 1, NEW j \in 1 .. Len(q) - 1, i < j
      PROVE  Before(Tail(q)[i], Tail(q)[j], pr, tk)
  <2>1. i + 1 < j + 1
    BY <1>4
  <2> QED BY <1>1, <1>2, <1>3, <2>1
<1>5. \A x \in Requests : Listed(Tail(q), x) => Before(Head(q), x, pr, tk)
  BY <1>1, <1>2, <1>3 DEF Listed
<1> QED BY <1>1, <1>4, <1>5 DEF Sorted

\* The queues stay ordered when a call leaves, when the first call that waits for an id gets
\* one, and when the lock is handed on.
LEMMA RemoveOrdered ==
    ASSUME NEW q \in Seq(Requests), NEW aq \in Seq(Requests), NEW e \in Requests, NEW pr, NEW tk,
           Ordered(q, aq, pr, tk),
           Without(Remove(q, e), q, e), Without(Remove(aq, e), aq, e)
    PROVE  Ordered(Remove(q, e), Remove(aq, e), pr, tk)
BY RemoveSorted DEF Ordered, Without

\* The call that gets an id is the oldest without one; put into the queue behind its
\* equals, it keeps the queue sorted and older than those still without an id.
LEMMA AssignOrdered ==
    ASSUME NEW q \in Seq(Requests), NEW aq \in Seq(Requests), aq # <<>>,
           NEW pr \in [Requests -> Int], NEW tk \in [Requests -> Nat],
           Ordered(q, aq, pr, tk), Without(Tail(aq), aq, Head(aq)),
           Head(aq) \in Requests, Listed(aq, Head(aq))
    PROVE  Ordered(Enqueue(q, Head(aq), pr), Tail(aq), pr, tk)
<1> DEFINE e == Head(aq)
           z == Enqueue(q, e, pr)
<1>1. Sorted(q, pr, tk) /\ \A x \in Requests : Listed(q, x) /\ pr[x] = pr[e] => tk[x] < tk[e]
  BY DEF Ordered
<1>2. Sorted(z, pr, tk)
  BY <1>1, EnqueueSorted
<1>3. \A x \in Requests : Listed(z, x) => x = e \/ Listed(q, x)
  BY EnqueueProperties
<1>4. Sorted(Tail(aq), pr, tk) /\ \A x \in Requests : Listed(Tail(aq), x) => Before(e, x, pr, tk)
  BY TailSorted DEF Ordered
<1> HIDE DEF z, e
<1>5. ASSUME NEW x \in Requests, NEW y \in Requests, Listed(z, x), Listed(Tail(aq), y), pr[x] = pr[y]
      PROVE  tk[x] < tk[y]
  <2>1. CASE x = e
    BY <1>4, <1>5, <2>1 DEF Before
  <2>2. CASE Listed(q, x)
    BY <1>5, <2>2 DEF Ordered, Without
  <2> QED BY <1>3, <1>5, <2>1, <2>2
<1> QED BY <1>2, <1>4, <1>5 DEF Ordered, z, e

\* Granting takes the head of the queue, if anything.
LEMMA GrantOrdered ==
    ASSUME NEW lock, NEW own, NEW q \in Seq(Requests), NEW aq \in Seq(Requests), NEW st, NEW pr, NEW tk,
           Ordered(q, aq, pr, tk), \A i, j \in 1 .. Len(q) : q[i] = q[j] => i = j,
           GrantNext(lock, own, q, st)
    PROVE  Ordered(exeQueue', aq, pr, tk)
<1>1. CASE lock = NoId /\ q # <<>>
  <2>1. exeQueue' = Tail(q)
    BY <1>1 DEF GrantNext
  <2>2. \A x \in Requests : Listed(Tail(q), x) => Listed(q, x)
    BY <1>1, TailProperties
  <2> QED BY <1>1, <2>1, <2>2, TailSorted DEF Ordered
<1>2. CASE ~(lock = NoId /\ q # <<>>)
  BY <1>2 DEF GrantNext
<1> QED BY <1>1, <1>2

\* The tail of a turn, which hands out ids and grants the lock, keeps the order of calls.
LEMMA AssignKeepsOrder ==
    ASSUME NEW lock, NEW own, NEW q, NEW aq, NEW st, NEW grant \in BOOLEAN,
           Consistent(lock, own, q, aq, st, id),
           priority \in [Requests -> Int], ticket \in [Requests -> Nat],
           Ordered(q, aq, priority, ticket),
           AssignAllocationWaiters(lock, own, q, aq, st, grant)
    PROVE  Ordered(exeQueue', allocationQueue', priority, ticket)
<1> DEFINE free == FreeIds(lock, q, st)
           e    == Head(aq)
           q2   == Enqueue(q, e, priority)
           st2  == [st EXCEPT ![e] = "waiting"]
<1>1. /\ q \in Seq(Requests) /\ aq \in Seq(Requests)
      /\ \A i, j \in 1 .. Len(q) : q[i] = q[j] => i = j
      /\ \A i, j \in 1 .. Len(aq) : aq[i] = aq[j] => i = j
  BY DEF Consistent
<1>2. CASE aq # <<>> /\ free # {}
  <2>1. /\ allocationQueue' = Tail(aq)
        /\ GrantNext(lock, own, q2, st2) \/ exeQueue' = q2
    BY <1>2 DEF AssignAllocationWaiters
  <2>2. e \in Requests /\ Listed(aq, e) /\ Without(Tail(aq), aq, e)
    BY <1>1, <1>2, TailProperties DEF Without
  <2>3. ~Listed(q, e)
    BY <2>2 DEF Consistent
  <2>4. q2 \in Seq(Requests) /\ \A i, j \in 1 .. Len(q2) : q2[i] = q2[j] => i = j
    BY <1>1, <2>2, <2>3, EnqueueProperties
  <2>5. Ordered(q2, Tail(aq), priority, ticket) /\ Tail(aq) \in Seq(Requests)
    BY <1>1, <1>2, <2>2, AssignOrdered DEF Without
  <2> HIDE DEF q2, st2
  <2> QED BY <2>1, <2>4, <2>5, GrantOrdered
<1>3. CASE ~(aq # <<>> /\ free # {})
  <2>1. /\ allocationQueue' = aq
        /\ GrantNext(lock, own, q, st) \/ exeQueue' = q
    BY <1>3 DEF AssignAllocationWaiters
  <2> QED BY <1>1, <2>1, GrantOrdered
<1> QED BY <1>2, <1>3

\* A new call joins the calls of its priority behind all of them.
LEMMA GetExecutionOrder ==
    ASSUME IInv, OrderInv, NEW r \in Requests, NEW p \in Priorities, GetExecution(r, p)
    PROVE  OrderInv'
<1> DEFINE pr == [priority EXCEPT ![r] = p]
           tk == [ticket EXCEPT ![r] = calls + 1]
           q  == Enqueue(exeQueue, r, pr)
           aq == Enqueue(allocationQueue, r, pr)
           free == FreeIds(lockId, exeQueue, state)
<1>1. /\ Consistent(lockId, owner, exeQueue, allocationQueue, state, id) /\ state[r] = "new"
      /\ priority' = pr /\ ticket' = tk /\ calls' = calls + 1
      /\ exeQueue \in Seq(Requests) /\ allocationQueue \in Seq(Requests)
      /\ \A i, j \in 1 .. Len(exeQueue) : exeQueue[i] = exeQueue[j] => i = j
  BY DEF IInv, GetExecution, Consistent
<1>2. /\ pr \in [Requests -> Int] /\ tk \in [Requests -> Nat] /\ tk[r] = calls + 1 /\ calls \in Nat
      /\ \A x \in Requests : x # r => pr[x] = priority[x] /\ tk[x] = ticket[x]
      /\ \A x \in Requests : ticket[x] \in Nat /\ ticket[x] <= calls
  BY PrioritiesAssumption DEF IInv, OrderInv
<1>3. ~Listed(exeQueue, r) /\ ~Listed(allocationQueue, r)
  BY <1>1 DEF Consistent
<1>4. \A x \in Requests : tk[x] <= calls' /\ (x # r => tk[x] < tk[r])
  BY <1>1, <1>2
<1> HIDE DEF pr, tk
<1>5. Ordered(exeQueue, allocationQueue, pr, tk)
  <2>1. ASSUME NEW s \in Seq(Requests), ~Listed(s, r), Sorted(s, priority, ticket)
        PROVE  Sorted(s, pr, tk)
    <3>1. \A i \in 1 .. Len(s) : s[i] \in Requests /\ s[i] # r
      BY <2>1, ElementOfSeq DEF Listed
    <3>2. ASSUME NEW i \in 1 .. Len(s), NEW j \in 1 .. Len(s), i < j
          PROVE  Before(s[i], s[j], pr, tk)
      <4>1. Before(s[i], s[j], priority, ticket)
        BY <2>1, <3>2 DEF Sorted
      <4>2. /\ pr[s[i]] = priority[s[i]] /\ pr[s[j]] = priority[s[j]]
            /\ tk[s[i]] = ticket[s[i]] /\ tk[s[j]] = ticket[s[j]]
        BY <1>2, <3>1
      <4> QED BY <4>1, <4>2 DEF Before
    <3> QED BY <3>2 DEF Sorted
  <2> QED BY <1>1, <1>2, <1>3, <2>1 DEF OrderInv, Ordered
<1>6. CASE free # {}
  <2>1. allocationQueue = <<>>
    <3>1. PICK i \in Ids : i \in free
      BY <1>6 DEF FreeIds
    <3> QED BY <1>1, <3>1, FreeIdsAreUnused DEF IInv
  <2>2. q \in Seq(Requests) /\ \A i, j \in 1 .. Len(q) : q[i] = q[j] => i = j
    <3>1. /\ q \in Seq(Requests) /\ Len(q) = Len(exeQueue) + 1
          /\ \A i, j \in 1 .. Len(exeQueue) + 1 : q[i] = q[j] => i = j
      <4>1. Enqueue(exeQueue, r, pr) \in Seq(Requests) /\ Len(Enqueue(exeQueue, r, pr)) = Len(exeQueue) + 1
        BY <1>1, <1>2, EnqueueProperties
      <4>2. \A i, j \in 1 .. Len(exeQueue) + 1 :
               Enqueue(exeQueue, r, pr)[i] = Enqueue(exeQueue, r, pr)[j] => i = j
        <5>1. exeQueue \in Seq(Requests) /\ r \in Requests /\ pr \in [Requests -> Int]
          BY <1>1, <1>2
        <5>2. (\A i, j \in 1 .. Len(exeQueue) : exeQueue[i] = exeQueue[j] => i = j) /\ ~Listed(exeQueue, r)
          BY <1>1, <1>3
        <5> QED BY ONLY <5>1, <5>2, EnqueueProperties
      <4> QED BY <4>1, <4>2
    <3> QED BY <3>1
  <2>3. Sorted(q, pr, tk)
    <3>1. \A x \in Requests : Listed(exeQueue, x) /\ pr[x] = pr[r] => tk[x] < tk[r]
      BY <1>3, <1>4
    <3>2. Sorted(exeQueue, pr, tk)
      BY <1>5 DEF Ordered
    <3> QED BY <1>1, <1>2, <3>1, <3>2, EnqueueSorted
  <2>4. Ordered(q, allocationQueue, pr, tk)
    <3>1. \A x \in Requests : ~Listed(allocationQueue, x)
      BY <2>1, EmptySeq DEF Listed
    <3> QED BY <1>5, <2>3, <3>1 DEF Ordered
  <2>5. /\ allocationQueue' = allocationQueue
        /\ GrantNext(lockId, owner, q, [state EXCEPT ![r] = "waiting"])
    BY <1>6 DEF GetExecution, pr
  <2> HIDE DEF q
  <2> QED BY <1>1, <1>4, <2>2, <2>4, <2>5, GrantOrdered DEF OrderInv
<1>7. CASE free = {}
  <2>1. aq \in Seq(Requests) /\ \A x \in Requests : Listed(aq, x) <=> (x = r \/ Listed(allocationQueue, x))
    BY <1>1, <1>2, EnqueueProperties
  <2>2. Sorted(aq, pr, tk)
    <3>1. \A x \in Requests : Listed(allocationQueue, x) /\ pr[x] = pr[r] => tk[x] < tk[r]
      BY <1>3, <1>4
    <3>2. Sorted(allocationQueue, pr, tk)
      BY <1>5 DEF Ordered
    <3> QED BY <1>1, <1>2, <3>1, <3>2, EnqueueSorted
  <2>3. Ordered(exeQueue, aq, pr, tk)
    BY <1>3, <1>4, <1>5, <2>1, <2>2 DEF Ordered
  <2>4. /\ allocationQueue' = aq
        /\ GrantNext(lockId, owner, exeQueue, [state EXCEPT ![r] = "allocating"])
    BY <1>7 DEF GetExecution, pr
  <2> HIDE DEF aq
  <2> QED BY <1>1, <1>4, <2>1, <2>3, <2>4, GrantOrdered DEF OrderInv
<1> QED BY <1>6, <1>7

\* Every step keeps both queues in the order in which calls are to be served.
LEMMA OrderStep ==
    ASSUME IInv, OrderInv, [Next]_vars
    PROVE  OrderInv'
<1>1. ASSUME NEW r \in Requests, NEW p \in Priorities, GetExecution(r, p) PROVE OrderInv'
  BY <1>1, GetExecutionOrder
<1>2. ASSUME NEW r \in Requests, Expire(r) PROVE OrderInv'
  <2>1. /\ Without(Remove(exeQueue, r), exeQueue, r)
        /\ Without(Remove(allocationQueue, r), allocationQueue, r)
        /\ exeQueue \in Seq(Requests) /\ allocationQueue \in Seq(Requests)
    BY RemoveProperties DEF IInv, Consistent, Without
  <2>2. Ordered(Remove(exeQueue, r), Remove(allocationQueue, r), priority, ticket)
    BY <2>1, RemoveOrdered DEF OrderInv
  <2>3. /\ AssignAllocationWaiters(lockId, owner, Remove(exeQueue, r), Remove(allocationQueue, r),
                                   [state EXCEPT ![r] = "expired"], FALSE)
        /\ UNCHANGED <<priority, ticket, calls>>
    BY <1>2 DEF Expire, history
  <2>4. Ordered(exeQueue', allocationQueue', priority, ticket)
    BY <1>2, <2>2, <2>3, ExpireMiddle, AssignKeepsOrder DEF IInv
  <2> QED BY <2>3, <2>4 DEF OrderInv
<1>3. ASSUME NEW r \in Requests, UnLockExecution(r) PROVE OrderInv'
  <2>1. /\ AssignAllocationWaiters(NoId, NoRequest, exeQueue, allocationQueue,
                                   [state EXCEPT ![owner] = "released"], TRUE)
        /\ UNCHANGED <<priority, ticket, calls>> /\ owner # NoRequest
    BY <1>3 DEF UnLockExecution, history
  <2>2. Ordered(exeQueue', allocationQueue', priority, ticket)
    BY <2>1, UnLockMiddle, AssignKeepsOrder DEF IInv, OrderInv
  <2> QED BY <2>1, <2>2 DEF OrderInv
<1>4. CASE UNCHANGED <<exeQueue, allocationQueue, priority, ticket, calls>>
  BY <1>4 DEF OrderInv
<1> QED BY <1>1, <1>2, <1>3, <1>4 DEF Next, OwnerOverdue, vars, queues, history
-----------------------------------------------------------------------------
(* The refinement: ExclusiveRight is implemented. *)

PendingCalls == {r \in Requests : Pending(r)}
SettledCalls == {r \in Requests : state[r] \in {"expired", "released"}}

\* The head of a queue that is in order, and behind which nobody waits that it does not
\* precede, is the first of all pending calls.
LEMMA HeadIsFirst ==
    ASSUME NEW q \in Seq(Requests), q # <<>>, NEW S \in SUBSET Requests,
           priority \in [Requests -> Int], ticket \in [Requests -> Nat],
           Sorted(q, priority, ticket),
           \A x \in Requests : Listed(q, x) => x \in S,
           \A x \in S : Listed(q, x) \/ \E y \in Requests : Listed(q, y) /\ Before(y, x, priority, ticket)
    PROVE  Head(q) \in S /\ Contract!First(S) = Head(q)
<1> DEFINE h == Head(q)
<1>1. /\ Len(q) \in Nat \ {0} /\ h = q[1] /\ h \in Requests
      /\ \A i \in 1 .. Len(q) : q[i] \in Requests
  BY EmptySeq, HeadTailProperties, ElementOfSeq
<1>2. h \in S
  BY <1>1 DEF Listed
<1>3. \A x \in Requests : Listed(q, x) /\ x # h => Before(h, x, priority, ticket)
  <2> SUFFICES ASSUME NEW i \in 1 .. Len(q), q[i] # h PROVE Before(h, q[i], priority, ticket)
    BY DEF Listed
  <2>1. 1 \in 1 .. Len(q) /\ 1 < i
    BY <1>1
  <2> QED BY <1>1, <2>1 DEF Sorted
<1> HIDE DEF h
<1>4. ASSUME NEW a \in Requests, NEW b \in Requests, NEW c \in Requests,
             Before(a, b, priority, ticket), Before(b, c, priority, ticket)
      PROVE  Before(a, c, priority, ticket)
  <2>1. /\ priority[a] \in Int /\ priority[b] \in Int /\ priority[c] \in Int
        /\ ticket[a] \in Nat /\ ticket[b] \in Nat /\ ticket[c] \in Nat
    OBVIOUS
  <2> QED BY <1>4, <2>1 DEF Before
<1>5. \A x \in S \ {h} : Before(h, x, priority, ticket)
  <2> SUFFICES ASSUME NEW x \in S, x # h, ~Listed(q, x) PROVE Before(h, x, priority, ticket)
    BY <1>3
  <2>1. PICK y \in Requests : Listed(q, y) /\ Before(y, x, priority, ticket)
    OBVIOUS
  <2> QED BY <1>1, <1>3, <1>4, <2>1
<1>6. \A x \in S \ {h} : ~Before(x, h, priority, ticket)
  <2> SUFFICES ASSUME NEW x \in S \ {h} PROVE ~Before(x, h, priority, ticket)
    OBVIOUS
  <2>1. priority[x] \in Int /\ priority[h] \in Int /\ ticket[x] \in Nat /\ ticket[h] \in Nat
    BY <1>1
  <2> QED BY SMTT(30), <1>5, <2>1 DEF Before
<1>7. Contract!First(S) = CHOOSE r \in S : \A s \in S \ {r} : Before(r, s, priority, ticket)
  BY DEF Contract!First, Contract!Precedes, Before
<1>8. \A r \in S : (\A s \in S \ {r} : Before(r, s, priority, ticket)) <=> r = h
  BY <1>2, <1>5, <1>6
<1> QED BY <1>2, <1>7, <1>8 DEF h

\* A call of getExecution asks for the right, and gets it when the lock is free.
LEMMA GetExecutionAsks ==
    ASSUME IInv, NEW r \in Requests, NEW p \in Priorities, GetExecution(r, p)
    PROVE  Contract!Ask(r, p)
<1> DEFINE pr   == [priority EXCEPT ![r] = p]
           free == FreeIds(lockId, exeQueue, state)
           i    == AllocateExecutionId(free)
<1>1. /\ Consistent(lockId, owner, exeQueue, allocationQueue, state, id) /\ state[r] = "new"
      /\ priority' = pr /\ calls' = calls + 1 /\ ticket' = [ticket EXCEPT ![r] = calls + 1]
      /\ state \in [Requests -> States]
  BY DEF IInv, GetExecution, Consistent
<1>2. r \notin PendingCalls \cup SettledCalls \cup {owner}
  BY <1>1, NoRequestAssumption DEF PendingCalls, SettledCalls, Pending, Consistent
<1>3. pr \in [Requests -> Int]
  BY PrioritiesAssumption DEF IInv
<1>4. CASE lockId = NoId
  <2>1. exeQueue = <<>> /\ \A s \in Requests : ~Pending(s)
    BY <1>4, FreeLockNobodyPending
  <2>2. free # {}
    <3>1. \A s \in Requests : ~IsIdHoldingState(state[s])
      BY <1>1, <1>4, <2>1, NoRequestAssumption DEF Consistent, IsIdHoldingState, Pending
    <3>2. 1 \in Ids
      BY MaxExecutionIdAssumption DEF Ids
    <3>3. ~Used(state, id, 1)
      BY <3>1 DEF Used
    <3> QED BY <1>1, <3>2, <3>3, FreeIdsAreUnused
  <2> DEFINE q == Enqueue(exeQueue, r, pr)
  <2>3. GrantNext(lockId, owner, q, [state EXCEPT ![r] = "waiting"])
    BY <2>2 DEF GetExecution
  <2>4. q # <<>> /\ Head(q) = r
    <3>1. /\ q \in Seq(Requests) /\ Len(q) = Len(exeQueue) + 1 /\ Len(exeQueue) = 0
          /\ \A x \in Requests : Listed(q, x) <=> (x = r \/ Listed(exeQueue, x))
      BY <1>1, <1>3, <2>1, EnqueueProperties, EmptySeq DEF Consistent
    <3>2. \A x \in Requests : ~Listed(exeQueue, x)
      BY <2>1, EmptySeq DEF Listed
    <3> HIDE DEF q
    <3>3. q # <<>>
      <4>1. Len(q) = 1 /\ Len(<<>>) = 0
        BY <3>1, EmptySeq
      <4> QED BY <4>1
    <3>4. Head(q) \in Requests /\ Listed(q, Head(q))
      <4>1. Head(q) = q[1] /\ q[1] \in Requests
        BY <3>1, <3>3, HeadTailProperties
      <4> QED BY <3>1, <4>1 DEF Listed
    <3> QED BY <3>1, <3>2, <3>3, <3>4
  <2> HIDE DEF q
  <2>5. owner' = r /\ state' = [state EXCEPT ![r] = "granted"]
    <3>1. owner' = r /\ state' = [[state EXCEPT ![r] = "waiting"] EXCEPT ![r] = "granted"]
      BY <1>4, <2>3, <2>4 DEF GrantNext
    <3> QED BY <1>1, <3>1
  <2>6. PendingCalls' = PendingCalls /\ SettledCalls' = SettledCalls
    BY <1>1, <2>5 DEF PendingCalls, SettledCalls, Pending
  <2>7. owner = NoRequest
    BY <1>1, <1>4 DEF Consistent
  <2> QED BY <1>1, <1>2, <2>5, <2>6, <2>7 DEF Contract!Ask, PendingCalls, SettledCalls
<1>5. CASE lockId # NoId
  <2>1. owner' = owner /\ \E st \in {"waiting", "allocating"} : state' = [state EXCEPT ![r] = st]
    BY <1>5 DEF GetExecution, GrantNext
  <2>2. PendingCalls' = PendingCalls \cup {r} /\ SettledCalls' = SettledCalls
    BY <1>1, <2>1 DEF PendingCalls, SettledCalls, Pending
  <2>3. owner # NoRequest
    BY <1>1, <1>5 DEF Consistent
  <2> QED BY <1>1, <1>2, <2>1, <2>2, <2>3 DEF Contract!Ask, PendingCalls, SettledCalls
<1> QED BY <1>4, <1>5

\* A call whose timer fires gives up.
LEMMA ExpireGivesUp ==
    ASSUME IInv, NEW r \in Requests, Expire(r)
    PROVE  Contract!GiveUp(r)
<1> DEFINE st == [state EXCEPT ![r] = "expired"]
           aq == Remove(allocationQueue, r)
<1>1. /\ Pending(r) /\ state \in [Requests -> States]
      /\ AssignAllocationWaiters(lockId, owner, Remove(exeQueue, r), aq, st, FALSE)
      /\ UNCHANGED <<priority, ticket, calls>>
  BY DEF IInv, Consistent, Expire, Pending, history
<1>2. Consistent(lockId, owner, Remove(exeQueue, r), aq, st, id)
  BY ExpireMiddle
<1> HIDE DEF aq
<1>3. aq # <<>> => Head(aq) \in Requests /\ st[Head(aq)] = "allocating"
  BY <1>2, TailProperties DEF Consistent
<1>4. owner' = owner /\ (state' = st \/ (aq # <<>> /\ state' = [st EXCEPT ![Head(aq)] = "waiting"]))
  BY <1>1 DEF AssignAllocationWaiters
<1>5. \A s \in Requests : s # r =>
        /\ state'[s] \in {"allocating", "waiting"} <=> state[s] \in {"allocating", "waiting"}
        /\ state'[s] \in {"expired", "released"} <=> state[s] \in {"expired", "released"}
  BY <1>1, <1>3, <1>4
<1>6. state'[r] = "expired"
  BY <1>1, <1>3, <1>4
<1>7. PendingCalls' = PendingCalls \ {r} /\ SettledCalls' = SettledCalls \cup {r}
  BY <1>5, <1>6 DEF PendingCalls, SettledCalls, Pending
<1> QED BY <1>1, <1>4, <1>7 DEF Contract!GiveUp, PendingCalls, SettledCalls

\* An unlock releases the right, and the first of all pending calls gets it, whether it has
\* an id or waits for the one that the unlock frees.
LEMMA UnLockExecutionReleases ==
    ASSUME IInv, OrderInv, NEW r \in Requests, UnLockExecution(r)
    PROVE  Contract!Release
<1> DEFINE st   == [state EXCEPT ![owner] = "released"]
           free == FreeIds(NoId, exeQueue, st)
           e    == Head(allocationQueue)
           q2   == Enqueue(exeQueue, e, priority)
           st2  == [st EXCEPT ![e] = "waiting"]
<1>1. /\ owner # NoRequest /\ state \in [Requests -> States]
      /\ AssignAllocationWaiters(NoId, NoRequest, exeQueue, allocationQueue, st, TRUE)
      /\ UNCHANGED <<priority, ticket, calls>>
      /\ priority \in [Requests -> Int] /\ ticket \in [Requests -> Nat]
      /\ exeQueue \in Seq(Requests) /\ allocationQueue \in Seq(Requests)
  BY DEF IInv, Consistent, UnLockExecution, history
<1>2. /\ owner \in Requests /\ Consistent(NoId, NoRequest, exeQueue, allocationQueue, st, id)
      /\ ~Used(st, id, id[owner]) /\ id[owner] \in Ids
  BY <1>1, UnLockMiddle
<1>3. free # {}
  BY <1>2, FreeIdsAreUnused
<1>4. \A s \in Requests : st[s] = IF s = owner THEN "released" ELSE state[s]
  BY <1>1, <1>2
<1>5. state[owner] \in {"granted", "overdue"}
  BY <1>1, <1>2 DEF IInv, Consistent
<1>6. \A s \in Requests : Pending(s) <=> Listed(exeQueue, s) \/ Listed(allocationQueue, s)
  BY DEF IInv, Consistent, Pending
<1>7. ASSUME NEW h \in PendingCalls, h = Contract!First(PendingCalls), owner' = h, state'[h] = "granted",
             \A s \in Requests : s # h =>
                /\ state'[s] \in {"allocating", "waiting"} <=> st[s] \in {"allocating", "waiting"}
                /\ state'[s] \in {"expired", "released"} <=> st[s] \in {"expired", "released"}
      PROVE  Contract!Release
  <2>1. PendingCalls' = PendingCalls \ {h} /\ SettledCalls' = SettledCalls \cup {owner}
    BY <1>2, <1>4, <1>5, <1>7 DEF PendingCalls, SettledCalls, Pending
  <2> QED BY <1>1, <1>7, <2>1 DEF Contract!Release, PendingCalls, SettledCalls
<1>8. CASE allocationQueue # <<>>
  <2>1. /\ e \in Requests /\ Listed(allocationQueue, e) /\ st[e] = "allocating"
        /\ Tail(allocationQueue) \in Seq(Requests)
        /\ \A x \in Requests : Listed(Tail(allocationQueue), x) <=> (x # e /\ Listed(allocationQueue, x))
    BY <1>2, <1>8, TailProperties DEF Consistent
  <2>2. /\ q2 \in Seq(Requests) /\ Len(q2) = Len(exeQueue) + 1
        /\ \A x \in Requests : Listed(q2, x) <=> (x = e \/ Listed(exeQueue, x))
    BY <1>1, <2>1, EnqueueProperties
  <2>3. q2 # <<>>
    BY <1>1, <2>2, EmptySeq, LenProperties
  <2>4. /\ Sorted(q2, priority, ticket)
        /\ \A x \in Requests : Listed(Tail(allocationQueue), x) => Before(e, x, priority, ticket)
    <3>1. Ordered(exeQueue, allocationQueue, priority, ticket)
      BY DEF OrderInv
    <3>2. Sorted(q2, priority, ticket)
      BY <1>1, <2>1, <3>1, EnqueueSorted DEF Ordered
    <3> QED BY <1>1, <1>8, <3>1, <3>2, TailSorted DEF Ordered
  <2>5. GrantNext(NoId, NoRequest, q2, st2)
    BY <1>1, <1>3, <1>8 DEF AssignAllocationWaiters
  <2>6. /\ \A s \in Requests : st2[s] = IF s = e THEN "waiting" ELSE st[s]
        /\ st2 \in [Requests -> States]
    BY <1>1, <1>4, <2>1 DEF States
  <2> HIDE DEF q2, st2, e, st
  <2>7. Head(q2) \in PendingCalls /\ Contract!First(PendingCalls) = Head(q2)
    <3>1. \A x \in Requests : Listed(q2, x) => x \in PendingCalls
      BY <1>6, <2>1, <2>2 DEF PendingCalls
    <3>2. \A x \in PendingCalls : Listed(q2, x) \/ \E y \in Requests : Listed(q2, y) /\ Before(y, x, priority, ticket)
      BY <1>6, <2>1, <2>2, <2>4 DEF PendingCalls
    <3>3. PendingCalls \in SUBSET Requests
      BY DEF PendingCalls
    <3> QED BY <1>1, <2>2, <2>3, <2>4, <3>1, <3>2, <3>3, HeadIsFirst
  <2>8. owner' = Head(q2) /\ state' = [st2 EXCEPT ![Head(q2)] = "granted"]
    BY <2>3, <2>5 DEF GrantNext
  <2>9. Head(q2) \in Requests
    BY <2>7 DEF PendingCalls
  <2> QED BY <1>7, <2>1, <2>6, <2>7, <2>8, <2>9
<1>9. CASE allocationQueue = <<>>
  <2>1. GrantNext(NoId, NoRequest, exeQueue, st)
    BY <1>1, <1>9 DEF AssignAllocationWaiters
  <2>2. \A s \in Requests : ~Listed(allocationQueue, s)
    BY <1>9, EmptySeq DEF Listed
  <2> HIDE DEF st
  <2>3. CASE exeQueue = <<>>
    <3>1. owner' = NoRequest /\ state' = st
      BY <2>1, <2>3 DEF GrantNext
    <3>2. PendingCalls = {}
      BY <1>6, <2>2, <2>3, EmptySeq DEF Listed, PendingCalls
    <3>3. PendingCalls' = {} /\ SettledCalls' = SettledCalls \cup {owner}
      BY <1>2, <1>4, <1>5, <3>1, <3>2 DEF PendingCalls, SettledCalls, Pending
    <3> QED BY <1>1, <3>1, <3>2, <3>3 DEF Contract!Release, PendingCalls, SettledCalls
  <2>4. CASE exeQueue # <<>>
    <3>1. Head(exeQueue) \in PendingCalls /\ Contract!First(PendingCalls) = Head(exeQueue)
      <4>1. Sorted(exeQueue, priority, ticket)
        BY DEF OrderInv, Ordered
      <4>2. PendingCalls \in SUBSET Requests /\ \A x \in Requests : Listed(exeQueue, x) <=> x \in PendingCalls
        BY <1>6, <2>2 DEF PendingCalls
      <4> QED BY <1>1, <2>4, <4>1, <4>2, HeadIsFirst
    <3>2. owner' = Head(exeQueue) /\ state' = [st EXCEPT ![Head(exeQueue)] = "granted"]
      BY <2>1, <2>4 DEF GrantNext
    <3>3. Head(exeQueue) \in Requests /\ st \in [Requests -> States]
      BY <1>2, <3>1 DEF PendingCalls, Consistent
    <3> QED BY <1>7, <3>1, <3>2, <3>3
  <2> QED BY <2>3, <2>4
<1> QED BY <1>8, <1>9

\* ExecutionManagementModel implements what IExecutionManagementModel promises: calls get
\* the right by priority and, within a priority, in the order they were made, although the
\* code serves them from two queues and an id that comes back decides who moves on.
THEOREM Refinement == Spec => ImplementsContract
<1>1. Init => Contract!Init
  BY DEF Init, Contract!Init, Pending
<1>2. Init => OrderInv
  <2> SUFFICES ASSUME Init PROVE OrderInv
    OBVIOUS
  <2>1. Len(exeQueue) = 0 /\ Len(allocationQueue) = 0
    BY EmptySeq DEF Init
  <2> QED BY <2>1 DEF Init, OrderInv, Ordered, Sorted, Listed
<1>3. IInv /\ OrderInv /\ [Next]_vars => OrderInv'
  BY OrderStep
<1>4. IInv /\ OrderInv /\ [Next]_vars => [Contract!Next]_(Contract!vars)
  <2> SUFFICES ASSUME IInv, OrderInv, [Next]_vars PROVE [Contract!Next]_(Contract!vars)
    OBVIOUS
  <2>1. ASSUME NEW r \in Requests, NEW p \in Priorities, GetExecution(r, p)
        PROVE  Contract!Next
    BY <2>1, GetExecutionAsks DEF Contract!Next
  <2>2. ASSUME NEW r \in Requests, Expire(r) PROVE Contract!Next
    BY <2>2, ExpireGivesUp DEF Contract!Next
  <2>3. ASSUME NEW r \in Requests, UnLockExecution(r) PROVE Contract!Next
    BY <2>3, UnLockExecutionReleases DEF Contract!Next
  <2>4. ASSUME NEW r \in Requests, OwnerOverdue(r) PROVE UNCHANGED Contract!vars
    <3>1. state' = [state EXCEPT ![r] = "overdue"] /\ state[r] = "granted" /\ state \in [Requests -> States]
          /\ UNCHANGED <<owner, priority, ticket, calls>>
      BY <2>4 DEF OwnerOverdue, history, IInv, Consistent
    <3>2. PendingCalls' = PendingCalls /\ SettledCalls' = SettledCalls
      BY <3>1 DEF PendingCalls, SettledCalls, Pending
    <3> QED BY <3>1, <3>2 DEF Contract!vars, PendingCalls, SettledCalls
  <2>5. CASE UNCHANGED vars
    BY <2>5 DEF vars, history, Contract!vars, Pending
  <2> QED BY <2>1, <2>2, <2>3, <2>4, <2>5 DEF Next
<1> QED BY <1>1, <1>2, <1>3, <1>4, Invariance, PTL DEF Spec, ImplementsContract, Contract!Spec
=============================================================================
