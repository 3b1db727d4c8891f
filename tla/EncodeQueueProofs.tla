-------------------------- MODULE EncodeQueueProofs --------------------------
(***************************************************************************)
(* Theorems about EncodeQueue, for every set of requests, every limit and  *)
(* any number of failures, crashes and restorations: the types; that no    *)
(* request is in the queues twice; that a conversion that has ended well   *)
(* is kept and not made again; and that no request is lost.  The           *)
(* invariants are those of EncodeInvariants.                               *)
(***************************************************************************)
EXTENDS EncodeInvariants, SequenceTheorems, FiniteSetTheorems, WellFoundedInduction, TLAPS

-----------------------------------------------------------------------------
(* Facts about the operators. *)

\* A set of numbers has a least one, which Min finds.
LEMMA MinIsLeast ==
    ASSUME NEW S \in SUBSET Nat, S # {}
    PROVE  Min(S) \in S /\ \A x \in S : Min(S) <= x
<1>1. PICK m \in S : \A x \in S : ~(<<x, m>> \in OpToRel(<, Nat))
  BY NatLessThanWellFounded, WFMin
<1>2. \A x \in S : m <= x
  <2> SUFFICES ASSUME NEW x \in S, ~(m <= x) PROVE FALSE
    OBVIOUS
  <2>1. x < m /\ x \in Nat /\ m \in Nat
    OBVIOUS
  <2>2. <<x, m>> \in OpToRel(<, Nat)
    BY <2>1 DEF OpToRel
  <2> QED BY <1>1, <2>2
<1> QED BY <1>2 DEF Min

\* RemoveAt closes the gap.
LEMMA RemoveAtProperties ==
    ASSUME NEW S, NEW s \in Seq(S), NEW i \in DOMAIN s
    PROVE  /\ RemoveAt(s, i) \in Seq(S)
           /\ Len(RemoveAt(s, i)) = Len(s) - 1 /\ DOMAIN RemoveAt(s, i) = 1 .. Len(s) - 1
           /\ \A k \in 1 .. Len(s) - 1 : /\ Shift(i, k) \in DOMAIN s \ {i}
                                         /\ RemoveAt(s, i)[k] = s[Shift(i, k)]
           /\ \A k, l \in 1 .. Len(s) - 1 : Shift(i, k) = Shift(i, l) => k = l
<1>1. Len(s) \in Nat /\ DOMAIN s = 1 .. Len(s) /\ i \in 1 .. Len(s)
  BY LenProperties
<1> DEFINE a == SubSeq(s, 1, i - 1)
           b == SubSeq(s, i + 1, Len(s))
<1>2. a \in Seq(S) /\ Len(a) = i - 1 /\ \A k \in 1 .. i - 1 : a[k] = s[k]
  BY <1>1, SubSeqProperties
<1>9. b \in Seq(S) /\ Len(b) = Len(s) - i /\ \A k \in 1 .. Len(s) - i : b[k] = s[i + k]
  <2>1. i + 1 \in 1 .. Len(s) + 1 /\ Len(s) \in i .. Len(s)
    BY <1>1
  <2> QED BY SMTT(30), <1>1, <2>1, SubSeqProperties
<1>5. RemoveAt(s, i) = a \o b
  BY DEF RemoveAt
<1> HIDE DEF a, b
<1>3. a \o b \in Seq(S) /\ Len(a \o b) = Len(s) - 1
  <2>1. a \o b \in Seq(S) /\ Len(a \o b) = Len(a) + Len(b)
    BY ONLY <1>2, <1>9, ConcatProperties
  <2>2. (i - 1) + (Len(s) - i) = Len(s) - 1
    BY <1>1
  <2> QED BY <1>2, <1>9, <2>1, <2>2
<1>4. \A k \in 1 .. Len(s) - 1 : (a \o b)[k] = IF k <= i - 1 THEN a[k] ELSE b[k - (i - 1)]
  BY <1>1, <1>2, <1>9, ConcatProperties
<1>6. \A k \in 1 .. Len(s) - 1 : Shift(i, k) \in DOMAIN s \ {i} /\ (a \o b)[k] = s[Shift(i, k)]
  <2> SUFFICES ASSUME NEW k \in 1 .. Len(s) - 1
               PROVE  Shift(i, k) \in DOMAIN s \ {i} /\ (a \o b)[k] = s[Shift(i, k)]
    OBVIOUS
  <2>1. CASE k < i
    BY <1>4, <1>1, <2>1, <1>2 DEF Shift
  <2>2. CASE ~(k < i)
    <3>1. k - (i - 1) \in 1 .. Len(s) - i /\ i + (k - (i - 1)) = k + 1
      BY <1>1, <2>2
    <3>2. (a \o b)[k] = b[k - (i - 1)]
      <4>1. (a \o b)[k] = IF k <= i - 1 THEN a[k] ELSE b[k - (i - 1)]
        BY <1>4
      <4>2. ~(k <= i - 1)
        BY <1>1, <2>2
      <4> QED BY <4>1, <4>2
    <3>3. b[k - (i - 1)] = s[k + 1]
      BY <1>9, <3>1
    <3> QED BY <1>1, <2>2, <3>2, <3>3 DEF Shift
  <2> QED BY <2>1, <2>2
<1>7. \A k, l \in 1 .. Len(s) - 1 : Shift(i, k) = Shift(i, l) => k = l
  BY <1>1 DEF Shift
<1>8. DOMAIN (a \o b) = 1 .. Len(s) - 1
  BY <1>3, LenProperties
<1> QED BY <1>3, <1>5, <1>6, <1>7, <1>8

\* The counts of the queues are numbers, and the oldest waiting request is one that waits.
LEMMA Counts ==
    ASSUME TypeOK
    PROVE  /\ Cardinality(Waiting) \in Nat /\ FreeSlots \in Nat
           /\ Min({FreeSlots, Cardinality(Waiting)}) \in Nat
           /\ Waiting # {} => Min(Waiting) \in Waiting
<1>1. Len(encoders) \in Nat /\ DOMAIN encoders = 1 .. Len(encoders)
  BY LenProperties DEF TypeOK
<1>2. Waiting \subseteq 1 .. Len(encoders) /\ Running \subseteq 1 .. Len(encoders)
  BY <1>1 DEF Waiting, Running
<1>3. IsFiniteSet(1 .. Len(encoders))
  BY <1>1, FS_Interval
<1>4. Cardinality(Waiting) \in Nat /\ Cardinality(Running) \in Nat
  BY <1>2, <1>3, FS_Subset, FS_CardinalityType
<1>5. FreeSlots \in Nat
  BY <1>4, EncodeAssumption DEF FreeSlots
<1>6. Min({FreeSlots, Cardinality(Waiting)}) \in Nat
  BY <1>4, <1>5, MinIsLeast
<1>7. Waiting # {} => Min(Waiting) \in Waiting
  BY <1>2, MinIsLeast
<1> QED BY <1>4, <1>5, <1>6, <1>7

-----------------------------------------------------------------------------
(* Type correctness. *)

\* The encoders after one of them has changed.
LEMMA EncoderChanges ==
    ASSUME NEW s \in Seq(EncoderStates), NEW i \in DOMAIN s, NEW e \in EncoderStates
    PROVE  /\ [s EXCEPT ![i] = e] \in Seq(EncoderStates) /\ DOMAIN [s EXCEPT ![i] = e] = DOMAIN s
           /\ \A k \in DOMAIN s : [s EXCEPT ![i] = e][k] = IF k = i THEN e ELSE s[k]
  BY LenProperties, ExceptSeq

\* The outputs after one of them has changed.
LEMMA OutputChanges ==
    ASSUME NEW s \in Seq(Outputs), NEW i, NEW o \in Outputs
    PROVE  /\ [s EXCEPT ![i] = o] \in Seq(Outputs) /\ DOMAIN [s EXCEPT ![i] = o] = DOMAIN s
           /\ \A k \in DOMAIN s : [s EXCEPT ![i] = o][k] = IF k = i THEN o ELSE s[k]
<1>1. DOMAIN s = 1 .. Len(s) /\ Len(s) \in Nat
  BY LenProperties
<1>2. CASE i \in DOMAIN s
  BY <1>1, <1>2, ExceptSeq
<1>3. CASE i \notin DOMAIN s
  <2>1. [s EXCEPT ![i] = o] = s
    BY <1>1, <1>3
  <2> QED BY <2>1, <1>3
<1> QED BY <1>2, <1>3

\* An encoder is removed, and perhaps comes back behind the others.
LEMMA EncodersMove ==
    ASSUME NEW s \in Seq(EncoderStates), NEW i \in DOMAIN s, NEW e \in EncoderStates
    PROVE  /\ Append(RemoveAt(s, i), e) \in Seq(EncoderStates)
           /\ DOMAIN Append(RemoveAt(s, i), e) = DOMAIN s
           /\ \A k \in DOMAIN s :
                Append(RemoveAt(s, i), e)[k] = IF k = Len(s) THEN e ELSE s[Shift(i, k)]
<1>1. Len(s) \in Nat /\ DOMAIN s = 1 .. Len(s)
  BY LenProperties
<1> DEFINE r == RemoveAt(s, i)
<1>2. r \in Seq(EncoderStates) /\ Len(r) = Len(s) - 1 /\ \A k \in 1 .. Len(s) - 1 : r[k] = s[Shift(i, k)]
  BY RemoveAtProperties
<1> HIDE DEF r
<1>3. /\ Append(r, e) \in Seq(EncoderStates) /\ Len(Append(r, e)) = Len(r) + 1
      /\ \A k \in 1 .. Len(r) : Append(r, e)[k] = r[k]
      /\ Append(r, e)[Len(r) + 1] = e
  BY <1>2, AppendProperties
<1>4. Len(Append(r, e)) = Len(s) /\ DOMAIN Append(r, e) = 1 .. Len(s)
  <2>1. Len(s) - 1 + 1 = Len(s)
    BY <1>1
  <2>2. Len(Append(r, e)) = Len(s)
    BY <1>2, <1>3, <2>1
  <2> QED BY <1>3, <2>2, LenProperties
<1>5. \A k \in 1 .. Len(s) : Append(r, e)[k] = IF k = Len(s) THEN e ELSE s[Shift(i, k)]
  <2> SUFFICES ASSUME NEW k \in 1 .. Len(s)
               PROVE  Append(r, e)[k] = IF k = Len(s) THEN e ELSE s[Shift(i, k)]
    OBVIOUS
  <2>1. CASE k = Len(s)
    BY <1>1, <1>2, <1>3, <2>1
  <2>2. CASE k # Len(s)
    <3>1. k \in 1 .. Len(s) - 1
      <4>1. \A n \in Nat : k \in 1 .. n /\ k # n => k \in 1 .. n - 1
        OBVIOUS
      <4> QED BY <1>1, <2>2, <4>1
    <3> QED BY <1>2, <1>3, <2>2, <3>1
  <2> QED BY <2>1, <2>2
<1> QED BY <1>1, <1>3, <1>4, <1>5 DEF r

\* Without one of them the encoders are the others, in their order.
LEMMA EncodersShrink ==
    ASSUME NEW s \in Seq(EncoderStates), NEW i \in DOMAIN s
    PROVE  /\ RemoveAt(s, i) \in Seq(EncoderStates)
           /\ DOMAIN RemoveAt(s, i) = 1 .. Len(s) - 1
           /\ \A k \in 1 .. Len(s) - 1 : /\ Shift(i, k) \in DOMAIN s \ {i}
                                         /\ RemoveAt(s, i)[k] = s[Shift(i, k)]
           /\ \A k, l \in 1 .. Len(s) - 1 : Shift(i, k) = Shift(i, l) => k = l
<1> DEFINE r == RemoveAt(s, i)
<1>1. r \in Seq(EncoderStates)
  BY RemoveAtProperties
<1>2. DOMAIN r = 1 .. Len(s) - 1
  BY RemoveAtProperties
<1>3. \A k \in 1 .. Len(s) - 1 : Shift(i, k) \in DOMAIN s \ {i} /\ r[k] = s[Shift(i, k)]
  BY RemoveAtProperties
<1>4. \A k, l \in 1 .. Len(s) - 1 : Shift(i, k) = Shift(i, l) => k = l
  BY RemoveAtProperties
<1> QED BY <1>1, <1>2, <1>3, <1>4

LEMMA InitTypes == Init => TypeOK
<1> SUFFICES ASSUME Init PROVE TypeOK
  OBVIOUS
<1>1. faults \in [{"fault", "list", "crash", "suspend", "starts"} -> Nat]
  BY DEF Init
<1>2. admit \in [Requests -> Admissions] /\ job \in [Requests -> {"new", "open", "over"}]
  BY DEF Init, Idle, Admissions
<1>3. /\ <<>> \in Seq(Records) /\ <<>> \in Seq(Operations) /\ <<>> \in Seq([id : Ids, req : FromRecording])
      /\ <<>> \in Seq(EncoderStates) /\ <<>> \in Seq(Outputs)
  OBVIOUS
<1>4. /\ rows = <<>> /\ tokens = {} /\ toStore = <<>> /\ toService = <<>> /\ todo = <<>> /\ listed = {}
      /\ encoders = <<>> /\ files = <<>>
  BY DEF Init
<1>5. up \in BOOLEAN /\ suspended \in BOOLEAN /\ timer \in BOOLEAN /\ sources \subseteq Sources
  BY Zenon DEF Init
<1>6. restoring \in {"off", "listing", "restoring", "retry"} /\ checks \in Nat /\ leases \in Int
  BY DEF Init
<1> QED BY <1>1, <1>2, <1>3, <1>4, <1>5, <1>6 DEF TypeOK

\* The parts of the operations and of the encoders.
LEMMA OperationParts ==
    ASSUME TypeOK, NEW k \in DOMAIN toStore
    PROVE  /\ k \in Nat \ {0} /\ k <= Len(toStore) /\ toStore[k] \in Operations
           /\ toStore[k].req \in Requests /\ toStore[k].id \in Nat /\ toStore[k].out \in Nat
<1>1. toStore \in Seq(Operations) /\ Len(toStore) \in Nat /\ DOMAIN toStore = 1 .. Len(toStore)
  BY LenProperties DEF TypeOK
<1>2. k \in Nat \ {0} /\ k <= Len(toStore) /\ toStore[k] \in Operations
  BY <1>1
<1> QED BY <1>2 DEF Operations

LEMMA EncoderParts ==
    ASSUME TypeOK, NEW i \in DOMAIN encoders
    PROVE  /\ encoders[i] \in EncoderStates
           /\ encoders[i].req \in Requests /\ encoders[i].id \in Nat /\ encoders[i].file \in Nat
<1>1. encoders \in Seq(EncoderStates) /\ Len(encoders) \in Nat /\ DOMAIN encoders = 1 .. Len(encoders)
  BY LenProperties DEF TypeOK
<1>2. encoders[i] \in EncoderStates
  BY <1>1
<1> QED BY <1>2 DEF EncoderStates

\* An operation is sent.
LEMMA SendTypes ==
    ASSUME TypeOK, NEW op \in Operations, Send(op)
    PROVE  /\ toStore' \in Seq(Operations) /\ Len(toStore') = Len(toStore) + 1
           /\ DOMAIN toStore' = DOMAIN toStore \cup {Len(toStore) + 1}
           /\ \A k \in DOMAIN toStore : toStore'[k] = toStore[k]
           /\ toStore'[Len(toStore) + 1] = op
<1>1. toStore \in Seq(Operations) /\ Len(toStore) \in Nat /\ DOMAIN toStore = 1 .. Len(toStore)
  BY LenProperties DEF TypeOK
<1>2. toStore' = Append(toStore, op)
  BY DEF Send
<1>3. /\ toStore' \in Seq(Operations) /\ Len(toStore') = Len(toStore) + 1
      /\ \A k \in 1 .. Len(toStore) : toStore'[k] = toStore[k]
      /\ toStore'[Len(toStore) + 1] = op
  BY <1>1, <1>2, AppendProperties
<1>4. DOMAIN toStore' = 1 .. Len(toStore) + 1
  BY <1>1, <1>3, LenProperties
<1> QED BY <1>1, <1>3, <1>4

\* The oldest operation leaves the queue.
LEMMA TailTypes ==
    ASSUME TypeOK, toStore # <<>>
    PROVE  /\ Tail(toStore) \in Seq(Operations) /\ Head(toStore) \in Operations
           /\ Head(toStore) = toStore[1] /\ Len(toStore) \in Nat \ {0}
           /\ DOMAIN toStore = 1 .. Len(toStore) /\ DOMAIN Tail(toStore) = 1 .. Len(toStore) - 1
           /\ \A k \in 1 .. Len(toStore) - 1 : Tail(toStore)[k] = toStore[k + 1]
  BY HeadTailProperties, LenProperties DEF TypeOK

-----------------------------------------------------------------------------
(* The encoders.  Whatever becomes of them, none is put into the queues     *)
(* that was not there, but by the three steps that append one.              *)

\* Being queued is a matter of the step.
LEMMA QueuedByStep ==
    /\ \A k : k \in Queued <=> k \in DOMAIN encoders /\ encoders[k].step \in QueuedSteps
    /\ \A k : k \in Queued' <=> k \in DOMAIN encoders' /\ encoders'[k].step \in QueuedSteps
  BY DEF Queued, Waiting, Running, QueuedSteps

LEMMA EncodersUnchanged ==
    ASSUME TypeOK, UNCHANGED encoders
    PROVE  EncodersKept
<1>1. Queued' = Queued /\ (OneJobPerRequest => OneJobPerRequest')
  BY DEF Queued, Waiting, Running, OneJobPerRequest
<1> QED BY <1>1 DEF EncodersKept, TypeOK

\* A step of one encoder.
LEMMA EncoderStepKeeps ==
    ASSUME TypeOK, NEW i \in DOMAIN encoders, NEW e \in EncoderStates,
           encoders' = [encoders EXCEPT ![i] = e],
           e.id = encoders[i].id, e.req = encoders[i].req,
           e.step \in QueuedSteps => encoders[i].step \in QueuedSteps
    PROVE  EncodersKept /\ DOMAIN encoders' = DOMAIN encoders
<1>1. encoders \in Seq(EncoderStates)
  BY DEF TypeOK
<1>2. /\ encoders' \in Seq(EncoderStates) /\ DOMAIN encoders' = DOMAIN encoders
      /\ \A k \in DOMAIN encoders : encoders'[k] = IF k = i THEN e ELSE encoders[k]
  BY <1>1, EncoderChanges
<1>3. \A k \in DOMAIN encoders' : encoders[k].req = encoders'[k].req /\ encoders[k].id = encoders'[k].id
  BY <1>2
<1>4. \A k \in Queued' : k \in Queued
  BY <1>2, QueuedByStep
<1>5. OneJobPerRequest => OneJobPerRequest'
  BY <1>2, <1>3, QueuedByStep, <1>4 DEF OneJobPerRequest
<1>6. \A k \in Queued' : encoders[k].req = encoders'[k].req
  BY <1>2, <1>3, QueuedByStep
<1> QED BY <1>2, <1>3, <1>4, <1>5, <1>6 DEF EncodersKept

\* An encoder is gone.
LEMMA EncoderGoneKeeps ==
    ASSUME TypeOK, NEW i \in DOMAIN encoders, WithoutEncoder(i)
    PROVE  EncodersKept
<1>1. encoders \in Seq(EncoderStates) /\ DOMAIN encoders = 1 .. Len(encoders)
  BY LenProperties DEF TypeOK
<1>2. /\ encoders' \in Seq(EncoderStates) /\ DOMAIN encoders' = 1 .. Len(encoders) - 1
      /\ \A k \in DOMAIN encoders' : Shift(i, k) \in DOMAIN encoders /\ encoders'[k] = encoders[Shift(i, k)]
      /\ \A k, l \in DOMAIN encoders' : Shift(i, k) = Shift(i, l) => k = l
  <2>1. encoders' = RemoveAt(encoders, i)
    BY DEF WithoutEncoder
  <2>2. /\ RemoveAt(encoders, i) \in Seq(EncoderStates)
        /\ DOMAIN RemoveAt(encoders, i) = 1 .. Len(encoders) - 1
        /\ \A k \in 1 .. Len(encoders) - 1 : /\ Shift(i, k) \in DOMAIN encoders \ {i}
                                             /\ RemoveAt(encoders, i)[k] = encoders[Shift(i, k)]
        /\ \A k, l \in 1 .. Len(encoders) - 1 : Shift(i, k) = Shift(i, l) => k = l
    BY <1>1, EncodersShrink
  <2> QED BY <2>1, <2>2
<1>3. \A k \in Queued' : k \in DOMAIN encoders' /\ Shift(i, k) \in Queued /\ encoders'[k] = encoders[Shift(i, k)]
  BY <1>2, QueuedByStep
<1>4. OneJobPerRequest => OneJobPerRequest'
  BY <1>2, <1>3 DEF OneJobPerRequest
<1>5. \A k \in DOMAIN encoders' : \E l \in DOMAIN encoders :
          encoders[l].req = encoders'[k].req /\ encoders[l].id = encoders'[k].id
  BY <1>2
<1>6. \A k \in Queued' : \E l \in Queued : encoders[l].req = encoders'[k].req
  BY <1>3
<1> QED BY <1>2, <1>4, <1>5, <1>6 DEF EncodersKept

\* A queued encoder moves behind the others.
LEMMA EncoderMoveKeeps ==
    ASSUME TypeOK, NEW i \in Queued, NEW e \in EncoderStates,
           encoders' = Append(RemoveAt(encoders, i), e),
           e.id = encoders[i].id, e.req = encoders[i].req
    PROVE  EncodersKept
<1>1. encoders \in Seq(EncoderStates) /\ DOMAIN encoders = 1 .. Len(encoders) /\ Len(encoders) \in Nat
  BY LenProperties DEF TypeOK
<1>2. i \in DOMAIN encoders
  BY QueuedByStep
<1>3. /\ encoders' \in Seq(EncoderStates) /\ DOMAIN encoders' = DOMAIN encoders
      /\ \A k \in DOMAIN encoders : encoders'[k] = IF k = Len(encoders) THEN e ELSE encoders[Shift(i, k)]
  BY <1>1, <1>2, EncodersMove
<1> DEFINE Old(k) == IF k = Len(encoders) THEN i ELSE Shift(i, k)
<1>4. \A k \in DOMAIN encoders : Old(k) \in DOMAIN encoders
  BY <1>1, <1>2 DEF Shift
<1>5. \A k, l \in DOMAIN encoders : Old(k) = Old(l) => k = l
  BY <1>1, <1>2 DEF Shift
<1>6. \A k \in DOMAIN encoders : encoders[Old(k)].req = encoders'[k].req /\ encoders[Old(k)].id = encoders'[k].id
  BY <1>3
<1>7. \A k \in Queued' : k \in DOMAIN encoders /\ Old(k) \in Queued
  BY <1>3, QueuedByStep, <1>4
<1> HIDE DEF Old
<1>8. OneJobPerRequest => OneJobPerRequest'
  <2> SUFFICES ASSUME OneJobPerRequest, NEW k \in Queued', NEW l \in Queued', encoders'[k].req = encoders'[l].req
               PROVE  k = l
    BY DEF OneJobPerRequest
  <2>1. encoders[Old(k)].req = encoders[Old(l)].req
    BY <1>6, <1>7
  <2>2. Old(k) = Old(l)
    BY <1>7, <2>1 DEF OneJobPerRequest
  <2> QED BY <1>5, <1>7, <2>2
<1>9. \A k \in DOMAIN encoders' : \E l \in DOMAIN encoders :
          encoders[l].req = encoders'[k].req /\ encoders[l].id = encoders'[k].id
  BY <1>3, <1>4, <1>6
<1>10. \A k \in Queued' : \E l \in Queued : encoders[l].req = encoders'[k].req
  BY <1>6, <1>7
<1> QED BY <1>3, <1>8, <1>9, <1>10 DEF EncodersKept

\* An encoder is appended for a request that has none.
LEMMA EncoderAppended ==
    ASSUME TypeOK, NEW r \in Requests, NEW id \in Nat, encoders' = Append(encoders, NewEncoder(id, r))
    PROVE  /\ encoders' \in Seq(EncoderStates)
           /\ \A k \in DOMAIN encoders' :
                 \/ k \in DOMAIN encoders /\ encoders'[k] = encoders[k]
                 \/ encoders'[k].req = r /\ encoders'[k].id = id
           /\ \A k \in Queued' : (k \in Queued /\ encoders'[k] = encoders[k]) \/ encoders'[k].req = r
           /\ OneJobPerRequest /\ (\A k \in Queued : encoders[k].req # r) => OneJobPerRequest'
<1>1. encoders \in Seq(EncoderStates) /\ DOMAIN encoders = 1 .. Len(encoders) /\ Len(encoders) \in Nat
  BY LenProperties DEF TypeOK
<1>2. NewEncoder(id, r) \in EncoderStates /\ NewEncoder(id, r).req = r /\ NewEncoder(id, r).id = id
  BY DEF NewEncoder, EncoderStates, QueuedSteps, NoPath
<1>3. /\ encoders' \in Seq(EncoderStates) /\ Len(encoders') = Len(encoders) + 1
      /\ \A k \in 1 .. Len(encoders) : encoders'[k] = encoders[k]
      /\ encoders'[Len(encoders) + 1] = NewEncoder(id, r)
  BY <1>1, <1>2, AppendProperties
<1>4. DOMAIN encoders' = 1 .. Len(encoders) + 1
  BY <1>3, LenProperties
<1>5. \A k \in DOMAIN encoders' : k \in DOMAIN encoders \/ k = Len(encoders) + 1
  BY <1>1, <1>4
<1>6. \A k \in DOMAIN encoders' :
         \/ k \in DOMAIN encoders /\ encoders'[k] = encoders[k]
         \/ k = Len(encoders) + 1 /\ encoders'[k].req = r /\ encoders'[k].id = id
  BY <1>1, <1>2, <1>3, <1>5
<1>7. \A k \in Queued' : \/ k \in Queued /\ encoders'[k] = encoders[k]
                         \/ k = Len(encoders) + 1 /\ encoders'[k].req = r
  BY <1>6, QueuedByStep
<1>8. ASSUME OneJobPerRequest, \A k \in Queued : encoders[k].req # r PROVE OneJobPerRequest'
  <2> SUFFICES ASSUME NEW k \in Queued', NEW l \in Queued', encoders'[k].req = encoders'[l].req
               PROVE  k = l
    BY DEF OneJobPerRequest
  <2>1. CASE k \in Queued /\ encoders'[k] = encoders[k] /\ l \in Queued /\ encoders'[l] = encoders[l]
    BY <1>8, <2>1 DEF OneJobPerRequest
  <2>2. CASE k = Len(encoders) + 1 /\ l = Len(encoders) + 1
    BY <2>2
  <2>3. CASE k \in Queued /\ encoders'[k] = encoders[k] /\ encoders'[l].req = r
    BY <1>8, <2>3
  <2>4. CASE l \in Queued /\ encoders'[l] = encoders[l] /\ encoders'[k].req = r
    BY <1>8, <2>4
  <2> QED BY <1>7, <2>1, <2>2, <2>3, <2>4
<1> QED BY <1>3, <1>6, <1>7, <1>8

-----------------------------------------------------------------------------
(* Names, admissions and `add` operations over a step. *)

LEMMA OwnNames ==
    /\ \A k \in DOMAIN rows : Named(rows[k].req, rows[k].id)
    /\ \A k \in DOMAIN toService : Named(toService[k].req, toService[k].id)
    /\ \A k \in DOMAIN todo : Named(todo[k].req, todo[k].id)
    /\ \A k \in DOMAIN encoders : Named(encoders[k].req, encoders[k].id)
    /\ \A r \in FromRecording : admit[r].step # "none" => Named(r, admit[r].id)
  BY DEF Named

\* The names of the parts that a step leaves alone.
LEMMA UnchangedNames ==
    /\ UNCHANGED rows => \A k \in DOMAIN rows' : Named(rows'[k].req, rows'[k].id)
    /\ UNCHANGED toService => \A k \in DOMAIN toService' : Named(toService'[k].req, toService'[k].id)
    /\ UNCHANGED todo => \A k \in DOMAIN todo' : Named(todo'[k].req, todo'[k].id)
    /\ EncodersKept => \A k \in DOMAIN encoders' : Named(encoders'[k].req, encoders'[k].id)
    /\ UNCHANGED admit => \A r \in FromRecording : admit'[r].step # "none" => Named(r, admit'[r].id)
  BY OwnNames DEF EncodersKept

LEMMA NamesBefore ==
    ASSUME NamesKept, NEW r, NEW a, Named(r, a)'
    PROVE  Named(r, a)
  BY DEF NamesKept, Named

LEMMA StepKeepsNames ==
    ASSUME QueueInv, NamesKept, JobsKept
    PROVE  OneName'
  BY NamesBefore DEF QueueInv, OneName, JobsKept

LEMMA StepKeepsQueues ==
    ASSUME TypeOK, TypeOK', QueueInv, NamesKept, JobsKept, AdmissionsOK(admit', job'),
           NEW d \in {0, 1}, AddsKept(d), QueuesKept
    PROVE  QueueInv' /\ NothingNew
<1>1. OneName'
  BY StepKeepsNames
<1>2. OneAdd'
  <2>1. (\A i \in DOMAIN toStore : toStore[i].op = "add" =>
          /\ toStore[i].req \notin FromRecording
          /\ \A a \in Nat : ~Named(toStore[i].req, a)
          /\ IF toStore[i].by = "admit" THEN admit[toStore[i].req].step = "adding"
             ELSE job[toStore[i].req] = "over")'
    BY NamesBefore DEF AddsKept, QueueInv, OneAdd, Named
  <2>2. \A i, j \in DOMAIN toStore' :
          toStore'[i].op = "add" /\ toStore'[j].op = "add" /\ toStore'[i].req = toStore'[j].req => i = j
    <3> SUFFICES ASSUME NEW i \in DOMAIN toStore', NEW j \in DOMAIN toStore', toStore'[i].op = "add",
                        toStore'[j].op = "add", toStore'[i].req = toStore'[j].req
                 PROVE  i = j
      OBVIOUS
    <3>1. i + d = j + d
      BY DEF AddsKept, QueueInv, OneAdd
    <3>2. toStore' \in Seq(Operations)
      BY DEF TypeOK
    <3>3. i \in Nat /\ j \in Nat
      BY <3>2, LenProperties
    <3> QED BY <3>1, <3>3
  <2>3. (\A r \in Requests : admit[r].step # "none" =>
            IF r \in FromRecording THEN admit[r].step # "adding"
            ELSE admit[r].step # "rejecting" /\ job[r] = "new")'
    BY DEF AdmissionsOK
  <2> QED BY <2>1, <2>2, <2>3 DEF OneAdd
<1>3. AdmittedIsNotQueued' /\ OneJobPerRequest'
  BY DEF QueuesKept, AdmittedIsNotQueued
<1>4. \A i \in DOMAIN toStore' : toStore'[i].op = "add" => toStore'[i].req \in Coming
  BY OperationParts DEF AddsKept, Coming
<1> QED BY <1>1, <1>2, <1>3, <1>4 DEF QueueInv, NothingNew

\* The queues are kept when no encoder comes into them and no admission begins.
LEMMA QueuesKeptBy ==
    ASSUME QueueInv, EncodersKept,
           \A r \in FromRecording : admit'[r].step \in {"lock", "lease"} => admit[r].step \in {"lock", "lease"}
    PROVE  QueuesKept
  BY DEF QueueInv, EncodersKept, QueuesKept, AdmittedIsNotQueued

\* The `add` operations when no operation comes or goes.
LEMMA AddsUnchanged ==
    ASSUME TypeOK, QueueInv, UNCHANGED toStore, JobsKept,
           \A r \in Requests : admit[r].step = "adding" => admit'[r].step = "adding"
    PROVE  AddsKept(0)
<1>1. toStore \in Seq(Operations)
  BY DEF TypeOK
<1>2. \A k \in DOMAIN toStore : k \in Nat /\ k + 0 = k
  BY <1>1, LenProperties
<1>3. \A k \in DOMAIN toStore : toStore[k].req \in Requests
  BY OperationParts
<1>4. \A k \in DOMAIN toStore : toStore[k].op = "add" =>
         IF toStore[k].by = "admit" THEN admit[toStore[k].req].step = "adding"
         ELSE job[toStore[k].req] = "over"
  BY DEF QueueInv, OneAdd
<1>5. \A k \in DOMAIN toStore : toStore[k].op = "add" =>
         IF toStore[k].by = "admit" THEN admit'[toStore[k].req].step = "adding"
         ELSE job'[toStore[k].req] = "over"
  BY <1>3, <1>4 DEF JobsKept
<1> QED BY <1>2, <1>5 DEF AddsKept

\* An operation is sent that is no `add`.
LEMMA AddsAfterSend ==
    ASSUME TypeOK, QueueInv, NEW op \in Operations, op.op # "add", Send(op), JobsKept,
           \A r \in Requests : admit[r].step = "adding" => admit'[r].step = "adding"
    PROVE  AddsKept(0) /\ toStore' \in Seq(Operations)
<1>1. /\ toStore' \in Seq(Operations)
      /\ \A k \in DOMAIN toStore' : (k \in DOMAIN toStore /\ toStore'[k] = toStore[k]) \/ toStore'[k] = op
  BY SendTypes
<1>4. toStore \in Seq(Operations)
  BY DEF TypeOK
<1>5. \A k \in DOMAIN toStore : k \in Nat /\ k + 0 = k
  BY <1>4, LenProperties
<1>2. \A k \in DOMAIN toStore : toStore[k].req \in Requests
  BY OperationParts
<1>3. \A k \in DOMAIN toStore' : toStore'[k].op = "add" =>
         /\ k \in DOMAIN toStore /\ toStore'[k] = toStore[k] /\ k + 0 = k
         /\ toStore[k].req \in Requests
         /\ IF toStore[k].by = "admit" THEN admit[toStore[k].req].step = "adding"
            ELSE job[toStore[k].req] = "over"
  BY <1>1, <1>2, <1>5 DEF QueueInv, OneAdd
<1>6. \A k \in DOMAIN toStore' : toStore'[k].op = "add" =>
         /\ k \in DOMAIN toStore /\ toStore'[k] = toStore[k] /\ k + 0 = k
         /\ IF toStore'[k].by = "admit" THEN admit'[toStore'[k].req].step = "adding"
            ELSE job'[toStore'[k].req] = "over"
  BY <1>3 DEF JobsKept
<1>7. AddsKept(0)
  BY <1>6 DEF AddsKept
<1> QED BY <1>1, <1>7

-----------------------------------------------------------------------------
(* The types of what several actions change. *)

LEMMA DisturbTypes ==
    ASSUME TypeOK, NEW kind \in Kinds, Disturb(kind)
    PROVE  faults' \in [Kinds -> Nat]
<1>1. faults \in [Kinds -> Nat]
  BY DEF TypeOK, Kinds
<1>2. faults[kind] + 1 \in Nat /\ faults' = [faults EXCEPT ![kind] = faults[kind] + 1]
  BY <1>1 DEF Disturb
<1> QED BY <1>1, <1>2

LEMMA FaultTypes ==
    ASSUME TypeOK, Fault
    PROVE  faults' \in [Kinds -> Nat]
  BY DisturbTypes DEF Fault, Kinds

LEMMA EmitTypes ==
    ASSUME TypeOK, NEW n \in Nat, NEW w \in Nat, Emit(n, w)
    PROVE  checks' \in Nat /\ timer' \in BOOLEAN /\ suspended' \in BOOLEAN
<1>1. checks \in Nat /\ timer \in BOOLEAN /\ suspended \in BOOLEAN
  BY DEF TypeOK
<1>2. checks' \in Nat
  BY <1>1 DEF Emit
<1>3. timer' \in BOOLEAN /\ suspended' \in BOOLEAN
  <2>1. timer' = (timer \/ (suspended /\ n > 0 /\ w > 0)) /\ suspended' = suspended
    BY DEF Emit
  <2> QED BY Zenon, <1>1, <2>1
<1> QED BY <1>2, <1>3

LEMMA OutputStates ==
    ASSUME TypeOK, NEW x, NEW st \in {"none", "partial", "whole"}
    PROVE  [files EXCEPT ![x].state = st] \in Seq(Outputs)
<1>1. files \in Seq(Outputs) /\ DOMAIN files = 1 .. Len(files)
  BY LenProperties DEF TypeOK
<1>2. CASE x \in DOMAIN files
  <2>1. files[x] \in Outputs
    BY <1>1, <1>2
  <2>2. [files[x] EXCEPT !.state = st] \in Outputs
    BY <2>1 DEF Outputs
  <2> QED BY <1>1, <2>2, OutputChanges
<1>3. CASE x \notin DOMAIN files
  <2>1. [files EXCEPT ![x].state = st] = files
    BY <1>1, <1>3
  <2> QED BY <1>1, <2>1
<1> QED BY <1>2, <1>3

LEMMA OutputRegistered ==
    ASSUME TypeOK, NEW x
    PROVE  [files EXCEPT ![x].registered = TRUE] \in Seq(Outputs)
<1>1. files \in Seq(Outputs) /\ DOMAIN files = 1 .. Len(files)
  BY LenProperties DEF TypeOK
<1>2. CASE x \in DOMAIN files
  <2>1. files[x] \in Outputs
    BY <1>1, <1>2
  <2>2. [files[x] EXCEPT !.registered = TRUE] \in Outputs
    BY <2>1 DEF Outputs
  <2> QED BY <1>1, <2>2, OutputChanges
<1>3. CASE x \notin DOMAIN files
  <2>1. [files EXCEPT ![x].registered = TRUE] = files
    BY <1>1, <1>3
  <2> QED BY <1>1, <2>1
<1> QED BY <1>2, <1>3

LEMMA EncoderMoves ==
    ASSUME TypeOK, QueueInv, TypeOK', NEW i \in DOMAIN encoders, NEW e, EncoderSteps(i, e),
           UNCHANGED <<rows, toService, todo, admit, toStore, job>>
    PROVE  QueueInv' /\ NothingNew
<1>1. EncodersKept
  BY EncoderStepKeeps DEF EncoderSteps
<1>2. NamesKept
  BY <1>1, UnchangedNames DEF NamesKept
<1>3. JobsKept
  BY DEF JobsKept
<1>4. AddsKept(0)
  BY <1>3, AddsUnchanged
<1>5. QueuesKept
  BY <1>1, QueuesKeptBy
<1>6. AdmissionsOK(admit', job')
  BY DEF AdmissionsOK, QueueInv, OneAdd
<1> QED BY <1>2, <1>3, <1>4, <1>5, <1>6, StepKeepsQueues

\* An encoder leaves the queues, and the removal of its record is asked for.
LEMMA EncoderLeaves ==
    ASSUME TypeOK, QueueInv, TypeOK', NEW i \in DOMAIN encoders, NEW e, EncoderSteps(i, e),
           NEW op \in Operations, op.op # "add", Send(op),
           job' = [job EXCEPT ![encoders[i].req] = "over"],
           UNCHANGED <<rows, toService, todo, admit>>
    PROVE  QueueInv' /\ NothingNew
<1>1. EncodersKept
  BY EncoderStepKeeps DEF EncoderSteps
<1>2. NamesKept
  BY <1>1, UnchangedNames DEF NamesKept
<1>3. JobsKept
  BY DEF JobsKept, TypeOK
<1>4. AddsKept(0)
  BY <1>3, AddsAfterSend
<1>5. QueuesKept
  BY <1>1, QueuesKeptBy
<1>6. AdmissionsOK(admit', job')
  <2>1. Named(encoders[i].req, encoders[i].id) /\ encoders[i].req \in Requests /\ encoders[i].id \in Nat
    BY OwnNames, EncoderParts
  <2>2. job[encoders[i].req] # "new"
    BY <2>1 DEF QueueInv, OneName
  <2> QED BY <2>2 DEF AdmissionsOK, QueueInv, OneAdd, TypeOK
<1> QED BY <1>2, <1>3, <1>4, <1>5, <1>6, StepKeepsQueues

-----------------------------------------------------------------------------
(* The conversions. *)

\* An encoder after a change of its step, its settlement or both.
LEMMA StepOf ==
    ASSUME TypeOK, NEW i \in DOMAIN encoders, NEW st \in QueuedSteps \cup {"out", "removing"},
           st \in QueuedSteps => encoders[i].step \in QueuedSteps, StepEncoder(i, st)
    PROVE  EncoderSteps(i, [encoders[i] EXCEPT !.step = st])
  BY EncoderParts DEF EncoderStates, StepEncoder, EncoderSteps

LEMMA SettleOf ==
    ASSUME TypeOK, NEW i \in DOMAIN encoders,
           NEW settle \in {"none", "register", "registerAndDelete", "delete"},
           encoders' = [encoders EXCEPT ![i].settle = settle]
    PROVE  EncoderSteps(i, [encoders[i] EXCEPT !.settle = settle])
  BY EncoderParts DEF EncoderStates, EncoderSteps

LEMMA StepTypes ==
    ASSUME TypeOK, NEW i \in DOMAIN encoders, NEW e, EncoderSteps(i, e)
    PROVE  encoders' \in Seq(EncoderStates)
  BY EncoderStepKeeps DEF EncoderSteps, EncodersKept

LEMMA StartDoneKeeps ==
    ASSUME TypeOK, QueueInv, NEW i \in DOMAIN encoders, StartDone(i)
    PROVE  TypeOK' /\ QueueInv' /\ NothingNew
<1>1. EncoderSteps(i, [encoders[i] EXCEPT !.step = "started"])
  BY StepOf DEF StartDone, QueuedSteps
<1>2. encoders' \in Seq(EncoderStates)
  BY <1>1, StepTypes
<1>3. files' \in Seq(Outputs)
  BY OutputStates DEF StartDone
<1>4. TypeOK'
  BY <1>2, <1>3 DEF TypeOK, StartDone, store, restoration, wake
<1> QED BY <1>1, <1>4, EncoderMoves DEF StartDone, store, restoration

LEMMA StartFailsKeeps ==
    ASSUME TypeOK, QueueInv, NEW i \in DOMAIN encoders, StartFails(i)
    PROVE  TypeOK' /\ QueueInv' /\ NothingNew
<1> DEFINE e == [encoders[i] EXCEPT !.step = "startFailed", !.wakes = TRUE]
<1>1. EncoderSteps(i, e)
  BY EncoderParts DEF StartFails, EncoderStates, QueuedSteps, EncoderSteps
<1> HIDE DEF e
<1>2. encoders' \in Seq(EncoderStates)
  BY <1>1, StepTypes
<1>3. faults' \in [Kinds -> Nat]
  BY FaultTypes DEF StartFails
<1>4. TypeOK'
  BY <1>2, <1>3 DEF TypeOK, Kinds, StartFails, store, restoration, wake, disk
<1> QED BY <1>1, <1>4, EncoderMoves DEF StartFails, store, restoration

LEMMA ExitWellKeeps ==
    ASSUME TypeOK, QueueInv, NEW i \in DOMAIN encoders, ExitWell(i)
    PROVE  TypeOK' /\ QueueInv' /\ NothingNew
<1> DEFINE settle == IF encoders[i].req \in RemoveOriginal /\ ~SourceStillQueued(i)
                     THEN "registerAndDelete" ELSE "register"
           e == [encoders[i] EXCEPT !.step = "exited", !.settle = settle]
<1>1. EncoderSteps(i, e)
  BY EncoderParts DEF ExitWell, EncoderStates, QueuedSteps, EncoderSteps
<1> HIDE DEF e
<1>2. encoders' \in Seq(EncoderStates)
  BY <1>1, StepTypes
<1>3. files' \in Seq(Outputs)
  BY OutputStates DEF ExitWell
<1>4. TypeOK'
  BY <1>2, <1>3 DEF TypeOK, ExitWell, store, restoration, wake
<1> QED BY <1>1, <1>4, EncoderMoves DEF ExitWell, store, restoration

LEMMA ExitBadlyKeeps ==
    ASSUME TypeOK, QueueInv, NEW i \in DOMAIN encoders, ExitBadly(i)
    PROVE  TypeOK' /\ QueueInv' /\ NothingNew
<1>1. EncoderSteps(i, [encoders[i] EXCEPT !.step = "exited"])
  BY StepOf DEF ExitBadly, QueuedSteps
<1>2. encoders' \in Seq(EncoderStates)
  BY <1>1, StepTypes
<1>3. files' \in Seq(Outputs)
  BY OutputStates DEF ExitBadly
<1>4. TypeOK'
  BY <1>2, <1>3 DEF TypeOK, ExitBadly, store, restoration, wake
<1> QED BY <1>1, <1>4, EncoderMoves DEF ExitBadly, store, restoration

LEMMA RegisterKeeps ==
    ASSUME TypeOK, QueueInv, NEW i \in DOMAIN encoders, NEW ok \in BOOLEAN, Register(i, ok)
    PROVE  TypeOK' /\ QueueInv' /\ NothingNew
<1> DEFINE settle == IF ok /\ encoders[i].settle = "registerAndDelete" THEN "delete" ELSE "none"
<1>5. settle \in {"none", "register", "registerAndDelete", "delete"} /\ encoders' = [encoders EXCEPT ![i].settle = settle]
  BY DEF Register
<1> HIDE DEF settle
<1>1. EncoderSteps(i, [encoders[i] EXCEPT !.settle = settle])
  BY <1>5, SettleOf
<1>2. encoders' \in Seq(EncoderStates)
  BY <1>1, StepTypes
<1>3. files' \in Seq(Outputs) /\ faults' \in [Kinds -> Nat]
  BY OutputRegistered, FaultTypes DEF Register, TypeOK, Kinds
<1>4. TypeOK'
  BY <1>2, <1>3 DEF TypeOK, Kinds, Register, store, restoration, wake
<1> QED BY <1>1, <1>4, EncoderMoves DEF Register, store, restoration

LEMMA DeleteOriginalKeeps ==
    ASSUME TypeOK, QueueInv, NEW i \in DOMAIN encoders, DeleteOriginal(i)
    PROVE  TypeOK' /\ QueueInv' /\ NothingNew
  BY SettleOf, StepTypes, EncoderMoves DEF DeleteOriginal, TypeOK, store, restoration, wake

LEMMA FinalizeKeeps ==
    ASSUME TypeOK, QueueInv, NEW i \in DOMAIN encoders, Finalize(i)
    PROVE  TypeOK' /\ QueueInv' /\ NothingNew
<1>1. EncoderSteps(i, [encoders[i] EXCEPT !.step = "out"])
  BY StepOf DEF Finalize, QueuedSteps
<1>2. encoders' \in Seq(EncoderStates)
  BY <1>1, StepTypes
<1>3. checks' \in Nat /\ timer' \in BOOLEAN /\ suspended' \in BOOLEAN
  BY EmitTypes, Counts DEF Finalize, wake, TypeOK
<1>4. TypeOK'
  BY <1>2, <1>3 DEF TypeOK, Finalize, store, restoration, disk
<1> QED BY <1>1, <1>4, EncoderMoves DEF Finalize, store, restoration

\* The removal of the record of an encoder.
LEMMA RemoveOf ==
    ASSUME TypeOK, NEW i \in DOMAIN encoders
    PROVE  /\ Op("remove", encoders[i].id, encoders[i].req, NoPath, "encoder") \in Operations
           /\ Op("remove", encoders[i].id, encoders[i].req, NoPath, "encoder").op # "add"
  BY EncoderParts DEF Op, Operations, NoPath

LEMMA ReleaseEncoderKeeps ==
    ASSUME TypeOK, QueueInv, NEW i \in DOMAIN encoders, ReleaseEncoder(i)
    PROVE  TypeOK' /\ QueueInv' /\ NothingNew
<1> DEFINE op == Op("remove", encoders[i].id, encoders[i].req, NoPath, "encoder")
<1>1. EncoderSteps(i, [encoders[i] EXCEPT !.step = "removing"])
  BY StepOf DEF ReleaseEncoder, QueuedSteps
<1>2. encoders' \in Seq(EncoderStates)
  BY <1>1, StepTypes
<1>3. op \in Operations /\ op.op # "add" /\ Send(op)
  BY RemoveOf DEF ReleaseEncoder
<1> HIDE DEF op
<1>4. toStore' \in Seq(Operations)
  BY <1>3, SendTypes
<1>5. job' = [job EXCEPT ![encoders[i].req] = "over"] /\ job' \in [Requests -> {"new", "open", "over"}]
  BY DEF ReleaseEncoder, TypeOK
<1>6. TypeOK'
  BY <1>2, <1>4, <1>5 DEF TypeOK, ReleaseEncoder, store, restoration, disk, wake
<1> QED BY <1>1, <1>3, <1>5, <1>6, EncoderLeaves DEF ReleaseEncoder, store, restoration

LEMMA CancelWaitingKeeps ==
    ASSUME TypeOK, QueueInv, NEW i \in DOMAIN encoders, CancelWaiting(i)
    PROVE  TypeOK' /\ QueueInv' /\ NothingNew
<1> DEFINE op == Op("remove", encoders[i].id, encoders[i].req, NoPath, "encoder")
           e == [encoders[i] EXCEPT !.step = "removing", !.wakes = TRUE]
<1>1. EncoderSteps(i, e)
  BY EncoderParts DEF EncoderStates, QueuedSteps, CancelWaiting, EncoderSteps
<1> HIDE DEF e
<1>2. encoders' \in Seq(EncoderStates)
  BY <1>1, StepTypes
<1>3. op \in Operations /\ op.op # "add" /\ Send(op)
  BY RemoveOf DEF CancelWaiting
<1> HIDE DEF op
<1>4. toStore' \in Seq(Operations)
  BY <1>3, SendTypes
<1>5. job' = [job EXCEPT ![encoders[i].req] = "over"] /\ job' \in [Requests -> {"new", "open", "over"}]
  BY DEF CancelWaiting, TypeOK
<1>6. TypeOK'
  BY <1>2, <1>4, <1>5 DEF TypeOK, CancelWaiting, store, restoration, disk, wake
<1> QED BY <1>1, <1>3, <1>5, <1>6, EncoderLeaves DEF CancelWaiting, store, restoration

-----------------------------------------------------------------------------
(* Steps that leave the encoders, the names and the operations alone. *)

LEMMA QuietKeeps ==
    ASSUME TypeOK, QueueInv, TypeOK',
           UNCHANGED <<rows, toService, todo, admit, encoders, toStore, job>>
    PROVE  QueueInv' /\ NothingNew
  BY EncodersUnchanged, UnchangedNames, AddsUnchanged, QueuesKeptBy, StepKeepsQueues DEF NamesKept, JobsKept,
     AdmissionsOK, QueueInv, OneAdd

LEMMA TimerFiresKeeps ==
    ASSUME TypeOK, QueueInv, TimerFires
    PROVE  TypeOK' /\ QueueInv' /\ NothingNew
<1>1. checks' \in Nat
  <2>1. PICK n \in Nat : checks' = IF suspended THEN checks ELSE checks + n
    BY Counts DEF TimerFires
  <2>2. checks \in Nat
    BY DEF TypeOK
  <2> QED BY <2>1, <2>2
<1>2. timer' \in BOOLEAN
  <2>1. PICK n : timer' = (suspended /\ n > 0)
    BY DEF TimerFires
  <2> QED BY Zenon, <2>1
<1>3. TypeOK'
  BY <1>1, <1>2 DEF TypeOK, TimerFires, store, restoration, disk
<1> QED BY <1>3, QuietKeeps DEF TimerFires, store, restoration

LEMMA SuspendBeginsKeeps ==
    ASSUME TypeOK, QueueInv, SuspendBegins
    PROVE  TypeOK' /\ QueueInv' /\ NothingNew
<1>1. faults' \in [Kinds -> Nat]
  BY DisturbTypes DEF SuspendBegins, Kinds
<1>2. TypeOK'
  BY <1>1 DEF TypeOK, Kinds, SuspendBegins, store, restoration, disk
<1> QED BY <1>2, QuietKeeps DEF SuspendBegins, store, restoration

LEMMA SuspendEndsKeeps ==
    ASSUME TypeOK, QueueInv, SuspendEnds
    PROVE  TypeOK' /\ QueueInv' /\ NothingNew
  BY QuietKeeps DEF TypeOK, SuspendEnds, store, restoration, disk

LEMMA RestoreEndKeeps ==
    ASSUME TypeOK, QueueInv, RestoreEnd
    PROVE  TypeOK' /\ QueueInv' /\ NothingNew
  BY EmitTypes, Counts, QuietKeeps DEF RestoreEnd, store, disk, TypeOK

LEMMA PushEnterKeeps ==
    ASSUME TypeOK, QueueInv, NEW r \in Requests, PushEnter(r)
    PROVE  TypeOK' /\ QueueInv' /\ NothingNew
<1>1. r \notin FromRecording /\ job[r] = "new" /\ admit[r].step = "none"
  BY DEF PushEnter, Idle
<1>2. admit \in [Requests -> Admissions] /\ job \in [Requests -> {"new", "open", "over"}]
  BY DEF TypeOK
<1>3. /\ admit' \in [Requests -> Admissions] /\ job' \in [Requests -> {"new", "open", "over"}]
      /\ \A s \in Requests : s # r => admit'[s] = admit[s] /\ job'[s] = job[s]
      /\ admit'[r].step # "none" => admit'[r].step = "lock" /\ job'[r] = "new"
  BY <1>1, <1>2 DEF PushEnter, Admissions
<1>4. UNCHANGED <<rows, nextId, tokens, toStore, toService, up, restoring, todo, listed, encoders, lock,
                  checks, suspended, timer, leases, sources, files, faults>>
  BY DEF PushEnter, store, restoration, wake, disk
<1>5. TypeOK'
  BY <1>3, <1>4 DEF TypeOK
<1>6. EncodersKept
  BY <1>4, EncodersUnchanged
<1>7. NamesKept
  <2>1. \A s \in FromRecording : admit'[s] = admit[s]
    BY <1>1, <1>3, EncodeAssumption
  <2> QED BY <1>4, <1>6, <2>1, OwnNames, UnchangedNames DEF NamesKept
<1>8. JobsKept
  BY <1>1, <1>3 DEF JobsKept
<1>9. AddsKept(0)
  BY <1>1, <1>3, <1>4, <1>8, AddsUnchanged
<1>10. QueuesKept
  BY <1>1, <1>3, EncodeAssumption, <1>6, QueuesKeptBy
<1>11. AdmissionsOK(admit', job')
  BY <1>1, <1>3 DEF AdmissionsOK, QueueInv, OneAdd
<1> QED BY <1>5, <1>7, <1>8, <1>9, <1>10, <1>11, StepKeepsQueues

-----------------------------------------------------------------------------
(* The admission of a request that is known already. *)

\* An admission goes on: that of r alone, which keeps its id.
LEMMA AdmissionKeeps ==
    ASSUME TypeOK, QueueInv, TypeOK', NEW r \in Requests, NEW a \in Admissions,
           admit' = [admit EXCEPT ![r] = a],
           a.step # "none" => admit[r].step # "none" /\ a.id = admit[r].id,
           a.step \in {"lock", "lease"} => admit[r].step \in {"lock", "lease"},
           admit[r].step = "adding" => a.step = "adding",
           a.step # "none" => IF r \in FromRecording THEN a.step # "adding"
                              ELSE a.step # "rejecting" /\ job'[r] = "new",
           \A s \in Requests : s # r => job'[s] = job[s],
           EncodersKept, JobsKept, AddsKept(0), UNCHANGED <<rows, toService, todo>>
    PROVE  QueueInv' /\ NothingNew
<1>1. admit \in [Requests -> Admissions] /\ admit' \in [Requests -> Admissions]
  BY DEF TypeOK
<1>2. admit'[r] = a /\ \A s \in Requests : s # r => admit'[s] = admit[s]
  BY <1>1
<1>3. NamesKept
  BY <1>2, EncodeAssumption, OwnNames, UnchangedNames DEF NamesKept
<1>4. QueuesKept
  BY <1>2, EncodeAssumption, QueuesKeptBy
<1>5. AdmissionsOK(admit', job')
  BY <1>2 DEF AdmissionsOK, QueueInv, OneAdd
<1> QED BY <1>3, <1>4, <1>5, StepKeepsQueues

LEMMA TakeLockKeeps ==
    ASSUME TypeOK, QueueInv, NEW r \in Requests, TakeLock(r)
    PROVE  TypeOK' /\ QueueInv' /\ NothingNew
<1> DEFINE a == [admit[r] EXCEPT !.step = "lease"]
<1>1. admit[r] \in Admissions /\ admit[r].step = "lock"
  BY DEF TypeOK, TakeLock
<1>2. a \in Admissions /\ a.step = "lease" /\ a.id = admit[r].id
  BY <1>1 DEF Admissions
<1>3. admit' = [admit EXCEPT ![r] = a]
  BY DEF TakeLock
<1> HIDE DEF a
<1>4. UNCHANGED <<rows, nextId, tokens, toStore, toService, up, restoring, todo, listed, encoders,
                  checks, suspended, timer, leases, sources, files, faults, job>>
  BY DEF TakeLock, store, restoration, wake, disk
<1>5. admit' \in [Requests -> Admissions]
  BY <1>2, <1>3 DEF TypeOK
<1>6. TypeOK'
  BY <1>4, <1>5 DEF TypeOK
<1>7. EncodersKept /\ JobsKept
  BY <1>4, EncodersUnchanged DEF JobsKept
<1>8. AddsKept(0)
  <2>1. \A s \in Requests : admit[s].step = "adding" => admit'[s].step = "adding"
    BY <1>1, <1>2, <1>3 DEF TypeOK
  <2> QED BY <1>4, <1>7, <2>1, AddsUnchanged
<1>9. r \notin FromRecording => job[r] = "new"
  BY <1>1 DEF QueueInv, OneAdd
<1> QED BY <1>1, <1>2, <1>3, <1>4, <1>6, <1>7, <1>8, <1>9, AdmissionKeeps

LEMMA AcquireRefusedKeeps ==
    ASSUME TypeOK, QueueInv, NEW r \in Requests, AcquireRefused(r)
    PROVE  TypeOK' /\ QueueInv' /\ NothingNew
<1>1. admit[r] \in Admissions /\ admit[r].step = "lease" /\ admit[r].id \in Nat
  BY DEF TypeOK, AcquireRefused, Admissions
<1>2. UNCHANGED <<rows, nextId, tokens, toService, up, restoring, todo, listed, encoders,
                  checks, suspended, timer, leases, sources, files>>
  BY DEF AcquireRefused, store, restoration, wake, disk
<1>3. job' = [job EXCEPT ![r] = "over"] /\ job' \in [Requests -> {"new", "open", "over"}]
  BY DEF AcquireRefused, TypeOK
<1>4. JobsKept /\ \A s \in Requests : s # r => job'[s] = job[s]
  BY <1>3 DEF JobsKept, TypeOK
<1>5. faults' \in [Kinds -> Nat]
  BY FaultTypes DEF AcquireRefused
<1>6. EncodersKept
  BY <1>2, EncodersUnchanged
<1>7. CASE r \in FromRecording
  <2> DEFINE a == [admit[r] EXCEPT !.step = "rejecting"]
             op == Op("remove", admit[r].id, r, NoPath, "admit")
  <2>1. a \in Admissions /\ a.step = "rejecting" /\ a.id = admit[r].id
    BY <1>1 DEF Admissions
  <2>2. admit' = [admit EXCEPT ![r] = a] /\ Send(op)
    BY <1>7 DEF AcquireRefused
  <2>3. op \in Operations /\ op.op # "add"
    BY <1>1, <1>7 DEF Op, Operations, NoPath
  <2> HIDE DEF a, op
  <2>4. admit' \in [Requests -> Admissions]
    BY <2>1, <2>2 DEF TypeOK
  <2>5. \A s \in Requests : admit[s].step = "adding" => admit'[s].step = "adding"
    BY <1>1, <2>1, <2>2 DEF TypeOK
  <2>6. AddsKept(0) /\ toStore' \in Seq(Operations)
    BY <1>4, <2>2, <2>3, <2>5, AddsAfterSend
  <2>7. TypeOK'
    BY <1>2, <1>3, <1>5, <2>4, <2>6 DEF TypeOK, Kinds
  <2> QED BY <1>1, <1>2, <1>4, <1>6, <1>7, <2>1, <2>2, <2>6, <2>7, AdmissionKeeps
<1>8. CASE r \notin FromRecording
  <2>1. Idle \in Admissions /\ Idle.step = "none"
    BY DEF Admissions, Idle
  <2>2. admit' = [admit EXCEPT ![r] = Idle] /\ UNCHANGED toStore
    BY <1>8 DEF AcquireRefused
  <2>3. admit' \in [Requests -> Admissions]
    BY <2>1, <2>2 DEF TypeOK
  <2>4. \A s \in Requests : admit[s].step = "adding" => admit'[s].step = "adding"
    BY <1>1, <2>1, <2>2 DEF TypeOK
  <2>5. AddsKept(0)
    BY <1>4, <2>2, <2>4, AddsUnchanged
  <2>6. TypeOK'
    BY <1>2, <1>3, <1>5, <2>2, <2>3 DEF TypeOK, Kinds
  <2> QED BY <1>1, <1>2, <1>4, <1>6, <2>1, <2>2, <2>5, <2>6, AdmissionKeeps
<1> QED BY <1>7, <1>8

-----------------------------------------------------------------------------
(* The admission of a request comes to its lease. *)

\* waitQueue.push: r has been admitted, and is not in the queues yet.
LEMMA EnqueueTypes ==
    ASSUME TypeOK, NEW r \in Requests, NEW id \in Nat, Enqueue(r, id)
    PROVE  /\ encoders' \in Seq(EncoderStates) /\ admit' \in [Requests -> Admissions]
           /\ checks' \in Nat /\ timer' \in BOOLEAN /\ suspended' \in BOOLEAN
           /\ admit'[r].step = "none" /\ \A s \in Requests : s # r => admit'[s] = admit[s]
<1>1. encoders' \in Seq(EncoderStates)
  BY EncoderAppended DEF Enqueue
<1>2. Idle \in Admissions /\ Idle.step = "none" /\ admit' = [admit EXCEPT ![r] = Idle]
  BY DEF Admissions, Idle, Enqueue
<1>3. /\ admit' \in [Requests -> Admissions] /\ admit'[r].step = "none"
      /\ \A s \in Requests : s # r => admit'[s] = admit[s]
  BY <1>2 DEF TypeOK
<1>4. Cardinality(Waiting) + 1 \in Nat
  BY Counts
<1>5. checks' \in Nat /\ timer' \in BOOLEAN /\ suspended' \in BOOLEAN
  BY <1>4, EmitTypes DEF Enqueue
<1> QED BY <1>1, <1>3, <1>5

LEMMA EnqueueKeeps ==
    ASSUME TypeOK, QueueInv, NEW r \in Requests, NEW id \in Nat, Enqueue(r, id),
           \A k \in Queued : encoders[k].req # r
    PROVE  QueuesKept
<1>1. /\ \A k \in Queued' : (k \in Queued /\ encoders'[k] = encoders[k]) \/ encoders'[k].req = r
      /\ OneJobPerRequest'
  BY EncoderAppended DEF Enqueue, QueueInv
<1>2. admit'[r].step = "none" /\ \A s \in Requests : s # r => admit'[s] = admit[s]
  BY EnqueueTypes
<1>3. ASSUME NEW s \in FromRecording, admit'[s].step \in {"lock", "lease"}, NEW i \in Queued'
      PROVE  encoders'[i].req # s
  BY <1>2, <1>3, EncodeAssumption, <1>1 DEF QueueInv, AdmittedIsNotQueued
<1> QED BY <1>1, <1>3 DEF QueuesKept

\* A request that is new, or is admitted, but not from a recording has no name yet.
LEMMA NewIsUnnamed ==
    ASSUME QueueInv, NEW r \in Requests, job[r] = "new"
    PROVE  \A a \in Nat : ~Named(r, a)
  BY DEF QueueInv, OneName

LEMMA AcquireKeeps ==
    ASSUME TypeOK, QueueInv, NEW r \in Requests, Acquire(r)
    PROVE  TypeOK' /\ QueueInv' /\ NothingNew
<1>1. admit \in [Requests -> Admissions] /\ admit[r] \in Admissions /\ admit[r].step = "lease"
  BY DEF TypeOK, Acquire
<1>2. UNCHANGED <<rows, nextId, tokens, toService, up, restoring, todo, listed, sources, files, faults, job>>
  BY DEF Acquire, store, restoration, disk
<1>3. leases' \in Int
  BY DEF Acquire, TypeOK
<1>4. JobsKept
  BY <1>2 DEF JobsKept
<1>5. CASE r \in FromRecording
  <2>1. UNCHANGED toStore /\ Enqueue(r, admit[r].id) /\ admit[r].id \in Nat
    BY <1>1, <1>5 DEF Acquire, Admissions
  <2>2. /\ encoders' \in Seq(EncoderStates) /\ admit' \in [Requests -> Admissions]
        /\ checks' \in Nat /\ timer' \in BOOLEAN /\ suspended' \in BOOLEAN
        /\ admit'[r].step = "none" /\ \A s \in Requests : s # r => admit'[s] = admit[s]
    BY <2>1, EnqueueTypes
  <2>3. TypeOK'
    BY <1>2, <1>3, <2>1, <2>2 DEF TypeOK
  <2>4. NamesKept
    <3>1. \A k \in DOMAIN encoders' : Named(encoders'[k].req, encoders'[k].id)
      BY <1>1, <1>5, OwnNames, <2>1, EncoderAppended DEF Enqueue
    <3>2. \A s \in FromRecording : admit'[s].step # "none" => Named(s, admit'[s].id)
      BY <2>2, OwnNames, EncodeAssumption
    <3> QED BY <1>2, <3>1, <3>2, UnchangedNames DEF NamesKept
  <2>5. AddsKept(0)
    BY <1>1, <2>2, <1>4, <2>1, AddsUnchanged
  <2>6. QueuesKept
    BY <1>1, <1>5, <2>1, EnqueueKeeps DEF QueueInv, AdmittedIsNotQueued
  <2>7. AdmissionsOK(admit', job')
    BY <1>2, <2>2 DEF AdmissionsOK, QueueInv, OneAdd
  <2> QED BY <1>4, <2>3, <2>4, <2>5, <2>6, <2>7, StepKeepsQueues
<1>6. CASE r \notin FromRecording
  <2> DEFINE a == [admit[r] EXCEPT !.step = "adding"]
             op == Op("add", 0, r, NoPath, "admit")
  <2>1. a \in Admissions /\ a.step = "adding"
    BY <1>1 DEF Admissions
  <2>2. admit' = [admit EXCEPT ![r] = a] /\ Send(op) /\ UNCHANGED <<encoders, checks, suspended, timer>>
    BY <1>6 DEF Acquire, wake
  <2>3. op \in Operations /\ op.op = "add" /\ op.req = r /\ op.by = "admit"
    BY DEF Op, Operations, NoPath
  <2> HIDE DEF a, op
  <2>4. admit' \in [Requests -> Admissions] /\ admit'[r].step = "adding" /\ \A s \in Requests : s # r => admit'[s] = admit[s]
    BY <1>1, <2>1, <2>2
  <2>5. /\ toStore' \in Seq(Operations)
        /\ DOMAIN toStore' = DOMAIN toStore \cup {Len(toStore) + 1}
        /\ \A k \in DOMAIN toStore : toStore'[k] = toStore[k]
        /\ toStore'[Len(toStore) + 1] = op
    BY <2>2, <2>3, SendTypes
  <2>6. TypeOK'
    BY <1>2, <1>3, <2>2, <2>4, <2>5 DEF TypeOK
  <2>7. EncodersKept
    BY <2>2, EncodersUnchanged
  <2>8. NamesKept
    <3>1. \A s \in FromRecording : admit'[s] = admit[s]
      BY <1>6, <2>4, EncodeAssumption
    <3> QED BY <1>2, <2>7, <3>1, OwnNames, UnchangedNames DEF NamesKept
  <2>9. OneName'
    BY <1>4, <2>8, StepKeepsNames
  <2>10. job[r] = "new" /\ \A n \in Nat : ~Named(r, n)
    BY <1>1, <1>6, NewIsUnnamed DEF QueueInv, OneAdd
  <2>11. \A k \in DOMAIN toStore : toStore[k].op = "add" =>
            /\ toStore[k].req # r /\ toStore[k].req \in Requests /\ toStore[k].req \notin FromRecording
            /\ \A n \in Nat : ~Named(toStore[k].req, n)
            /\ IF toStore[k].by = "admit" THEN admit[toStore[k].req].step = "adding"
               ELSE job[toStore[k].req] = "over"
    BY <1>1, <2>10, OperationParts DEF QueueInv, OneAdd
  <2>12. AdmissionsOK(admit', job')
    BY <1>2, <1>6, <2>4, <2>10 DEF AdmissionsOK, QueueInv, OneAdd
  <2>13. (\A k \in DOMAIN toStore : toStore[k].op = "add" =>
            /\ toStore[k].req \notin FromRecording
            /\ \A n \in Nat : ~Named(toStore[k].req, n)
            /\ IF toStore[k].by = "admit" THEN admit[toStore[k].req].step = "adding"
               ELSE job[toStore[k].req] = "over")'
    <3> SUFFICES ASSUME NEW k \in DOMAIN toStore', toStore'[k].op = "add"
                 PROVE  (/\ toStore[k].req \notin FromRecording
                         /\ \A n \in Nat : ~Named(toStore[k].req, n)
                         /\ IF toStore[k].by = "admit" THEN admit[toStore[k].req].step = "adding"
                            ELSE job[toStore[k].req] = "over")'
      OBVIOUS
    <3>1. PICK s \in Requests : s = toStore'[k].req
      BY <2>3, <2>5, <2>11
    <3>2. /\ s \notin FromRecording /\ \A n \in Nat : ~Named(s, n)
          /\ IF toStore'[k].by = "admit" THEN admit'[s].step = "adding" ELSE job[s] = "over"
      <4>1. CASE k \in DOMAIN toStore
        BY <2>4, <2>5, <2>11, <3>1, <4>1
      <4>2. CASE k = Len(toStore) + 1
        BY <1>6, <2>3, <2>4, <2>5, <2>10, <3>1, <4>2
      <4> QED BY <2>5, <4>1, <4>2
    <3>3. \A n \in Nat : ~Named(s, n)'
      BY <2>8, <3>2, NamesBefore
    <3>4. (\A n \in Nat : ~Named(toStore[k].req, n))'
      BY <3>1, <3>3 DEF Named
    <3> QED BY <1>2, <3>1, <3>2, <3>4
  <2>14. \A i, j \in DOMAIN toStore' :
            toStore'[i].op = "add" /\ toStore'[j].op = "add" /\ toStore'[i].req = toStore'[j].req => i = j
    BY <2>3, <2>5, <2>11 DEF QueueInv, OneAdd
  <2>15. OneAdd'
    BY <2>12, <2>13, <2>14 DEF AdmissionsOK, OneAdd
  <2>16. QueuesKept
    BY <1>6, <2>4, EncodeAssumption, <2>7, QueuesKeptBy
  <2>17. \A k \in DOMAIN toStore' : toStore'[k].op = "add" => toStore'[k].req \in Coming
    BY <2>11, <2>10, <2>3, <2>5 DEF Coming
  <2> QED BY <1>4, <2>6, <2>8, <2>9, <2>15, <2>16, <2>17 DEF QueueInv, QueuesKept, AdmittedIsNotQueued, NothingNew
<1> QED BY <1>5, <1>6

-----------------------------------------------------------------------------
(* A request gets a record, and with it its name. *)

LEMMA AddedName ==
    ASSUME NEW r, NEW id, NamesAdded(r, id), NEW s, NEW a, Named(s, a)'
    PROVE  Named(s, a) \/ (s = r /\ a = id)
  BY DEF NamesAdded, Named

LEMMA RecordAdded ==
    ASSUME TypeOK, NEW r \in Requests, NEW id \in Ids, AddRecord(r, id)
    PROVE  /\ rows' \in Seq(Records)
           /\ \A k \in DOMAIN rows' : \/ k \in DOMAIN rows /\ rows'[k] = rows[k]
                                      \/ rows'[k].req = r /\ rows'[k].id = id
<1> DEFINE record == [id |-> id, req |-> r, out |-> NoPath]
<1>1. rows \in Seq(Records) /\ DOMAIN rows = 1 .. Len(rows) /\ Len(rows) \in Nat
  BY LenProperties DEF TypeOK
<1>2. record \in Records /\ record.req = r /\ record.id = id /\ rows' = Append(rows, record)
  BY DEF Records, NoPath, AddRecord
<1> HIDE DEF record
<1>3. /\ rows' \in Seq(Records) /\ Len(rows') = Len(rows) + 1
      /\ \A k \in 1 .. Len(rows) : rows'[k] = rows[k]
      /\ rows'[Len(rows) + 1] = record
  BY <1>1, <1>2, AppendProperties
<1>4. DOMAIN rows' = 1 .. Len(rows) + 1
  BY <1>3, LenProperties
<1>5. \A k \in DOMAIN rows' : k \in 1 .. Len(rows) \/ k = Len(rows) + 1
  BY <1>1, <1>4
<1> QED BY <1>1, <1>2, <1>3, <1>5

LEMMA StepAddsName ==
    ASSUME TypeOK, TypeOK', QueueInv, NEW r \in Requests, NEW id \in Nat, NamesAdded(r, id),
           \A a \in Nat : ~Named(r, a), job'[r] # "new", JobsKept, AdmissionsOK(admit', job'),
           NEW d \in {0, 1}, AddsKept(d),
           \A i \in DOMAIN toStore' : toStore'[i].op = "add" => toStore'[i].req # r, QueuesKept
    PROVE  QueueInv' /\ OneNew(r, id)
<1>1. \A s \in Requests, a \in Nat : Named(s, a)' => Named(s, a) \/ (s = r /\ a = id)
  BY AddedName
<1>2. OneName'
  <2>1. \A s \in Requests, a, b \in Nat : Named(s, a)' /\ Named(s, b)' => a = b
    BY <1>1 DEF QueueInv, OneName
  <2>2. \A s \in Requests, a \in Nat : Named(s, a)' => job'[s] # "new"
    BY <1>1 DEF QueueInv, OneName, JobsKept
  <2> QED BY <2>1, <2>2 DEF OneName
<1>3. (\A i \in DOMAIN toStore : toStore[i].op = "add" =>
          /\ toStore[i].req \notin FromRecording
          /\ \A a \in Nat : ~Named(toStore[i].req, a)
          /\ IF toStore[i].by = "admit" THEN admit[toStore[i].req].step = "adding"
             ELSE job[toStore[i].req] = "over")'
  <2> SUFFICES ASSUME NEW i \in DOMAIN toStore', toStore'[i].op = "add"
               PROVE  (/\ toStore[i].req \notin FromRecording
                       /\ \A a \in Nat : ~Named(toStore[i].req, a)
                       /\ IF toStore[i].by = "admit" THEN admit[toStore[i].req].step = "adding"
                          ELSE job[toStore[i].req] = "over")'
    OBVIOUS
  <2>1. /\ i + d \in DOMAIN toStore /\ toStore[i + d].op = "add" /\ toStore[i + d].req = toStore'[i].req
        /\ IF toStore'[i].by = "admit" THEN admit'[toStore'[i].req].step = "adding"
           ELSE job'[toStore'[i].req] = "over"
    BY DEF AddsKept
  <2>2. PICK s \in Requests : s = toStore'[i].req /\ s # r
    BY <2>1, OperationParts
  <2>3. s \notin FromRecording /\ \A a \in Nat : ~Named(s, a)
    BY <2>1, <2>2 DEF QueueInv, OneAdd
  <2>4. \A a \in Nat : ~Named(s, a)'
    BY <1>1, <2>2, <2>3
  <2>5. (\A a \in Nat : ~Named(toStore[i].req, a))'
    BY <2>2, <2>4 DEF Named
  <2> QED BY <2>1, <2>2, <2>3, <2>5
<1>4. \A i, j \in DOMAIN toStore' :
          toStore'[i].op = "add" /\ toStore'[j].op = "add" /\ toStore'[i].req = toStore'[j].req => i = j
  <2> SUFFICES ASSUME NEW i \in DOMAIN toStore', NEW j \in DOMAIN toStore', toStore'[i].op = "add",
                      toStore'[j].op = "add", toStore'[i].req = toStore'[j].req
               PROVE  i = j
    OBVIOUS
  <2>1. i + d = j + d
    BY DEF AddsKept, QueueInv, OneAdd
  <2>2. toStore' \in Seq(Operations)
    BY DEF TypeOK
  <2>3. i \in Nat /\ j \in Nat
    BY <2>2, LenProperties
  <2> QED BY <2>1, <2>3
<1>5. (\A s \in Requests : admit[s].step # "none" =>
          IF s \in FromRecording THEN admit[s].step # "adding"
          ELSE admit[s].step # "rejecting" /\ job[s] = "new")'
  BY DEF AdmissionsOK
<1>6. OneAdd'
  BY <1>3, <1>4, <1>5 DEF OneAdd
<1>7. OneNew(r, id)
  <2>1. \A i \in DOMAIN toStore' : toStore'[i].op = "add" => toStore'[i].req \in Coming
    BY OperationParts DEF AddsKept, Coming
  <2> QED BY <2>1 DEF OneNew
<1> QED BY <1>2, <1>6, <1>7 DEF QueueInv, QueuesKept, AdmittedIsNotQueued

LEMMA EnqueueFromRecordingKeeps ==
    ASSUME TypeOK, QueueInv, NEW r \in Requests, EnqueueFromRecording(r)
    PROVE  TypeOK' /\ QueueInv' /\ \E id \in Ids : AddRecord(r, id) /\ OneNew(r, id)
<1>1. PICK id \in Ids :
         /\ AddRecord(r, id) /\ UNCHANGED tokens
         /\ toService' = IF up THEN Append(toService, [id |-> id, req |-> r]) ELSE toService
  BY DEF EnqueueFromRecording
<1>2. r \in FromRecording /\ job[r] = "new" /\ job' = [job EXCEPT ![r] = "open"]
  BY DEF EnqueueFromRecording
<1>3. UNCHANGED <<toStore, up, restoring, todo, listed, admit, encoders, lock, checks, suspended, timer, leases,
                  sources, files, faults>>
  BY DEF EnqueueFromRecording, restoration, wake, disk
<1>4. job' \in [Requests -> {"new", "open", "over"}] /\ job'[r] = "open" /\ \A s \in Requests : s # r => job'[s] = job[s]
  BY <1>2 DEF TypeOK
<1>5. /\ rows' \in Seq(Records)
      /\ \A k \in DOMAIN rows' : \/ k \in DOMAIN rows /\ rows'[k] = rows[k]
                                 \/ rows'[k].req = r /\ rows'[k].id = id
  BY <1>1, RecordAdded
<1>6. /\ toService' \in Seq([id : Ids, req : FromRecording])
      /\ \A k \in DOMAIN toService' : \/ k \in DOMAIN toService /\ toService'[k] = toService[k]
                                      \/ toService'[k].req = r /\ toService'[k].id = id
  <2> DEFINE m == [id |-> id, req |-> r]
             M == [id : Ids, req : FromRecording]
  <2>1. m \in M /\ m.req = r /\ m.id = id /\ toService' = IF up THEN Append(toService, m) ELSE toService
    BY <1>1, <1>2
  <2>2. toService \in Seq(M)
    BY DEF TypeOK
  <2> HIDE DEF m, M
  <2>3. DOMAIN toService = 1 .. Len(toService) /\ Len(toService) \in Nat
    BY <2>2, LenProperties
  <2>4. CASE up
    <3>1. /\ toService' \in Seq(M) /\ Len(toService') = Len(toService) + 1
          /\ \A k \in 1 .. Len(toService) : toService'[k] = toService[k]
          /\ toService'[Len(toService) + 1] = m
      BY <2>1, <2>2, <2>4, AppendProperties
    <3>2. DOMAIN toService' = 1 .. Len(toService) + 1
      BY <3>1, LenProperties
    <3>3. \A k \in DOMAIN toService' : k \in 1 .. Len(toService) \/ k = Len(toService) + 1
      BY <2>3, <3>2
    <3> QED BY <2>1, <2>3, <3>1, <3>3 DEF M
  <2>5. CASE ~up
    BY <2>1, <2>2, <2>5 DEF M
  <2> QED BY <2>4, <2>5
<1>7. TypeOK'
  BY <1>1, <1>3, <1>4, <1>5, <1>6 DEF TypeOK
<1>8. EncodersKept
  BY <1>3, EncodersUnchanged
<1>9. NamesAdded(r, id)
  BY <1>3, <1>5, <1>6, <1>8, OwnNames, UnchangedNames DEF NamesAdded
<1>10. \A a \in Nat : ~Named(r, a)
  BY <1>2, NewIsUnnamed
<1>11. JobsKept
  BY <1>2, <1>4 DEF JobsKept
<1>12. AdmissionsOK(admit', job')
  BY <1>2, <1>3, <1>4 DEF AdmissionsOK, QueueInv, OneAdd
<1>13. AddsKept(0)
  BY <1>3, <1>11, AddsUnchanged
<1>14. \A i \in DOMAIN toStore' : toStore'[i].op = "add" => toStore'[i].req # r
  BY <1>2, <1>3 DEF QueueInv, OneAdd
<1>15. QueuesKept
  BY <1>3, <1>8, QueuesKeptBy
<1>16. id \in Nat /\ job'[r] # "new"
  BY <1>4 DEF Ids
<1>17. QueueInv' /\ OneNew(r, id)
  BY <1>7, <1>9, <1>10, <1>11, <1>12, <1>13, <1>14, <1>15, <1>16, StepAddsName
<1> QED BY <1>1, <1>7, <1>17

-----------------------------------------------------------------------------
(* pushPersisted. *)

\* The message that is taken, and those that are left.
LEMMA MessageTypes ==
    ASSUME TypeOK, toService # <<>>
    PROVE  /\ Head(toService).req \in FromRecording /\ Head(toService).id \in Ids
           /\ Named(Head(toService).req, Head(toService).id)
           /\ Tail(toService) \in Seq([id : Ids, req : FromRecording])
           /\ \A k \in DOMAIN Tail(toService) : Named(Tail(toService)[k].req, Tail(toService)[k].id)
<1> DEFINE M == [id : Ids, req : FromRecording]
<1>1. toService \in Seq(M) /\ Len(toService) \in Nat /\ DOMAIN toService = 1 .. Len(toService)
  BY LenProperties DEF TypeOK
<1> HIDE DEF M
<1>2. /\ Head(toService) \in M /\ Tail(toService) \in Seq(M)
      /\ Len(Tail(toService)) = Len(toService) - 1
      /\ \A k \in 1 .. Len(Tail(toService)) : Tail(toService)[k] = toService[k + 1]
  BY <1>1, HeadTailProperties
<1>3. DOMAIN Tail(toService) = 1 .. Len(Tail(toService))
  BY <1>2, LenProperties
<1>4. Head(toService) = toService[1] /\ 1 \in DOMAIN toService
  BY <1>1, EmptySeq
<1>5. Named(Head(toService).req, Head(toService).id)
  BY <1>4, OwnNames
<1>6. \A k \in DOMAIN Tail(toService) : Tail(toService)[k] = toService[k + 1] /\ k + 1 \in DOMAIN toService
  BY <1>1, <1>2, <1>3
<1>7. \A k \in DOMAIN Tail(toService) : Named(Tail(toService)[k].req, Tail(toService)[k].id)
  BY <1>6, OwnNames
<1> QED BY <1>2, <1>5, <1>7 DEF M

LEMMA HandOverKeeps ==
    ASSUME TypeOK, QueueInv, HandOver
    PROVE  TypeOK' /\ QueueInv' /\ NothingNew
<1>1. PICK m : m = Head(toService)
  OBVIOUS
<1>2. /\ m.req \in FromRecording /\ m.req \in Requests /\ m.id \in Nat /\ Named(m.req, m.id)
      /\ toService' = Tail(toService) /\ toService' \in Seq([id : Ids, req : FromRecording])
      /\ \A k \in DOMAIN toService' : Named(toService'[k].req, toService'[k].id)
  BY <1>1, MessageTypes, EncodeAssumption DEF HandOver, Ids
<1>3. UNCHANGED <<rows, nextId, tokens, up, restoring, todo, listed, encoders, lock, checks, suspended, timer,
                  leases, sources, files, faults>>
  BY DEF HandOver, store, restoration, wake, disk
<1>4. EncodersKept
  BY <1>3, EncodersUnchanged
<1>5. CASE UNCHANGED <<admit, toStore, job>>
  <2>1. TypeOK'
    BY <1>2, <1>3, <1>5 DEF TypeOK
  <2>2. NamesKept
    BY <1>2, <1>3, <1>4, <1>5, UnchangedNames DEF NamesKept
  <2>3. JobsKept
    BY <1>5 DEF JobsKept
  <2>4. AddsKept(0)
    BY <1>5, <2>3, AddsUnchanged
  <2>5. QueuesKept
    BY <1>4, <1>5, QueuesKeptBy
  <2>6. AdmissionsOK(admit', job')
    BY <1>5 DEF AdmissionsOK, QueueInv, OneAdd
  <2> QED BY <2>1, <2>2, <2>3, <2>4, <2>5, <2>6, StepKeepsQueues
<1>6. ASSUME NEW a \in Admissions, a.id = m.id, a.step \in {"rejecting", "lock"},
             admit' = [admit EXCEPT ![m.req] = a]
      PROVE  /\ admit' \in [Requests -> Admissions]
             /\ \A s \in FromRecording : admit'[s].step # "none" => Named(s, admit'[s].id)
             /\ \A s \in Requests : admit[s].step = "adding" => admit'[s].step = "adding"
             /\ \A s \in Requests : s # m.req => admit'[s] = admit[s]
             /\ admit'[m.req] = a
             /\ (\A s \in Requests : s # m.req => job'[s] = job[s]) => AdmissionsOK(admit', job')
  <2>1. admit \in [Requests -> Admissions] /\ admit[m.req].step # "adding"
    BY <1>2 DEF TypeOK, QueueInv, OneAdd
  <2>2. admit' \in [Requests -> Admissions] /\ admit'[m.req] = a /\ \A s \in Requests : s # m.req => admit'[s] = admit[s]
    BY <1>2, <1>6, <2>1
  <2>3. \A s \in FromRecording : admit'[s].step # "none" => Named(s, admit'[s].id)
    BY <1>2, <1>6, <2>2, OwnNames, EncodeAssumption
  <2>4. \A s \in Requests : admit[s].step = "adding" => admit'[s].step = "adding"
    BY <2>1, <2>2
  <2>5. ASSUME \A s \in Requests : s # m.req => job'[s] = job[s]
        PROVE  AdmissionsOK(admit', job')
    BY <1>2, <1>6, <2>2, <2>5 DEF AdmissionsOK, QueueInv, OneAdd
  <2> QED BY <2>2, <2>3, <2>4, <2>5
<1>7. CASE /\ admit' = [admit EXCEPT ![m.req] = [step |-> "rejecting", id |-> m.id]]
           /\ Send(Op("remove", m.id, m.req, NoPath, "admit"))
           /\ job' = [job EXCEPT ![m.req] = "over"]
  <2>1. PICK a : a = [step |-> "rejecting", id |-> m.id]
    OBVIOUS
  <2>2. a \in Admissions /\ a.id = m.id /\ a.step = "rejecting" /\ admit' = [admit EXCEPT ![m.req] = a]
    BY <1>2, <1>7, <2>1 DEF Admissions
  <2>3. job' \in [Requests -> {"new", "open", "over"}] /\ JobsKept /\ \A s \in Requests : s # m.req => job'[s] = job[s]
    BY <1>7 DEF TypeOK, JobsKept
  <2>4. /\ admit' \in [Requests -> Admissions]
        /\ \A s \in FromRecording : admit'[s].step # "none" => Named(s, admit'[s].id)
        /\ \A s \in Requests : admit[s].step = "adding" => admit'[s].step = "adding"
        /\ \A s \in Requests : s # m.req => admit'[s] = admit[s]
        /\ admit'[m.req] = a /\ AdmissionsOK(admit', job')
    BY <1>6, <2>2, <2>3
  <2>5. PICK op : op = Op("remove", m.id, m.req, NoPath, "admit")
    OBVIOUS
  <2>6. op \in Operations /\ op.op # "add" /\ Send(op)
    BY <1>2, <1>7, <2>5 DEF Op, Operations, NoPath
  <2>7. AddsKept(0) /\ toStore' \in Seq(Operations)
    BY <2>3, <2>4, <2>6, AddsAfterSend
  <2>8. TypeOK'
    BY <1>2, <1>3, <2>3, <2>4, <2>7 DEF TypeOK
  <2>9. NamesKept
    BY <1>2, <1>3, <1>4, <2>4, UnchangedNames DEF NamesKept
  <2>10. QueuesKept
    BY <1>4, <2>2, <2>4, QueuesKeptBy, EncodeAssumption
  <2> QED BY <2>3, <2>4, <2>7, <2>8, <2>9, <2>10, StepKeepsQueues
<1>8. CASE /\ ~InUse(m.id) /\ admit' = [admit EXCEPT ![m.req] = [step |-> "lock", id |-> m.id]]
           /\ UNCHANGED <<toStore, job>>
  <2>1. PICK a : a = [step |-> "lock", id |-> m.id]
    OBVIOUS
  <2>2. a \in Admissions /\ a.id = m.id /\ a.step = "lock" /\ admit' = [admit EXCEPT ![m.req] = a]
    BY <1>2, <1>8, <2>1 DEF Admissions
  <2>3. JobsKept /\ job' = job
    BY <1>8 DEF JobsKept
  <2>4. /\ admit' \in [Requests -> Admissions]
        /\ \A s \in FromRecording : admit'[s].step # "none" => Named(s, admit'[s].id)
        /\ \A s \in Requests : admit[s].step = "adding" => admit'[s].step = "adding"
        /\ \A s \in Requests : s # m.req => admit'[s] = admit[s]
        /\ admit'[m.req] = a /\ AdmissionsOK(admit', job')
    BY <1>6, <2>2, <2>3
  <2>5. AddsKept(0)
    BY <1>8, <2>3, <2>4, AddsUnchanged
  <2>6. TypeOK'
    BY <1>2, <1>3, <1>8, <2>4 DEF TypeOK
  <2>7. NamesKept
    BY <1>2, <1>3, <1>4, <2>4, UnchangedNames DEF NamesKept
  \* Its encoder would have the id of the message, and the id would be in use.
  <2>8. \A i \in Queued : encoders[i].req # m.req
    BY QueuedByStep, OwnNames, EncoderParts, <1>2, <1>8 DEF QueueInv, OneName, InUse
  <2>9. QueuesKept
    <3>1. Queued' = Queued /\ encoders' = encoders /\ OneJobPerRequest'
      BY <1>3 DEF Queued, Waiting, Running, QueueInv, OneJobPerRequest
    <3>2. \A s \in FromRecording : admit'[s].step \in {"lock", "lease"} => \A i \in Queued : encoders[i].req # s
      BY <2>8, <2>4, EncodeAssumption DEF QueueInv, AdmittedIsNotQueued
    <3> QED BY <3>1, <3>2 DEF QueuesKept
  <2> QED BY <2>3, <2>4, <2>5, <2>6, <2>7, <2>9, StepKeepsQueues
<1> QED BY <1>1, <1>5, <1>7, <1>8 DEF HandOver

-----------------------------------------------------------------------------
(* checkQueue. *)

LEMMA CheckQueueKeeps ==
    ASSUME TypeOK, QueueInv, CheckQueue
    PROVE  TypeOK' /\ QueueInv' /\ NothingNew
<1>1. UNCHANGED <<rows, nextId, tokens, toService, up, restoring, todo, listed, admit, suspended, timer, leases,
                  sources, job>>
  BY DEF CheckQueue, store, restoration
<1>2. checks' \in Nat
  BY DEF CheckQueue, TypeOK
<1>3. JobsKept /\ \A s \in Requests : admit[s].step = "adding" => admit'[s].step = "adding"
  BY <1>1 DEF JobsKept
<1>4. /\ EncodersKept /\ AddsKept(0) /\ toStore' \in Seq(Operations) /\ files' \in Seq(Outputs)
      /\ faults' \in [Kinds -> Nat]
  <2>1. CASE FreeSlots = 0 \/ Waiting = {}
    BY <2>1, <1>3, AddsUnchanged, EncodersUnchanged DEF CheckQueue, TypeOK, Kinds
  <2>2. CASE ~(FreeSlots = 0 \/ Waiting = {})
    <3>1. PICK i : i = Min(Waiting)
      OBVIOUS
    <3>2. i \in Queued /\ i \in DOMAIN encoders /\ encoders[i] \in EncoderStates
      BY <2>2, <3>1, Counts, EncoderParts DEF Queued, Waiting
    <3>3. PICK e : e = encoders[i]
      OBVIOUS
    <3>4. Len(files) \in Nat /\ files \in Seq(Outputs)
      BY LenProperties DEF TypeOK
    <3>5. CASE SourceOf[e.req] \notin sources
      <4>1. PICK failed : failed = [e EXCEPT !.step = "startFailed", !.wakes = TRUE]
        OBVIOUS
      <4>2. encoders' = Append(RemoveAt(encoders, i), failed) /\ UNCHANGED <<lock, toStore, files, faults>>
        BY <2>2, <3>1, <3>3, <3>5, <4>1 DEF CheckQueue
      <4>3. failed \in EncoderStates /\ failed.id = encoders[i].id /\ failed.req = encoders[i].req
        BY <3>2, <3>3, <4>1 DEF EncoderStates, QueuedSteps
      <4>4. EncodersKept
        BY <3>2, <4>2, <4>3, EncoderMoveKeeps
      <4>5. AddsKept(0)
        BY <1>3, <4>2, AddsUnchanged
      <4> QED BY <4>2, <4>4, <4>5 DEF TypeOK, Kinds
    <3>6. CASE SourceOf[e.req] \in sources
      <4>1. PICK started : started = [e EXCEPT !.step = "starting", !.file = Len(files) + 1]
        OBVIOUS
      <4>2. PICK op : op = Op("output", e.id, e.req, Len(files) + 1, "encoder")
        OBVIOUS
      <4>3. /\ encoders' = Append(RemoveAt(encoders, i), started) /\ Disturb("starts") /\ Send(op)
            /\ files' = Append(files, [req |-> e.req, state |-> "none", registered |-> FALSE])
        BY <2>2, <3>1, <3>3, <3>6, <4>1, <4>2 DEF CheckQueue
      <4>4. Len(files) + 1 \in Nat
        BY <3>4
      <4>5. started \in EncoderStates /\ started.id = encoders[i].id /\ started.req = encoders[i].req
        BY <3>2, <3>3, <4>1, <4>4 DEF EncoderStates, QueuedSteps
      <4>6. EncodersKept
        BY <3>2, <4>3, <4>5, EncoderMoveKeeps
      <4>7. op \in Operations /\ op.op # "add"
        BY <3>2, <3>3, <4>2, <4>4 DEF Op, Operations, EncoderStates
      <4>8. AddsKept(0) /\ toStore' \in Seq(Operations)
        BY <1>3, <4>3, <4>7, AddsAfterSend
      <4>9. files' \in Seq(Outputs)
        BY <3>2, <3>3, <3>4, <4>3, AppendProperties DEF Outputs, EncoderStates
      <4>10. faults' \in [Kinds -> Nat]
        BY <4>3, DisturbTypes DEF Kinds
      <4> QED BY <4>6, <4>8, <4>9, <4>10
    <3> QED BY <3>5, <3>6
  <2> QED BY <2>1, <2>2
<1>5. TypeOK'
  BY <1>1, <1>2, <1>4 DEF TypeOK, EncodersKept, Kinds
<1>6. NamesKept
  BY <1>1, <1>4, UnchangedNames DEF NamesKept
<1>7. QueuesKept
  BY <1>1, <1>4, QueuesKeptBy
<1>8. AdmissionsOK(admit', job')
  BY <1>1 DEF AdmissionsOK, QueueInv, OneAdd
<1> QED BY <1>3, <1>4, <1>5, <1>6, <1>7, <1>8, StepKeepsQueues

-----------------------------------------------------------------------------
(* The restoration. *)

LEMMA StartRestorationKeeps ==
    ASSUME TypeOK, QueueInv, StartRestoration, up' \in BOOLEAN,
           UNCHANGED <<rows, nextId, tokens, toService, admit, encoders, lock, checks, suspended, timer, leases,
                       sources, files, faults, job>>
    PROVE  TypeOK' /\ QueueInv' /\ NothingNew
<1>1. PICK op : op = Op("list", 0, CHOOSE r \in Requests : TRUE, NoPath, "restore")
  OBVIOUS
<1>2. op \in Operations /\ op.op # "add" /\ Send(op)
  BY EncodeAssumption, <1>1 DEF StartRestoration, Op, Operations, NoPath
<1>3. EncodersKept
  BY EncodersUnchanged
<1>4. JobsKept
  BY DEF JobsKept
<1>5. AddsKept(0) /\ toStore' \in Seq(Operations)
  BY <1>2, <1>4, AddsAfterSend
<1>6. restoring' = "listing" /\ UNCHANGED <<todo, listed>>
  BY DEF StartRestoration
<1>7. TypeOK'
  BY <1>5, <1>6 DEF TypeOK
<1>8. NamesKept
  BY <1>3, <1>6, UnchangedNames DEF NamesKept
<1>9. QueuesKept
  BY <1>3, QueuesKeptBy
<1>10. AdmissionsOK(admit', job')
  BY DEF AdmissionsOK, QueueInv, OneAdd
<1> QED BY <1>4, <1>5, <1>7, <1>8, <1>9, <1>10, StepKeepsQueues

LEMMA ServiceStartKeeps ==
    ASSUME TypeOK, QueueInv, ServiceStart
    PROVE  TypeOK' /\ QueueInv' /\ NothingNew
  BY StartRestorationKeeps DEF ServiceStart, store, wake, disk

LEMMA RetryListKeeps ==
    ASSUME TypeOK, QueueInv, RetryList
    PROVE  TypeOK' /\ QueueInv' /\ NothingNew
  BY StartRestorationKeeps DEF RetryList, TypeOK, store, wake, disk

\* The record that is restored next, and those that are left.
LEMMA RecordTypes ==
    ASSUME TypeOK, todo # <<>>
    PROVE  /\ Head(todo).req \in Requests /\ Head(todo).id \in Nat
           /\ Named(Head(todo).req, Head(todo).id)
           /\ Tail(todo) \in Seq(Records)
           /\ \A k \in DOMAIN Tail(todo) : Named(Tail(todo)[k].req, Tail(todo)[k].id)
<1>1. todo \in Seq(Records) /\ Len(todo) \in Nat /\ DOMAIN todo = 1 .. Len(todo)
  BY LenProperties DEF TypeOK
<1>2. /\ Head(todo) \in Records /\ Tail(todo) \in Seq(Records)
      /\ Len(Tail(todo)) = Len(todo) - 1
      /\ \A k \in 1 .. Len(Tail(todo)) : Tail(todo)[k] = todo[k + 1]
  BY <1>1, HeadTailProperties
<1>3. DOMAIN Tail(todo) = 1 .. Len(Tail(todo))
  BY <1>2, LenProperties
<1>4. Head(todo) = todo[1] /\ 1 \in DOMAIN todo
  BY <1>1, EmptySeq
<1>5. Named(Head(todo).req, Head(todo).id)
  BY <1>4, OwnNames
<1>6. \A k \in DOMAIN Tail(todo) : Tail(todo)[k] = todo[k + 1] /\ k + 1 \in DOMAIN todo
  BY <1>1, <1>2, <1>3
<1>7. \A k \in DOMAIN Tail(todo) : Named(Tail(todo)[k].req, Tail(todo)[k].id)
  BY <1>6, OwnNames
<1> QED BY <1>2, <1>5, <1>7 DEF Records, Ids

\* A record is dropped from the list, and perhaps its removal is asked for.
LEMMA RecordDropped ==
    ASSUME TypeOK, QueueInv, todo # <<>>, todo' = Tail(todo),
           NEW record, record = Head(todo),
           files' \in Seq(Outputs), faults' \in [Kinds -> Nat],
           \/ UNCHANGED <<toStore, job>>
           \/ /\ Send(Op("remove", record.id, record.req, NoPath, "restore"))
              /\ job' = [job EXCEPT ![record.req] = "over"],
           UNCHANGED <<rows, nextId, tokens, toService, up, restoring, listed, admit, encoders, lock, checks, suspended,
                       timer, leases, sources>>
    PROVE  TypeOK' /\ QueueInv' /\ NothingNew
<1>1. /\ record.req \in Requests /\ record.id \in Nat /\ Named(record.req, record.id)
      /\ todo' \in Seq(Records) /\ \A k \in DOMAIN todo' : Named(todo'[k].req, todo'[k].id)
  BY RecordTypes
<1>2. EncodersKept
  BY EncodersUnchanged
<1>3. /\ job' \in [Requests -> {"new", "open", "over"}] /\ JobsKept
      /\ \A s \in Requests : job[s] = "new" /\ s # record.req => job'[s] = "new"
  BY <1>1 DEF TypeOK, JobsKept
<1>4. AddsKept(0) /\ toStore' \in Seq(Operations)
  BY <1>3, AddsUnchanged, <1>1, AddsAfterSend DEF TypeOK, Op, Operations, NoPath
<1>5. TypeOK'
  BY <1>1, <1>3, <1>4 DEF TypeOK, Kinds
<1>6. NamesKept
  BY <1>1, <1>2, UnchangedNames DEF NamesKept
<1>7. QueuesKept
  BY <1>2, QueuesKeptBy
<1>8. AdmissionsOK(admit', job')
  BY <1>1, <1>3 DEF QueueInv, OneName, AdmissionsOK, OneAdd
<1> QED BY <1>3, <1>4, <1>5, <1>6, <1>7, <1>8, StepKeepsQueues

LEMMA RestoreNextKeeps ==
    ASSUME TypeOK, QueueInv, RestoreNext
    PROVE  TypeOK' /\ QueueInv' /\ NothingNew
<1>1. PICK record : record = Head(todo)
  OBVIOUS
<1>2. todo # <<>> /\ todo' = Tail(todo)
  BY DEF RestoreNext, RestoreReady
<1>3. UNCHANGED <<rows, nextId, tokens, toService, up, restoring, listed, admit, lock, checks, suspended, timer,
                  sources, faults>>
  BY DEF RestoreNext, store, wake
<1>4. faults' \in [Kinds -> Nat] /\ files \in Seq(Outputs)
  BY <1>3 DEF TypeOK, Kinds
<1>5. CASE InUse(record.id) /\ UNCHANGED <<toStore, encoders, leases, files, job>>
  BY <1>1, <1>2, <1>3, <1>4, <1>5, RecordDropped
<1>6. CASE /\ Send(Op("remove", record.id, record.req, NoPath, "restore"))
           /\ job' = [job EXCEPT ![record.req] = "over"]
           /\ UNCHANGED <<encoders, leases, files>>
  BY <1>1, <1>2, <1>3, <1>4, <1>6, RecordDropped
<1>7. CASE /\ ~InUse(record.id)
           /\ files' = IF record.out = NoPath THEN files ELSE [files EXCEPT ![record.out].state = "none"]
           /\ leases' = leases + 1
           /\ encoders' = Append(encoders, NewEncoder(record.id, record.req))
           /\ UNCHANGED <<toStore, job>>
  <2>1. /\ record.req \in Requests /\ record.id \in Nat /\ Named(record.req, record.id)
        /\ todo' \in Seq(Records) /\ \A k \in DOMAIN todo' : Named(todo'[k].req, todo'[k].id)
    BY <1>1, <1>2, RecordTypes
  <2>2. files' \in Seq(Outputs) /\ leases' \in Int
    <3>1. [files EXCEPT ![record.out].state = "none"] \in Seq(Outputs)
      BY OutputStates
    <3>2. leases \in Int
      BY DEF TypeOK
    <3> QED BY <1>4, <1>7, <3>1, <3>2
  <2>3. /\ encoders' \in Seq(EncoderStates)
        /\ \A k \in DOMAIN encoders' : \/ k \in DOMAIN encoders /\ encoders'[k] = encoders[k]
                                       \/ encoders'[k].req = record.req /\ encoders'[k].id = record.id
        /\ \A k \in Queued' : (k \in Queued /\ encoders'[k] = encoders[k]) \/ encoders'[k].req = record.req
        /\ OneJobPerRequest /\ (\A k \in Queued : encoders[k].req # record.req) => OneJobPerRequest'
    BY <1>7, <2>1, EncoderAppended
  <2>4. TypeOK'
    BY <1>3, <1>7, <2>1, <2>2, <2>3 DEF TypeOK
  <2>5. NamesKept
    BY <2>1, <2>3, OwnNames, <1>3, UnchangedNames DEF NamesKept
  <2>6. JobsKept
    BY <1>7 DEF JobsKept
  <2>7. AddsKept(0)
    BY <1>3, <1>7, <2>6, AddsUnchanged
  \* Otherwise the id would be in use: that of its encoder, and of its admission, is this one.
  <2>8. /\ \A k \in Queued : encoders[k].req # record.req
        /\ record.req \in FromRecording => admit[record.req].step = "none"
    <3>1. \A k \in Queued : encoders[k].req # record.req
      BY OwnNames, EncoderParts, QueuedByStep, <2>1, <1>7 DEF QueueInv, OneName, InUse
    <3>2. ASSUME record.req \in FromRecording, admit[record.req].step # "none" PROVE FALSE
      <4>1. Named(record.req, admit[record.req].id)
        BY <3>2, OwnNames
      <4>2. admit[record.req].id \in Nat
        BY <2>1 DEF TypeOK, Admissions
      <4>3. admit[record.req].id = record.id
        BY <2>1, <4>1, <4>2 DEF QueueInv, OneName
      <4> QED BY <1>7, <3>2, <4>3 DEF InUse
    <3> QED BY <3>1, <3>2
  <2>9. QueuesKept
    BY <1>3, <2>8, <2>3 DEF QueueInv, AdmittedIsNotQueued, QueuesKept
  <2>10. AdmissionsOK(admit', job')
    BY <1>3, <1>7 DEF AdmissionsOK, QueueInv, OneAdd
  <2> QED BY <2>4, <2>5, <2>6, <2>7, <2>9, <2>10, StepKeepsQueues
<1> QED BY <1>1, <1>5, <1>6, <1>7 DEF RestoreNext

LEMMA RestoreNextFailsKeeps ==
    ASSUME TypeOK, QueueInv, RestoreNextFails
    PROVE  TypeOK' /\ QueueInv' /\ NothingNew
<1>1. PICK record : record = Head(todo)
  OBVIOUS
<1>2. todo # <<>> /\ todo' = Tail(todo)
  BY DEF RestoreNextFails, RestoreReady
<1>3. UNCHANGED <<rows, nextId, tokens, toService, up, restoring, listed, admit, encoders, lock, checks, suspended,
                  timer, leases, sources>>
  BY DEF RestoreNextFails, store, wake
<1>4. faults' \in [Kinds -> Nat] /\ files \in Seq(Outputs)
  BY FaultTypes DEF RestoreNextFails, TypeOK
<1>5. CASE /\ Send(Op("remove", record.id, record.req, NoPath, "restore"))
           /\ files' = IF record.out = NoPath THEN files ELSE [files EXCEPT ![record.out].state = "none"]
           /\ job' = [job EXCEPT ![record.req] = "over"]
  <2>1. files' \in Seq(Outputs)
    BY <1>4, <1>5, OutputStates
  <2> QED BY <1>1, <1>2, <1>3, <1>4, <1>5, <2>1, RecordDropped
<1>6. CASE UNCHANGED <<toStore, files, job>>
  BY <1>1, <1>2, <1>3, <1>4, <1>6, RecordDropped
<1> QED BY <1>1, <1>5, <1>6 DEF RestoreNextFails

-----------------------------------------------------------------------------
(* Crashes. *)

LEMMA ServiceGoneKeeps ==
    ASSUME TypeOK, QueueInv, ServiceGone, UNCHANGED rows, tokens' \subseteq tokens, files' \in Seq(Outputs),
           toStore' \in Seq(Operations),
           \A i \in DOMAIN toStore' :
              /\ i \in DOMAIN toStore /\ toStore'[i].op = toStore[i].op /\ toStore'[i].req = toStore[i].req
              /\ toStore'[i].by = "nobody"
    PROVE  TypeOK' /\ QueueInv' /\ NothingNew
<1>1. /\ up' = FALSE /\ restoring' = "off" /\ todo' = <<>> /\ listed' = {} /\ encoders' = <<>> /\ toService' = <<>>
      /\ checks' = 0 /\ timer' = FALSE /\ leases' = 0 /\ UNCHANGED <<suspended, sources>>
  BY DEF ServiceGone
<1>2. \A r \in Requests : admit'[r] = Idle /\ admit'[r].step = "none"
  BY DEF ServiceGone, Idle
<1>3. admit' \in [Requests -> Admissions]
  BY DEF Idle, Admissions, ServiceGone
<1>4. /\ job' \in [Requests -> {"new", "open", "over"}]
      /\ \A r \in Requests : job'[r] = IF r \notin FromRecording /\ admit[r] # Idle THEN "over" ELSE job[r]
  BY DEF ServiceGone, TypeOK
<1>5. faults' \in [Kinds -> Nat]
  BY DisturbTypes DEF ServiceGone, Kinds
<1>6. TypeOK'
  <2>1. /\ <<>> \in Seq(Records) /\ <<>> \in Seq([id : Ids, req : FromRecording]) /\ <<>> \in Seq(EncoderStates)
        /\ tokens' \subseteq [req : Requests, id : Ids] /\ rows' \in Seq(Records) /\ sources' \subseteq Sources
    BY <1>1 DEF TypeOK
  <2>2. up' \in BOOLEAN /\ timer' \in BOOLEAN /\ suspended' \in BOOLEAN
    BY Zenon, <1>1 DEF TypeOK
  <2>3. checks' \in Nat /\ leases' \in Int /\ restoring' \in {"off", "listing", "restoring", "retry"}
    BY <1>1
  <2>4. todo' \in Seq(Records) /\ toService' \in Seq([id : Ids, req : FromRecording]) /\ encoders' \in Seq(EncoderStates)
        /\ listed' \subseteq Ids
    BY <1>1, <2>1
  <2> QED BY <1>3, <1>4, <1>5, <2>1, <2>2, <2>3, <2>4 DEF TypeOK, Kinds
<1>7. NamesKept
  BY <1>1, <1>2, UnchangedNames, EncodeAssumption DEF NamesKept
<1>8. JobsKept
  BY <1>4 DEF JobsKept
<1>9. AddsKept(0)
  BY OperationParts, <1>4 DEF AddsKept, QueueInv, OneAdd, Idle
<1>10. QueuesKept
  BY <1>1, QueuedByStep DEF QueuesKept, OneJobPerRequest
<1>11. AdmissionsOK(admit', job')
  BY <1>2 DEF AdmissionsOK
<1> QED BY <1>6, <1>7, <1>8, <1>9, <1>10, <1>11, StepKeepsQueues

LEMMA ServiceCrashKeeps ==
    ASSUME TypeOK, QueueInv, NEW n \in 0 .. Len(toStore), ServiceCrash(n)
    PROVE  TypeOK' /\ QueueInv' /\ NothingNew
<1>1. files' \in Seq(Outputs)
  <2>1. files \in Seq(Outputs) /\ DOMAIN files = 1 .. Len(files) /\ Len(files) \in Nat
    BY LenProperties DEF TypeOK
  <2>2. \A f \in DOMAIN files : files[f] \in Outputs /\ [files[f] EXCEPT !.state = "none"] \in Outputs
    <3>1. \A f \in DOMAIN files : files[f] \in Outputs
      BY <2>1
    <3> QED BY <3>1 DEF Outputs
  <2>3. files' \in [1 .. Len(files) -> Outputs]
    BY <2>1, <2>2 DEF ServiceCrash, CleanedFiles
  <2> QED BY <2>1, <2>3
<1>2. /\ toStore' \in Seq(Operations)
      /\ \A i \in DOMAIN toStore' :
            /\ i \in DOMAIN toStore /\ toStore'[i].op = toStore[i].op /\ toStore'[i].req = toStore[i].req
            /\ toStore'[i].by = "nobody"
  <2>1. toStore' = [i \in 1 .. n |-> [toStore[i] EXCEPT !.by = "nobody"]]
    BY DEF ServiceCrash
  <2>2. n \in Nat /\ DOMAIN toStore = 1 .. Len(toStore) /\ Len(toStore) \in Nat
    BY LenProperties DEF TypeOK
  <2>3. \A i \in 1 .. n : i \in DOMAIN toStore
    BY <2>2
  <2>4. \A i \in DOMAIN toStore : /\ [toStore[i] EXCEPT !.by = "nobody"] \in Operations
                                  /\ [toStore[i] EXCEPT !.by = "nobody"].op = toStore[i].op
                                  /\ [toStore[i] EXCEPT !.by = "nobody"].req = toStore[i].req
                                  /\ [toStore[i] EXCEPT !.by = "nobody"].by = "nobody"
    BY OperationParts DEF Operations
  <2>5. toStore' \in [1 .. n -> Operations]
    BY <2>1, <2>3, <2>4
  <2>6. toStore' \in Seq(Operations)
    BY <2>2, <2>5
  <2> QED BY <2>1, <2>3, <2>4, <2>6
<1> QED BY <1>1, <1>2, ServiceGoneKeeps DEF ServiceCrash, store

LEMMA WholeCrashKeeps ==
    ASSUME TypeOK, QueueInv, WholeCrash
    PROVE  TypeOK' /\ QueueInv' /\ NothingNew
<1>1. toStore' = <<>> /\ tokens' = {} /\ UNCHANGED <<rows, files>> /\ ServiceGone
  BY DEF WholeCrash
<1>2. toStore' \in Seq(Operations) /\ DOMAIN toStore' = {} /\ files' \in Seq(Outputs)
  BY <1>1 DEF TypeOK
<1> QED BY <1>1, <1>2, ServiceGoneKeeps

-----------------------------------------------------------------------------
(* The operations of the store and what their callers do next. *)

\* A record is deleted.
LEMMA RecordDeleted ==
    ASSUME TypeOK, NEW id, DeleteRecord(id)
    PROVE  /\ rows' \in Seq(Records) /\ tokens' \subseteq tokens
           /\ \A k \in DOMAIN rows' : Named(rows'[k].req, rows'[k].id)
<1>1. tokens' \subseteq tokens
  BY DEF DeleteRecord
<1>2. CASE UNCHANGED rows
  BY <1>1, <1>2, UnchangedNames DEF TypeOK
<1>3. ASSUME NEW l \in DOMAIN rows, rows' = RemoveAt(rows, l)
      PROVE  /\ rows' \in Seq(Records)
             /\ \A k \in DOMAIN rows' : Named(rows'[k].req, rows'[k].id)
  <2>1. PICK s \in Seq(Records) : s = rows
    BY DEF TypeOK
  <2>2. /\ RemoveAt(s, l) \in Seq(Records) /\ DOMAIN RemoveAt(s, l) = 1 .. Len(s) - 1
        /\ \A k \in 1 .. Len(s) - 1 : Shift(l, k) \in DOMAIN s \ {l} /\ RemoveAt(s, l)[k] = s[Shift(l, k)]
    <3>1. l \in DOMAIN s
      BY <1>3, <2>1
    <3>2. s \in Seq(Records)
      OBVIOUS
    <3> QED BY ONLY <3>1, <3>2, RemoveAtProperties
  <2>3. \A k \in DOMAIN rows' : Shift(l, k) \in DOMAIN rows /\ rows'[k] = rows[Shift(l, k)]
    BY <1>3, <2>1, <2>2
  <2>4. \A k \in DOMAIN rows' : Named(rows'[k].req, rows'[k].id)
    BY <2>3, OwnNames
  <2> QED BY <1>3, <2>1, <2>2, <2>4
<1> QED BY <1>1, <1>2, <1>3 DEF DeleteRecord

\* An output path is recorded.
LEMMA OutputPathRecorded ==
    ASSUME TypeOK, NEW op \in Operations,
           rows' = [i \in DOMAIN rows |->
                       IF rows[i].id = op.id THEN [rows[i] EXCEPT !.out = op.out] ELSE rows[i]]
    PROVE  rows' \in Seq(Records) /\ \A k \in DOMAIN rows' : Named(rows'[k].req, rows'[k].id)
<1>1. rows \in Seq(Records) /\ DOMAIN rows = 1 .. Len(rows) /\ Len(rows) \in Nat
  BY LenProperties DEF TypeOK
<1>2. op.out \in Nat
  BY DEF Operations
<1>3. \A k \in DOMAIN rows : rows[k] \in Records
  BY <1>1
<1>4. \A k \in DOMAIN rows : /\ [rows[k] EXCEPT !.out = op.out] \in Records
                             /\ [rows[k] EXCEPT !.out = op.out].req = rows[k].req
                             /\ [rows[k] EXCEPT !.out = op.out].id = rows[k].id
  BY <1>2, <1>3 DEF Records
<1>5. DOMAIN rows' = DOMAIN rows /\ \A k \in DOMAIN rows : rows'[k] \in {[rows[k] EXCEPT !.out = op.out], rows[k]}
  OBVIOUS
<1>6. \A k \in DOMAIN rows' : rows'[k] \in Records /\ rows'[k].req = rows[k].req /\ rows'[k].id = rows[k].id
  BY <1>3, <1>4, <1>5
<1>7. rows' \in [1 .. Len(rows) -> Records]
  BY <1>1, <1>5, <1>6
<1>8. rows' \in Seq(Records)
  BY <1>1, <1>7
<1> QED BY <1>5, <1>6, <1>8, OwnNames

\* updateOutputPath has answered.
LEMMA OutputRecordedKeeps ==
    ASSUME TypeOK, NEW id, OutputRecorded(id)
    PROVE  EncodersKept
<1>1. encoders \in Seq(EncoderStates) /\ DOMAIN encoders = 1 .. Len(encoders) /\ Len(encoders) \in Nat
  BY LenProperties DEF TypeOK
<1>2. \A k \in DOMAIN encoders : encoders[k] \in EncoderStates
  BY EncoderParts
<1>3. \A k \in DOMAIN encoders : /\ [encoders[k] EXCEPT !.step = "spawning"] \in EncoderStates
                                 /\ [encoders[k] EXCEPT !.step = "spawning"].req = encoders[k].req
                                 /\ [encoders[k] EXCEPT !.step = "spawning"].id = encoders[k].id
  BY <1>2 DEF EncoderStates, QueuedSteps
<1>4. /\ DOMAIN encoders' = DOMAIN encoders
      /\ \A k \in DOMAIN encoders :
            \/ encoders'[k] = encoders[k]
            \/ encoders[k].step = "starting" /\ encoders'[k] = [encoders[k] EXCEPT !.step = "spawning"]
  BY DEF OutputRecorded
<1>5. \A k \in DOMAIN encoders' : /\ encoders'[k] \in EncoderStates
                                  /\ encoders'[k].req = encoders[k].req /\ encoders'[k].id = encoders[k].id
  <2> SUFFICES ASSUME NEW k \in DOMAIN encoders
               PROVE  /\ encoders'[k] \in EncoderStates
                      /\ encoders'[k].req = encoders[k].req /\ encoders'[k].id = encoders[k].id
    BY <1>4
  <2>1. CASE encoders'[k] = encoders[k]
    BY <1>2, <2>1
  <2>2. CASE encoders'[k] = [encoders[k] EXCEPT !.step = "spawning"]
    BY ONLY <1>3, <2>2, k \in DOMAIN encoders
  <2> QED BY <1>4, <2>1, <2>2
<1>6. encoders' \in Seq(EncoderStates)
  BY <1>1, <1>4, <1>5 DEF OutputRecorded
<1>7. \A k \in Queued' : k \in Queued /\ encoders'[k].req = encoders[k].req
  BY <1>4, QueuedByStep, <1>5 DEF QueuedSteps
<1>8. OneJobPerRequest => OneJobPerRequest'
  BY <1>7 DEF OneJobPerRequest
<1> QED BY <1>4, <1>5, <1>6, <1>7, <1>8 DEF EncodersKept

\* What the caller of a removal or of an output path does next.
LEMMA ReturnedKeeps ==
    ASSUME TypeOK, QueueInv, NEW op \in Operations, Returned(op)
    PROVE  /\ EncodersKept /\ UNCHANGED <<restoring, todo, listed, job>>
           /\ admit' \in [Requests -> Admissions]
           /\ \A s \in Requests : admit'[s] = admit[s] \/ (admit'[s].step = "none" /\ admit[s].step # "adding")
           /\ checks' \in Nat /\ timer' \in BOOLEAN /\ suspended' \in BOOLEAN /\ leases' \in Int
<1>1. /\ admit \in [Requests -> Admissions] /\ checks \in Nat /\ timer \in BOOLEAN /\ suspended \in BOOLEAN
      /\ leases \in Int /\ op.req \in Requests
  BY DEF TypeOK, Operations
<1>2. CASE op.op = "output" /\ op.by = "encoder"
  BY <1>2, OutputRecordedKeeps, <1>1 DEF Returned, OutputRecorded, wake, restoration
<1>3. CASE op.op = "remove" /\ op.by = "encoder"
  <2>1. EncoderDone(op.id)
    BY <1>3 DEF Returned
  <2>2. PICK i \in DOMAIN encoders :
           /\ WithoutEncoder(i) /\ leases' = leases - 1
           /\ IF encoders[i].wakes THEN Emit(1, Cardinality(Waiting)) ELSE UNCHANGED wake
           /\ UNCHANGED <<admit, restoration, job>>
    BY <2>1 DEF EncoderDone
  <2>3. EncodersKept
    BY <2>2, EncoderGoneKeeps
  <2>4. leases' \in Int
    BY <1>1, <2>2
  <2>5. checks' \in Nat /\ timer' \in BOOLEAN /\ suspended' \in BOOLEAN
    BY <2>2, EmitTypes, Counts, <1>1 DEF wake
  <2> QED BY <1>1, <2>2, <2>3, <2>4, <2>5 DEF restoration
<1>4. CASE op.op = "remove" /\ op.by = "admit"
  <2>1. op.req \in FromRecording /\ RejectionDone(op.req)
    BY <1>4 DEF Returned, Operations
  <2>2. admit[op.req].step # "adding"
    BY <1>1, <2>1 DEF QueueInv, OneAdd
  <2>3. Idle \in Admissions /\ Idle.step = "none" /\ admit' = [admit EXCEPT ![op.req] = Idle]
    BY <2>1 DEF Idle, Admissions, RejectionDone
  <2>4. /\ admit' \in [Requests -> Admissions]
        /\ \A s \in Requests : admit'[s] = admit[s] \/ (admit'[s].step = "none" /\ admit[s].step # "adding")
    BY <1>1, <2>2, <2>3
  <2>5. EncodersKept
    BY <2>1, EncodersUnchanged DEF RejectionDone
  <2> QED BY <1>1, <2>1, <2>4, <2>5 DEF RejectionDone, wake, restoration
<1>5. CASE /\ ~(op.op = "output" /\ op.by = "encoder") /\ ~(op.op = "remove" /\ op.by = "encoder")
           /\ ~(op.op = "remove" /\ op.by = "admit")
  BY <1>5, EncodersUnchanged, <1>1 DEF Returned, NobodyWaits, wake, restoration
<1> QED BY <1>2, <1>3, <1>4, <1>5

\* The oldest operation leaves the queue of the store.
LEMMA AddsAfterTail ==
    ASSUME TypeOK, QueueInv, toStore # <<>>, toStore' = Tail(toStore), JobsKept,
           \A r \in Requests : admit[r].step = "adding" /\ ~(Head(toStore).op = "add" /\ Head(toStore).req = r)
                                  => admit'[r].step = "adding"
    PROVE  /\ AddsKept(1) /\ toStore' \in Seq(Operations)
           /\ \A i \in DOMAIN toStore' : toStore'[i].op = "add" =>
                 ~(Head(toStore).op = "add" /\ Head(toStore).req = toStore'[i].req)
<1>1. /\ toStore' \in Seq(Operations) /\ Head(toStore) = toStore[1] /\ Len(toStore) \in Nat \ {0}
      /\ DOMAIN toStore = 1 .. Len(toStore) /\ DOMAIN toStore' = 1 .. Len(toStore) - 1
      /\ \A k \in 1 .. Len(toStore) - 1 : toStore'[k] = toStore[k + 1]
  BY TailTypes
<1>2. \A k \in DOMAIN toStore' : k + 1 \in DOMAIN toStore /\ k + 1 # 1 /\ toStore'[k] = toStore[k + 1] /\ 1 \in DOMAIN toStore
  BY <1>1
<1>3. ASSUME NEW k \in DOMAIN toStore', toStore'[k].op = "add"
      PROVE  /\ k + 1 \in DOMAIN toStore /\ toStore[k + 1].op = "add" /\ toStore[k + 1].req = toStore'[k].req
             /\ IF toStore'[k].by = "admit" THEN admit'[toStore'[k].req].step = "adding"
                ELSE job'[toStore'[k].req] = "over"
             /\ ~(Head(toStore).op = "add" /\ Head(toStore).req = toStore'[k].req)
  <2>1. k + 1 \in DOMAIN toStore /\ k + 1 # 1 /\ toStore'[k] = toStore[k + 1] /\ 1 \in DOMAIN toStore
    BY <1>2
  <2>2. toStore[k + 1].op = "add" /\ toStore[k + 1].req \in Requests
    BY <1>3, <2>1, OperationParts
  <2>3. IF toStore[k + 1].by = "admit" THEN admit[toStore[k + 1].req].step = "adding"
        ELSE job[toStore[k + 1].req] = "over"
    BY <2>1, <2>2 DEF QueueInv, OneAdd
  <2>4. ~(Head(toStore).op = "add" /\ Head(toStore).req = toStore'[k].req)
    BY <1>1, <2>1, <2>2 DEF QueueInv, OneAdd
  <2>5. IF toStore'[k].by = "admit" THEN admit'[toStore'[k].req].step = "adding"
        ELSE job'[toStore'[k].req] = "over"
    BY <2>1, <2>2, <2>3, <2>4 DEF JobsKept
  <2> QED BY <2>1, <2>2, <2>4, <2>5
<1>4. AddsKept(1)
  BY <1>3 DEF AddsKept
<1> QED BY <1>1, <1>3, <1>4

\* The records that a restoration has listed.
LEMMA ListedTypes ==
    ASSUME TypeOK, Listed
    PROVE  /\ todo' \in Seq(Records) /\ listed' \subseteq Ids
           /\ \A k \in DOMAIN todo' : Named(todo'[k].req, todo'[k].id)
<1>1. rows \in Seq(Records) /\ DOMAIN rows = 1 .. Len(rows) /\ Len(rows) \in Nat
  BY LenProperties DEF TypeOK
<1>2. \A k \in DOMAIN rows : rows[k] \in Records
  BY <1>1
<1>3. todo' \in [DOMAIN rows -> Range(rows)]
  BY DEF Listed, ListedRecords
<1>4. \A record \in Range(rows) : record \in Records /\ Named(record.req, record.id)
  BY <1>2, OwnNames DEF Range
<1>5. todo' \in [1 .. Len(rows) -> Records]
  BY <1>1, <1>3, <1>4
<1>6. todo' \in Seq(Records)
  BY <1>1, <1>5
<1>7. \A k \in DOMAIN todo' : Named(todo'[k].req, todo'[k].id)
  BY <1>3, <1>4
<1>8. listed' \subseteq Ids
  BY <1>2 DEF RowIds, Records, Listed, TypeOK
<1> QED BY <1>6, <1>7, <1>8

\* An operation other than `add` is done and answered, or fails.
LEMMA OperationEnds ==
    ASSUME TypeOK, QueueInv, NEW d \in {0, 1}, AddsKept(d), toStore' \in Seq(Operations),
           rows' \in Seq(Records), \A k \in DOMAIN rows' : Named(rows'[k].req, rows'[k].id),
           tokens' \subseteq tokens,
           restoring' \in {"off", "listing", "restoring", "retry"}, todo' \in Seq(Records), listed' \subseteq Ids,
           \A k \in DOMAIN todo' : Named(todo'[k].req, todo'[k].id),
           EncodersKept, UNCHANGED <<job, toService, up, sources, files>>, faults' \in [Kinds -> Nat],
           admit' \in [Requests -> Admissions],
           \A s \in Requests : admit'[s] = admit[s] \/ (admit'[s].step = "none" /\ admit[s].step # "adding"),
           checks' \in Nat, timer' \in BOOLEAN, suspended' \in BOOLEAN, leases' \in Int
    PROVE  TypeOK' /\ QueueInv' /\ NothingNew
<1>1. TypeOK'
  BY DEF TypeOK, EncodersKept, Kinds
<1>2. NamesKept
  BY OwnNames, EncodeAssumption, UnchangedNames DEF NamesKept
<1>3. JobsKept
  BY DEF JobsKept
<1>4. QueuesKept
  BY EncodeAssumption, QueuesKeptBy
<1>5. AdmissionsOK(admit', job')
  BY DEF AdmissionsOK, QueueInv, OneAdd
<1> QED BY <1>1, <1>2, <1>3, <1>4, <1>5, StepKeepsQueues

\* A record is added: for an admission that waits for it, or for nobody.
LEMMA RecordStored ==
    ASSUME TypeOK, QueueInv, toStore # <<>>, toStore' = Tail(toStore), UNCHANGED <<toService, up, disk, faults>>,
           NEW op, op = Head(toStore), op.op = "add", NEW id \in Ids, AddRecord(op.req, id),
           tokens' = tokens \cup {[req |-> op.req, id |-> id]},
           IF op.by = "admit" THEN AddAnswered(op.req, id) ELSE NobodyWaits
    PROVE  TypeOK' /\ QueueInv' /\ OneNew(op.req, id)
<1>1. /\ op \in Operations /\ op = toStore[1] /\ 1 \in DOMAIN toStore
  BY TailTypes
<1>2. PICK r \in Requests : r = op.req
  BY <1>1 DEF Operations
<1>3. /\ r \notin FromRecording /\ \A a \in Nat : ~Named(r, a)
      /\ IF op.by = "admit" THEN admit[r].step = "adding" ELSE job[r] = "over"
  BY <1>1, <1>2 DEF QueueInv, OneAdd
<1>4. /\ rows' \in Seq(Records) /\ tokens' \subseteq [req : Requests, id : Ids]
      /\ \A k \in DOMAIN rows' : \/ k \in DOMAIN rows /\ rows'[k] = rows[k]
                                 \/ rows'[k].req = r /\ rows'[k].id = id
  BY SMTT(30), <1>2, RecordAdded DEF TypeOK
<1>5. id \in Nat
  BY DEF Ids
<1>6. CASE op.by = "admit"
  <2>1. /\ Enqueue(r, id) /\ job' = [job EXCEPT ![r] = "open"]
        /\ UNCHANGED <<leases, restoring, todo, listed>>
    BY <1>2, <1>6 DEF AddAnswered, restoration
  <2>2. /\ encoders' \in Seq(EncoderStates) /\ admit' \in [Requests -> Admissions]
        /\ checks' \in Nat /\ timer' \in BOOLEAN /\ suspended' \in BOOLEAN
        /\ admit'[r].step = "none" /\ \A s \in Requests : s # r => admit'[s] = admit[s]
    BY <1>5, <2>1, EnqueueTypes
  <2>3. /\ job' \in [Requests -> {"new", "open", "over"}] /\ job'[r] = "open"
        /\ \A s \in Requests : s # r => job'[s] = job[s]
    BY <2>1 DEF TypeOK
  <2>4. JobsKept
    BY <1>3, <1>6, <2>3 DEF QueueInv, OneAdd, JobsKept
  <2>5. /\ AddsKept(1) /\ toStore' \in Seq(Operations)
        /\ \A i \in DOMAIN toStore' : toStore'[i].op = "add" => toStore'[i].req # r
    BY <1>2, <2>2, <2>4, AddsAfterTail
  <2>6. TypeOK'
    BY <1>4, <2>1, <2>2, <2>3, <2>5 DEF TypeOK, disk
  <2>7. NamesAdded(r, id)
    <3>1. \A k \in DOMAIN encoders' :
             Named(encoders'[k].req, encoders'[k].id) \/ (encoders'[k].req = r /\ encoders'[k].id = id)
      BY <1>5, <2>1, EncoderAppended, OwnNames DEF Enqueue
    <3>2. \A s \in FromRecording : admit'[s].step # "none" => Named(s, admit'[s].id)
      BY <1>3, <2>2, OwnNames, EncodeAssumption
    <3>3. \A k \in DOMAIN rows' : Named(rows'[k].req, rows'[k].id) \/ (rows'[k].req = r /\ rows'[k].id = id)
      BY <1>4, OwnNames
    <3> QED BY <2>1, <3>1, <3>2, <3>3, UnchangedNames DEF NamesAdded
  <2>8. QueuesKept
    <3>1. \A k \in Queued : encoders[k].req # r
      BY <1>3, OwnNames, EncoderParts, QueuedByStep
    <3> QED BY <1>5, <2>1, <3>1, EnqueueKeeps
  <2>9. AdmissionsOK(admit', job')
    BY <2>2, <2>3 DEF AdmissionsOK, QueueInv, OneAdd
  <2> QED BY <1>2, <1>3, <1>5, <2>3, <2>4, <2>5, <2>6, <2>7, <2>8, <2>9, StepAddsName
<1>7. CASE op.by # "admit"
  <2>1. UNCHANGED <<admit, encoders, lock, checks, suspended, timer, leases, restoring, todo, listed, job>>
    BY <1>7 DEF NobodyWaits, wake, restoration
  <2>2. EncodersKept
    BY <2>1, EncodersUnchanged
  <2>3. JobsKept
    BY <2>1 DEF JobsKept
  <2>4. /\ AddsKept(1) /\ toStore' \in Seq(Operations)
        /\ \A i \in DOMAIN toStore' : toStore'[i].op = "add" => toStore'[i].req # r
    BY <1>2, <2>1, <2>3, AddsAfterTail
  <2>5. TypeOK'
    BY <1>4, <2>1, <2>4 DEF TypeOK, disk
  <2>6. NamesAdded(r, id)
    BY <1>4, OwnNames, <2>1, <2>2, UnchangedNames DEF NamesAdded
  <2>7. QueuesKept
    BY <2>1, <2>2, QueuesKeptBy
  <2>8. AdmissionsOK(admit', job')
    BY <2>1 DEF AdmissionsOK, QueueInv, OneAdd
  <2>9. job'[r] # "new"
    BY <1>3, <1>7, <2>1
  <2> QED BY <1>2, <1>3, <1>5, <2>3, <2>4, <2>5, <2>6, <2>7, <2>8, <2>9, StepAddsName
<1> QED BY <1>6, <1>7

LEMMA StoreStepKeeps ==
    ASSUME TypeOK, QueueInv, StoreStep
    PROVE  TypeOK' /\ QueueInv' /\ (Head(toStore).op = "add" \/ NothingNew)
<1>1. PICK op : op = Head(toStore)
  OBVIOUS
<1>2. toStore # <<>> /\ toStore' = Tail(toStore) /\ UNCHANGED <<toService, up, disk, faults>>
  BY DEF StoreStep
<1>3. op \in Operations /\ faults' \in [Kinds -> Nat] /\ UNCHANGED <<sources, files>>
  BY <1>1, <1>2, TailTypes DEF TypeOK, Kinds, disk
<1>4. CASE op.op = "add"
  BY <1>1, <1>4, <1>2, RecordStored DEF StoreStep
<1>5. ASSUME op.op # "add", JobsKept,
             \A s \in Requests : admit'[s] = admit[s] \/ (admit'[s].step = "none" /\ admit[s].step # "adding")
      PROVE  AddsKept(1) /\ toStore' \in Seq(Operations)
  BY <1>5, <1>2, AddsAfterTail
<1>6. ASSUME NobodyWaits
      PROVE  /\ EncodersKept /\ UNCHANGED <<restoring, todo, listed, job>>
             /\ admit' \in [Requests -> Admissions] /\ admit' = admit
             /\ checks' \in Nat /\ timer' \in BOOLEAN /\ suspended' \in BOOLEAN /\ leases' \in Int
  BY <1>6, EncodersUnchanged DEF NobodyWaits, TypeOK, wake, restoration
<1>7. ASSUME UNCHANGED <<restoring, todo, listed>>
      PROVE  /\ restoring' \in {"off", "listing", "restoring", "retry"} /\ todo' \in Seq(Records)
             /\ listed' \subseteq Ids /\ \A k \in DOMAIN todo' : Named(todo'[k].req, todo'[k].id)
  BY <1>7, UnchangedNames DEF TypeOK
<1>8. ASSUME UNCHANGED store
      PROVE  /\ rows' \in Seq(Records) /\ tokens' \subseteq tokens
             /\ \A k \in DOMAIN rows' : Named(rows'[k].req, rows'[k].id)
  BY <1>8, UnchangedNames DEF TypeOK, store
<1>9. CASE op.op = "abandon"
  <2>1. NobodyWaits /\ (UNCHANGED store \/ \E id : DeleteRecord(id))
    BY <1>1, <1>9 DEF StoreStep
  <2>2. /\ rows' \in Seq(Records) /\ tokens' \subseteq tokens
        /\ \A k \in DOMAIN rows' : Named(rows'[k].req, rows'[k].id)
    BY <1>8, <2>1, RecordDeleted
  <2>3. JobsKept
    BY <1>6, <2>1 DEF JobsKept
  <2> QED BY <1>2, <1>3, <1>5, <1>6, <1>7, <1>9, <2>1, <2>2, <2>3, OperationEnds
<1>10. CASE op.op = "output" \/ op.op = "remove"
  <2>1. Returned(op)
    BY <1>1, <1>10 DEF StoreStep
  <2>2. /\ EncodersKept /\ UNCHANGED <<restoring, todo, listed, job>>
        /\ admit' \in [Requests -> Admissions]
        /\ \A s \in Requests : admit'[s] = admit[s] \/ (admit'[s].step = "none" /\ admit[s].step # "adding")
        /\ checks' \in Nat /\ timer' \in BOOLEAN /\ suspended' \in BOOLEAN /\ leases' \in Int
    BY <1>3, <2>1, ReturnedKeeps
  <2>3. /\ rows' \in Seq(Records) /\ tokens' \subseteq tokens
        /\ \A k \in DOMAIN rows' : Named(rows'[k].req, rows'[k].id)
    BY <1>1, <1>3, OutputPathRecorded, RecordDeleted, <1>10 DEF StoreStep
  <2>4. JobsKept
    BY <2>2 DEF JobsKept
  <2>5. AddsKept(1) /\ toStore' \in Seq(Operations)
    BY <1>5, <1>10, <2>2, <2>4
  <2> QED BY <1>2, <1>3, <1>7, <2>2, <2>3, <2>5, OperationEnds
<1>11. CASE op.op = "list"
  <2>1. UNCHANGED store /\ IF op.by = "restore" THEN Listed ELSE NobodyWaits
    BY <1>1, <1>11 DEF StoreStep
  <2>2. CASE Listed
    <3>1. /\ todo' \in Seq(Records) /\ listed' \subseteq Ids
          /\ \A k \in DOMAIN todo' : Named(todo'[k].req, todo'[k].id)
      BY <2>2, ListedTypes
    <3>2. restoring' = "restoring" /\ UNCHANGED <<admit, encoders, lock, checks, suspended, timer, leases, job>>
      BY <2>2 DEF Listed, wake
    <3>3. EncodersKept /\ JobsKept
      BY <3>2, EncodersUnchanged DEF JobsKept
    <3>4. /\ admit' \in [Requests -> Admissions]
          /\ checks' \in Nat /\ timer' \in BOOLEAN /\ suspended' \in BOOLEAN /\ leases' \in Int
      BY <3>2 DEF TypeOK
    <3>5. AddsKept(1) /\ toStore' \in Seq(Operations)
      BY <1>5, <1>11, <3>2, <3>3
    <3> QED BY <1>2, <1>3, <1>8, <2>1, <3>1, <3>2, <3>3, <3>4, <3>5, OperationEnds
  <2>3. CASE NobodyWaits
    <3>1. JobsKept
      BY <1>6, <2>3 DEF JobsKept
    <3> QED BY <1>2, <1>3, <1>5, <1>6, <1>7, <1>8, <1>11, <2>1, <2>3, <3>1, OperationEnds
  <2> QED BY <2>1, <2>2, <2>3
<1> QED BY <1>1, <1>4, <1>9, <1>10, <1>11 DEF StoreStep

LEMMA RestTypes ==
    ASSUME TypeOK, NEW i \in DOMAIN toStore, NEW dropped \in BOOLEAN, dropped => i = 1, NEW rest,
           rest = Rest(i, dropped),
           NEW d \in {0, 1}, d = IF dropped THEN 1 ELSE 0
    PROVE  /\ rest \in Seq(Operations)
           /\ \A k \in DOMAIN rest :
                 /\ k + d \in DOMAIN toStore /\ rest[k].op = toStore[k + d].op /\ rest[k].req = toStore[k + d].req
                 /\ rest[k].id = toStore[k + d].id /\ rest[k].out = toStore[k + d].out
                 /\ rest[k].by = IF k + d = i THEN "nobody" ELSE toStore[k + d].by
<1>1. toStore \in Seq(Operations) /\ Len(toStore) \in Nat /\ DOMAIN toStore = 1 .. Len(toStore)
  BY LenProperties DEF TypeOK
<1>2. CASE dropped
  BY <1>1, <1>2, TailTypes DEF Rest
<1>3. CASE ~dropped
  <2>1. PICK e : e = [toStore[i] EXCEPT !.by = "nobody"]
    OBVIOUS
  <2>2. toStore[i] \in Operations
    BY OperationParts
  <2>3. /\ e \in Operations /\ e.op = toStore[i].op /\ e.req = toStore[i].req /\ e.by = "nobody"
        /\ e.id = toStore[i].id /\ e.out = toStore[i].out
    BY <2>1, <2>2 DEF Operations
  <2>4. rest = [toStore EXCEPT ![i] = e]
    BY <1>3, <2>1 DEF Rest
  <2>5. /\ rest \in Seq(Operations) /\ DOMAIN rest = DOMAIN toStore
        /\ \A k \in DOMAIN toStore : rest[k] = IF k = i THEN e ELSE toStore[k]
    BY <1>1, <2>3, <2>4, ExceptSeq
  <2>6. \A k \in DOMAIN rest : k + 0 = k
    BY <1>1, <2>5
  <2>7. \A k \in DOMAIN rest : /\ rest[k].op = toStore[k].op /\ rest[k].req = toStore[k].req
                               /\ rest[k].id = toStore[k].id /\ rest[k].out = toStore[k].out
                               /\ rest[k].by = IF k = i THEN "nobody" ELSE toStore[k].by
    BY <2>3, <2>5
  <2> QED BY <1>3, <2>5, <2>6, <2>7
<1> QED BY <1>2, <1>3

\* addRecord has failed: the request is over, and what it may have left is to be abandoned.
LEMMA AddFailedKeeps ==
    ASSUME TypeOK, QueueInv, NEW i \in DOMAIN toStore, NEW d \in {0, 1}, NEW rest \in Seq(Operations),
           \A k \in DOMAIN rest :
              /\ k + d \in DOMAIN toStore /\ rest[k].op = toStore[k + d].op /\ rest[k].req = toStore[k + d].req
              /\ rest[k].by = IF k + d = i THEN "nobody" ELSE toStore[k + d].by,
           toStore[i].op = "add", toStore[i].by = "admit", AddFailed(toStore[i].req, rest),
           faults' \in [Kinds -> Nat], UNCHANGED <<store, toService, up, disk>>
    PROVE  TypeOK' /\ QueueInv' /\ NothingNew
<1>1. PICK r \in Requests : r = toStore[i].req
  BY OperationParts
<1>2. r \notin FromRecording /\ admit[r].step = "adding"
  BY <1>1 DEF QueueInv, OneAdd
<1>3. PICK op : op = Op("abandon", 0, r, NoPath, "nobody")
  OBVIOUS
<1>4. op \in Operations /\ op.op = "abandon"
  BY <1>3 DEF Op, Operations, NoPath
<1>5. /\ toStore' = Append(rest, op) /\ admit' = [admit EXCEPT ![r] = Idle] /\ leases' = leases - 1
      /\ job' = [job EXCEPT ![r] = "over"] /\ UNCHANGED <<encoders, restoring, todo, listed, checks, suspended, timer>>
  BY <1>1, <1>3 DEF AddFailed, restoration, wake
<1>6. /\ toStore' \in Seq(Operations)
      /\ \A k \in DOMAIN toStore' : (k \in DOMAIN rest /\ toStore'[k] = rest[k]) \/ toStore'[k].op = "abandon"
  BY <1>4, <1>5, AppendProperties, LenProperties
<1>7. /\ admit' \in [Requests -> Admissions] /\ admit'[r].step = "none"
      /\ \A s \in Requests : s # r => admit'[s] = admit[s]
  BY <1>5 DEF Idle, Admissions, TypeOK
<1>8. /\ job' \in [Requests -> {"new", "open", "over"}] /\ job'[r] = "over"
      /\ \A s \in Requests : s # r => job'[s] = job[s]
  BY <1>5 DEF TypeOK
<1>9. leases' \in Int
  BY <1>5 DEF TypeOK
<1>10. TypeOK'
  BY <1>5, <1>6, <1>7, <1>8, <1>9 DEF TypeOK, store, disk, Kinds
<1>11. EncodersKept
  BY <1>5, EncodersUnchanged
<1>12. NamesKept
  <2>1. \A s \in FromRecording : admit'[s] = admit[s]
    BY <1>2, <1>7, EncodeAssumption
  <2> QED BY <1>5, <1>11, <2>1, OwnNames, UnchangedNames DEF NamesKept, store
<1>13. JobsKept
  BY <1>8 DEF JobsKept
<1>14. AddsKept(d)
  <2> SUFFICES ASSUME NEW k \in DOMAIN toStore', toStore'[k].op = "add"
               PROVE  /\ k + d \in DOMAIN toStore /\ toStore[k + d].op = "add"
                      /\ toStore[k + d].req = toStore'[k].req
                      /\ IF toStore'[k].by = "admit" THEN admit'[toStore'[k].req].step = "adding"
                         ELSE job'[toStore'[k].req] = "over"
    BY DEF AddsKept
  <2>1. /\ k + d \in DOMAIN toStore /\ toStore[k + d].op = "add" /\ toStore[k + d].req = toStore'[k].req
        /\ toStore'[k].by = IF k + d = i THEN "nobody" ELSE toStore[k + d].by
    BY <1>6
  <2>2. CASE k + d = i
    BY <1>1, <1>8, <2>1, <2>2
  <2>3. CASE k + d # i
    <3>1. toStore[k + d].req # r /\ toStore[k + d].req \in Requests
      BY <1>1, <2>1, <2>3, OperationParts DEF QueueInv, OneAdd
    <3>2. IF toStore[k + d].by = "admit" THEN admit[toStore[k + d].req].step = "adding"
          ELSE job[toStore[k + d].req] = "over"
      BY <2>1 DEF QueueInv, OneAdd
    <3> QED BY <1>7, <1>8, <2>1, <2>3, <3>1, <3>2
  <2> QED BY <2>2, <2>3
<1>15. QueuesKept
  BY <1>2, <1>7, EncodeAssumption, <1>11, QueuesKeptBy
<1>16. AdmissionsOK(admit', job')
  BY <1>7, <1>8 DEF AdmissionsOK, QueueInv, OneAdd
<1> QED BY <1>10, <1>12, <1>13, <1>14, <1>15, <1>16, StepKeepsQueues

LEMMA CallFailsKeeps ==
    ASSUME TypeOK, QueueInv, NEW i \in DOMAIN toStore, NEW dropped \in BOOLEAN, CallFails(i, dropped)
    PROVE  TypeOK' /\ QueueInv' /\ NothingNew
<1>1. PICK op : op = toStore[i]
  OBVIOUS
<1>2. PICK rest : rest = Rest(i, dropped)
  OBVIOUS
<1>3. PICK d \in {0, 1} : d = IF dropped THEN 1 ELSE 0
  OBVIOUS
<1>4. /\ dropped => i = 1
      /\ UNCHANGED <<store, toService, up, disk>>
  BY DEF CallFails
<1>5. faults' \in [Kinds -> Nat]
  BY FaultTypes, DisturbTypes DEF CallFails, Kinds
<1>6. /\ rest \in Seq(Operations)
      /\ \A k \in DOMAIN rest :
            /\ k + d \in DOMAIN toStore /\ rest[k].op = toStore[k + d].op /\ rest[k].req = toStore[k + d].req
            /\ rest[k].by = IF k + d = i THEN "nobody" ELSE toStore[k + d].by
  BY <1>2, <1>3, <1>4, RestTypes
<1>7. /\ rows' \in Seq(Records) /\ tokens' \subseteq tokens /\ UNCHANGED <<sources, files>>
      /\ \A k \in DOMAIN rows' : Named(rows'[k].req, rows'[k].id)
  BY <1>4, UnchangedNames DEF TypeOK, store, disk
<1>8. CASE op.op = "add" /\ op.by = "admit" /\ AddFailed(op.req, rest)
  BY <1>1, <1>4, <1>5, <1>6, <1>8, AddFailedKeeps
<1>9. ASSUME ~(op.op = "add" /\ op.by = "admit"), toStore' = rest, JobsKept,
             \A s \in Requests : admit'[s] = admit[s] \/ (admit'[s].step = "none" /\ admit[s].step # "adding")
      PROVE  AddsKept(d)
  <2> SUFFICES ASSUME NEW k \in DOMAIN rest, rest[k].op = "add"
               PROVE  /\ k + d \in DOMAIN toStore /\ toStore[k + d].op = "add"
                      /\ toStore[k + d].req = rest[k].req
                      /\ IF rest[k].by = "admit" THEN admit'[rest[k].req].step = "adding"
                         ELSE job'[rest[k].req] = "over"
    BY <1>9 DEF AddsKept
  <2>1. /\ k + d \in DOMAIN toStore /\ toStore[k + d].op = "add" /\ toStore[k + d].req = rest[k].req
        /\ toStore[k + d].req \in Requests
    BY <1>6, OperationParts
  <2>2. IF toStore[k + d].by = "admit" THEN admit[toStore[k + d].req].step = "adding"
        ELSE job[toStore[k + d].req] = "over"
    BY <2>1 DEF QueueInv, OneAdd
  <2>3. rest[k].by = "admit" <=> toStore[k + d].by = "admit"
    BY <1>1, <1>6, <1>9, <2>1
  <2> QED BY <1>9, <2>1, <2>2, <2>3 DEF JobsKept
<1>10. CASE op.op = "list" /\ ListFailed /\ toStore' = rest
  <2>1. /\ restoring' = "retry" /\ UNCHANGED <<todo, listed, admit, encoders, lock, checks, suspended, timer, leases, job>>
    BY <1>10 DEF ListFailed, wake
  <2>2. EncodersKept /\ JobsKept
    BY <2>1, EncodersUnchanged DEF JobsKept
  <2>3. AddsKept(d)
    BY <1>9, <1>10, <2>1, <2>2
  <2>4. /\ admit' \in [Requests -> Admissions] /\ todo' \in Seq(Records) /\ listed' \subseteq Ids
        /\ checks' \in Nat /\ timer' \in BOOLEAN /\ suspended' \in BOOLEAN /\ leases' \in Int
        /\ \A k \in DOMAIN todo' : Named(todo'[k].req, todo'[k].id)
    BY <2>1, UnchangedNames DEF TypeOK
  <2> QED BY <1>4, <1>5, <1>6, <1>7, <1>10, <2>1, <2>2, <2>3, <2>4, OperationEnds
<1>11. CASE ~(op.op = "add" /\ op.by = "admit") /\ Returned(op) /\ toStore' = rest
  <2>1. op \in Operations
    BY <1>1, OperationParts
  <2>2. /\ EncodersKept /\ UNCHANGED <<restoring, todo, listed, job>>
        /\ admit' \in [Requests -> Admissions]
        /\ \A s \in Requests : admit'[s] = admit[s] \/ (admit'[s].step = "none" /\ admit[s].step # "adding")
        /\ checks' \in Nat /\ timer' \in BOOLEAN /\ suspended' \in BOOLEAN /\ leases' \in Int
    BY <1>11, <2>1, ReturnedKeeps
  <2>3. AddsKept(d)
    BY <2>2, <1>9, <1>11 DEF JobsKept
  <2>4. /\ restoring' \in {"off", "listing", "restoring", "retry"} /\ todo' \in Seq(Records) /\ listed' \subseteq Ids
        /\ \A k \in DOMAIN todo' : Named(todo'[k].req, todo'[k].id)
    BY <2>2, UnchangedNames DEF TypeOK
  <2> QED BY <1>4, <1>5, <1>6, <1>7, <1>11, <2>2, <2>3, <2>4, OperationEnds
<1> QED BY <1>1, <1>2, <1>8, <1>10, <1>11 DEF CallFails, Rest

-----------------------------------------------------------------------------
(* The theorems about the queues. *)

LEMMA InitQueues == Init => QueueInv
<1> SUFFICES ASSUME Init PROVE QueueInv
  OBVIOUS
<1>1. /\ DOMAIN rows = {} /\ DOMAIN toService = {} /\ DOMAIN todo = {} /\ DOMAIN encoders = {} /\ DOMAIN toStore = {}
      /\ \A r \in Requests : admit[r].step = "none"
  BY DEF Init, Idle
<1>2. \A r \in Requests, a \in Nat : ~Named(r, a)
  BY <1>1 DEF Named
<1>3. Queued = {}
  BY <1>1, QueuedByStep
<1> QED BY <1>1, <1>2, <1>3 DEF QueueInv, OneName, OneAdd, AdmittedIsNotQueued, OneJobPerRequest

LEMMA NextKeeps ==
    ASSUME TypeOK, QueueInv, [Next]_vars
    PROVE  TypeOK' /\ QueueInv'
<1>1. CASE UNCHANGED vars
  <2>1. TypeOK'
    BY <1>1 DEF TypeOK, vars, store, restoration, wake, disk
  <2> QED BY <1>1, <2>1, QuietKeeps DEF vars, store, restoration
<1>2. ASSUME NEW r \in Requests, TakeLock(r) \/ Acquire(r) \/ PushEnter(r) \/ EnqueueFromRecording(r) \/ AcquireRefused(r)
      PROVE  TypeOK' /\ QueueInv'
  BY <1>2, TakeLockKeeps, AcquireKeeps, PushEnterKeeps, EnqueueFromRecordingKeeps, AcquireRefusedKeeps
<1>3. CASE HandOver \/ StoreStep \/ CheckQueue \/ TimerFires \/ SuspendEnds \/ SuspendBegins
  BY <1>3, HandOverKeeps, StoreStepKeeps, CheckQueueKeeps, TimerFiresKeeps, SuspendEndsKeeps, SuspendBeginsKeeps
<1>4. CASE ServiceStart \/ RetryList \/ RestoreNext \/ RestoreEnd \/ RestoreNextFails \/ WholeCrash
  BY <1>4, ServiceStartKeeps, RetryListKeeps, RestoreNextKeeps, RestoreEndKeeps, RestoreNextFailsKeeps, WholeCrashKeeps
<1>5. ASSUME NEW i \in DOMAIN encoders,
             \/ StartDone(i) \/ ExitWell(i) \/ ExitBadly(i) \/ Register(i, TRUE) \/ Register(i, FALSE)
             \/ DeleteOriginal(i) \/ Finalize(i) \/ ReleaseEncoder(i)
             \/ StartFails(i) \/ CancelRunning(i) \/ CancelWaiting(i)
      PROVE  TypeOK' /\ QueueInv'
  BY <1>5, StartDoneKeeps, ExitWellKeeps, ExitBadlyKeeps, RegisterKeeps, DeleteOriginalKeeps, FinalizeKeeps,
     ReleaseEncoderKeeps, StartFailsKeeps, CancelWaitingKeeps DEF CancelRunning
<1>6. ASSUME NEW i \in DOMAIN toStore, NEW dropped \in BOOLEAN, CallFails(i, dropped)
      PROVE  TypeOK' /\ QueueInv'
  BY <1>6, CallFailsKeeps
<1>7. ASSUME NEW n \in 0 .. Len(toStore), ServiceCrash(n)
      PROVE  TypeOK' /\ QueueInv'
  BY <1>7, ServiceCrashKeeps
<1> QED BY <1>1, <1>2, <1>3, <1>4, <1>5, <1>6, <1>7 DEF Next, Progress, Environment

\* Whatever calls fail and whenever the processes die, the queues, the tables, the messages and
\* the operations under way hold what they are declared to hold.
THEOREM TypeCorrect == Spec => []TypeOK
<1>1. Init => TypeOK /\ QueueInv
  BY InitTypes, InitQueues
<1>2. TypeOK /\ QueueInv /\ [Next]_vars => TypeOK' /\ QueueInv'
  BY NextKeeps
<1> QED BY <1>1, <1>2, PTL DEF Spec

\* restore(), the pushEncode messages and the retries of the restoration bring the same record
\* more than once: it is never queued twice (isEncodeIdInUse).
THEOREM OneJob == Spec => []OneJobPerRequest
<1>1. Init => TypeOK /\ QueueInv
  BY InitTypes, InitQueues
<1>2. TypeOK /\ QueueInv /\ [Next]_vars => TypeOK' /\ QueueInv'
  BY NextKeeps
<1>3. QueueInv => OneJobPerRequest
  BY DEF QueueInv
<1> QED BY <1>1, <1>2, <1>3, PTL DEF Spec

-----------------------------------------------------------------------------
(* The order of the list. *)

\* Ascending lists each element of a finite set of numbers once.
LEMMA AscendingList ==
    ASSUME NEW S \in SUBSET Nat, IsFiniteSet(S)
    PROVE  /\ Cardinality(S) \in Nat
           /\ Ascending(S) \in [1 .. Cardinality(S) -> S]
           /\ \A i, j \in 1 .. Cardinality(S) : Ascending(S)[i] = Ascending(S)[j] => i = j
           /\ \A x \in S : \E i \in 1 .. Cardinality(S) : Ascending(S)[i] = x
           /\ \A i \in 1 .. Cardinality(S) : Cardinality({y \in S : y <= Ascending(S)[i]}) = i
<1> DEFINE Upto(x) == {y \in S : y <= x}
           n == Cardinality(S)
           rank == [x \in S |-> Cardinality(Upto(x))]
<1>1. n \in Nat
  BY FS_CardinalityType
<1>2. \A x \in S : IsFiniteSet(Upto(x)) /\ Cardinality(Upto(x)) \in 1 .. n
  BY FS_Subset, FS_CardinalityType, FS_EmptySet, <1>1
<1>3. rank \in Injection(S, 1 .. n)
  <2>1. rank \in [S -> 1 .. n]
    BY <1>2
  <2>2. ASSUME NEW x \in S, NEW y \in S, x < y
        PROVE  rank[x] # rank[y]
    <3>1. Upto(x) \subseteq Upto(y) /\ Upto(x) # Upto(y)
      <4>1. y \in Upto(y) /\ y \notin Upto(x)
        BY <2>2
      <4>2. Upto(x) \subseteq Upto(y)
        <5>1. \A z \in S : z \in Nat /\ x \in Nat /\ y \in Nat
          OBVIOUS
        <5>2. \A z \in S : z <= x => z <= y
          BY <2>2, <5>1
        <5> QED BY <5>2
      <4> QED BY <4>1, <4>2
    <3>2. Cardinality(Upto(x)) = Cardinality(Upto(y)) => Upto(x) = Upto(y)
      BY <1>2, <3>1, FS_Subset
    <3> QED BY <3>1, <3>2
  <2>3. ASSUME NEW x \in S, NEW y \in S, rank[x] = rank[y]
        PROVE  x = y
    BY <2>2, <2>3
  <2> HIDE DEF rank
  <2> QED BY <2>1, <2>3 DEF Injection, IsInjective
<1>4. rank \in Surjection(S, 1 .. n)
  BY <1>1, FS_Interval, <1>3, FS_Injection
<1>5. \A i \in 1 .. n : \E x \in S : Cardinality(Upto(x)) = i
  BY <1>4 DEF Surjection
<1>6. \A i \in 1 .. n : Ascending(S)[i] \in S /\ Cardinality(Upto(Ascending(S)[i])) = i
  BY <1>5 DEF Ascending
<1>7. \A x \in S : Ascending(S)[Cardinality(Upto(x))] = x
  <2> SUFFICES ASSUME NEW x \in S PROVE Ascending(S)[Cardinality(Upto(x))] = x
    OBVIOUS
  <2> DEFINE z == Ascending(S)[Cardinality(Upto(x))]
  <2>1. Cardinality(Upto(x)) \in 1 .. n
    BY <1>2
  <2>2. z \in S /\ Cardinality(Upto(z)) = Cardinality(Upto(x))
    BY <1>6, <2>1
  <2>3. rank[z] = rank[x]
    BY <2>2
  <2> HIDE DEF z, rank
  <2> QED BY <1>3, <2>2, <2>3 DEF Injection, IsInjective, z
<1>8. Ascending(S) \in [1 .. n -> S]
  BY <1>6 DEF Ascending
<1> QED BY <1>1, <1>2, <1>6, <1>7, <1>8

\* A finite set of integers between two bounds has a greatest one, which Max finds.
LEMMA MaxIsGreatest ==
    ASSUME NEW T \in SUBSET Int, T # {}, NEW b \in Int, \A x \in T : x <= b
    PROVE  Max(T) \in T /\ \A x \in T : x <= Max(T)
<1> DEFINE D == {n \in Nat : \E x \in T : n = b - x}
<1>1. \A x \in T : b - x \in D
  OBVIOUS
<1>2. D \in SUBSET Nat /\ D # {}
  BY <1>1
<1>3. Min(D) \in D /\ \A n \in D : Min(D) <= n
  BY <1>2, MinIsLeast
<1>4. PICK x \in T : Min(D) = b - x
  BY <1>3
<1>5. \A y \in T : x >= y
  BY <1>1, <1>3, <1>4
<1> QED BY <1>5 DEF Max

\* orderByAcceptance turns the list round: it holds each id once.
LEMMA OrderIsComplete ==
    ASSUME NEW S \in SUBSET Ids
    PROVE  /\ IsFiniteSet(S) /\ Cardinality(S) \in Nat
           /\ OrderByAcceptance(S) \in [1 .. Cardinality(S) -> S]
           /\ \A i, j \in 1 .. Cardinality(S) : OrderByAcceptance(S)[i] = OrderByAcceptance(S)[j] => i = j
<1> DEFINE sorted == Ascending(S)
           n == Cardinality(S)
           gaps == {GapBefore(sorted, i) : i \in 1 .. Len(sorted)}
           largest == Max(gaps)
           starts == {i \in 1 .. Len(sorted) : GapBefore(sorted, i) = largest}
           start == Min(starts)
           order == SubSeq(sorted, start, Len(sorted)) \o SubSeq(sorted, 1, start - 1)
<1>1. MaxId \in Nat /\ S \in SUBSET Nat /\ \A x \in S : x \in Nat /\ 1 <= x /\ x <= MaxId
  BY EncodeAssumption DEF Ids
<1>2. IsFiniteSet(S)
  <2>1. IsFiniteSet(1 .. MaxId)
    BY <1>1, FS_Interval
  <2> QED BY <2>1, FS_Subset DEF Ids
<1>3. /\ n \in Nat /\ sorted \in [1 .. n -> S]
      /\ \A i, j \in 1 .. n : sorted[i] = sorted[j] => i = j
  BY <1>1, <1>2, AscendingList
<1> HIDE DEF sorted, n
<1>4. sorted \in Seq(S) /\ Len(sorted) = n
  BY <1>3
<1>5. ASSUME n > 1
      PROVE  start \in 1 .. n
  <2>1. \A i \in 1 .. n : GapBefore(sorted, i) \in Int /\ GapBefore(sorted, i) <= MaxId + MaxId
    <3> SUFFICES ASSUME NEW i \in 1 .. n
                 PROVE  GapBefore(sorted, i) \in Int /\ GapBefore(sorted, i) <= MaxId + MaxId
      OBVIOUS
    <3>1. \A k \in 1 .. n : sorted[k] \in Nat /\ 1 <= sorted[k] /\ sorted[k] <= MaxId
      BY <1>1, <1>3
    <3>2. Last(sorted) = sorted[n]
      BY <1>4 DEF Last
    <3>3. n \in 1 .. n /\ 1 \in 1 .. n /\ (i # 1 => i - 1 \in 1 .. n)
      BY <1>3, <1>5
    <3> QED BY <1>1, <3>1, <3>2, <3>3 DEF GapBefore
  <2>2. gaps \in SUBSET Int /\ gaps # {} /\ \A x \in gaps : x <= MaxId + MaxId
    BY <1>3, <1>5, <1>4, <2>1
  <2>3. largest \in gaps
    <3>1. MaxId + MaxId \in Int
      BY <1>1
    <3> HIDE DEF gaps
    <3> QED BY <2>2, <3>1, MaxIsGreatest
  <2>4. starts \in SUBSET Nat /\ starts # {}
    <3>1. PICK i \in 1 .. Len(sorted) : GapBefore(sorted, i) = largest
      BY <2>3
    <3>2. i \in starts
      BY <3>1
    <3>3. starts \in SUBSET Nat
      OBVIOUS
    <3> QED BY <3>2, <3>3
  <2>5. start \in starts
    BY <2>4, MinIsLeast
  <2> QED BY <1>4, <2>5
<1>6. ASSUME n > 1
      PROVE  /\ order \in [1 .. n -> S]
             /\ \A i, j \in 1 .. n : order[i] = order[j] => i = j
  <2> DEFINE At(i) == IF i <= n - start + 1 THEN start + i - 1 ELSE i - (n - start + 1)
  <2>1. start \in Nat /\ 1 <= start /\ start <= n
    BY <1>3, <1>5, <1>6
  <2> HIDE DEF start
  <2>2. /\ SubSeq(sorted, start, n) \in Seq(S) /\ Len(SubSeq(sorted, start, n)) = n - start + 1
        /\ \A i \in 1 .. n - start + 1 : SubSeq(sorted, start, n)[i] = sorted[start + i - 1]
    BY <1>3, <1>4, <2>1, SubSeqProperties
  <2>3. /\ SubSeq(sorted, 1, start - 1) \in Seq(S) /\ Len(SubSeq(sorted, 1, start - 1)) = start - 1
        /\ \A i \in 1 .. start - 1 : SubSeq(sorted, 1, start - 1)[i] = sorted[i]
    BY <1>3, <1>4, <2>1, SubSeqProperties
  <2>4. order = SubSeq(sorted, start, n) \o SubSeq(sorted, 1, start - 1)
    BY <1>4
  <2> DEFINE one == SubSeq(sorted, start, n)
             two == SubSeq(sorted, 1, start - 1)
  <2>5. /\ order \in Seq(S) /\ Len(order) = n
        /\ \A i \in 1 .. n : order[i] = IF i <= n - start + 1 THEN one[i] ELSE two[i - (n - start + 1)]
    <3>1. one \in Seq(S) /\ two \in Seq(S) /\ Len(one) = n - start + 1 /\ Len(two) = start - 1
      BY <2>2, <2>3
    <3> HIDE DEF order, one, two
    <3>2. order = one \o two
      BY <2>4 DEF one, two
    <3>3. order \in Seq(S) /\ Len(order) = Len(one) + Len(two)
          /\ \A i \in 1 .. Len(one) + Len(two) : order[i] = IF i <= Len(one) THEN one[i] ELSE two[i - Len(one)]
      BY <3>1, <3>2, ConcatProperties
    <3>4. (n - start + 1) + (start - 1) = n
      BY <1>3, <2>1
    <3> QED BY <3>1, <3>3, <3>4
  <2>6. \A i \in 1 .. n : At(i) \in 1 .. n /\ order[i] = sorted[At(i)]
    <3> SUFFICES ASSUME NEW i \in 1 .. n PROVE At(i) \in 1 .. n /\ order[i] = sorted[At(i)]
      OBVIOUS
    <3>1. At(i) \in 1 .. n
      BY <1>3, <2>1
    <3>2. CASE i <= n - start + 1
      <4>1. i \in 1 .. n - start + 1
        BY <1>3, <2>1, <3>2
      <4>2. order[i] = one[i] /\ one[i] = sorted[start + i - 1]
        BY <2>2, <2>5, <3>2, <4>1
      <4> HIDE DEF order, one
      <4> QED BY <3>1, <3>2, <4>2
    <3>3. CASE ~(i <= n - start + 1)
      <4>1. i - (n - start + 1) \in 1 .. start - 1
        BY <1>3, <2>1, <3>3
      <4>2. order[i] = two[i - (n - start + 1)] /\ two[i - (n - start + 1)] = sorted[i - (n - start + 1)]
        BY <2>3, <2>5, <3>3, <4>1
      <4> HIDE DEF order, two
      <4> QED BY <3>1, <3>3, <4>2
    <3> QED BY <3>2, <3>3
  <2>7. \A i, j \in 1 .. n : At(i) = At(j) => i = j
    BY <1>3, <2>1
  <2> HIDE DEF order, At
  <2>8. order \in [1 .. n -> S]
    BY <1>3, <2>5
  <2> QED BY <1>3, <2>6, <2>7, <2>8
<1>7. OrderByAcceptance(S) = IF Len(sorted) <= 1 THEN sorted ELSE order
  BY DEF OrderByAcceptance, sorted
<1>8. n <= 1 \/ n > 1
  BY <1>3
<1> QED BY <1>2, <1>3, <1>4, <1>6, <1>7, <1>8 DEF n

-----------------------------------------------------------------------------
(* The encoders and their outputs. *)

LEMMA FitsAhead ==
    ASSUME NEW d, NEW e, NEW fs, Fits(d, fs), Ahead(d, e)
    PROVE  Fits(e, fs)
  BY DEF Fits, Ahead

LEMMA SameGoOn ==
    ASSUME UNCHANGED encoders
    PROVE  EncodersGoOn
<1> DEFINE old == [k \in DOMAIN encoders' |-> k]
<1>1. old \in [DOMAIN encoders' -> DOMAIN encoders] /\ \A k \in DOMAIN encoders' : old[k] = k
  OBVIOUS
<1>2. \A k \in DOMAIN encoders' : Ahead(encoders[k], encoders'[k])
  BY DEF Ahead
<1> HIDE DEF old
<1> QED BY <1>1, <1>2 DEF EncodersGoOn

LEMMA StepGoesOn ==
    ASSUME TypeOK, NEW i \in DOMAIN encoders, NEW e, EncoderSteps(i, e), Ahead(encoders[i], e)
    PROVE  EncodersGoOn /\ DOMAIN encoders' = DOMAIN encoders
<1>1. encoders \in Seq(EncoderStates) /\ e \in EncoderStates
  BY DEF TypeOK, EncoderSteps
<1>2. /\ DOMAIN encoders' = DOMAIN encoders
      /\ \A k \in DOMAIN encoders : encoders'[k] = IF k = i THEN e ELSE encoders[k]
  BY <1>1, EncoderChanges DEF EncoderSteps
<1> DEFINE old == [k \in DOMAIN encoders' |-> k]
<1>3. old \in [DOMAIN encoders' -> DOMAIN encoders] /\ \A k \in DOMAIN encoders' : old[k] = k
  BY <1>2
<1>4. \A k \in DOMAIN encoders' : Ahead(encoders[k], encoders'[k])
  BY <1>2 DEF Ahead
<1> HIDE DEF old
<1> QED BY <1>2, <1>3, <1>4 DEF EncodersGoOn

LEMMA GoneGoesOn ==
    ASSUME TypeOK, NEW i \in DOMAIN encoders, WithoutEncoder(i)
    PROVE  EncodersGoOn
<1>1. encoders \in Seq(EncoderStates) /\ DOMAIN encoders = 1 .. Len(encoders)
  BY LenProperties DEF TypeOK
<1>2. encoders' = RemoveAt(encoders, i)
  BY DEF WithoutEncoder
<1>3. /\ DOMAIN encoders' = 1 .. Len(encoders) - 1
      /\ \A k \in DOMAIN encoders' : Shift(i, k) \in DOMAIN encoders /\ encoders'[k] = encoders[Shift(i, k)]
      /\ \A k, l \in DOMAIN encoders' : Shift(i, k) = Shift(i, l) => k = l
  <2>1. /\ DOMAIN RemoveAt(encoders, i) = 1 .. Len(encoders) - 1
        /\ \A k \in 1 .. Len(encoders) - 1 : /\ Shift(i, k) \in DOMAIN encoders \ {i}
                                             /\ RemoveAt(encoders, i)[k] = encoders[Shift(i, k)]
        /\ \A k, l \in 1 .. Len(encoders) - 1 : Shift(i, k) = Shift(i, l) => k = l
    BY <1>1, EncodersShrink
  <2> QED BY <1>2, <2>1
<1> DEFINE old == [k \in DOMAIN encoders' |-> Shift(i, k)]
<1>4. old \in [DOMAIN encoders' -> DOMAIN encoders] /\ \A k \in DOMAIN encoders' : old[k] = Shift(i, k)
  BY <1>3
<1>5. \A k \in DOMAIN encoders' : Ahead(encoders[old[k]], encoders'[k])
  BY <1>3, <1>4 DEF Ahead
<1> HIDE DEF old
<1> QED BY <1>3, <1>4, <1>5 DEF EncodersGoOn

LEMMA MovedGoesOn ==
    ASSUME TypeOK, NEW i \in DOMAIN encoders, NEW e \in EncoderStates,
           encoders' = Append(RemoveAt(encoders, i), e), Ahead(encoders[i], e)
    PROVE  EncodersGoOn
<1>1. encoders \in Seq(EncoderStates) /\ DOMAIN encoders = 1 .. Len(encoders) /\ Len(encoders) \in Nat
  BY LenProperties DEF TypeOK
<1>2. /\ DOMAIN encoders' = DOMAIN encoders
      /\ \A k \in DOMAIN encoders : encoders'[k] = IF k = Len(encoders) THEN e ELSE encoders[Shift(i, k)]
  BY <1>1, EncodersMove
<1> DEFINE Old(k) == IF k = Len(encoders) THEN i ELSE Shift(i, k)
           old == [k \in DOMAIN encoders' |-> Old(k)]
<1>7. \A k \in DOMAIN encoders : Old(k) \in DOMAIN encoders
  BY <1>1 DEF Shift
<1>8. \A k, l \in DOMAIN encoders : Old(k) = Old(l) => k = l
  BY <1>1 DEF Shift
<1>3. old \in [DOMAIN encoders' -> DOMAIN encoders]
  BY <1>2, <1>7
<1>4. \A k \in DOMAIN encoders' : old[k] = IF k = Len(encoders) THEN i ELSE Shift(i, k)
  OBVIOUS
<1> HIDE DEF old
<1>5. \A k, l \in DOMAIN encoders' : old[k] = old[l] => k = l
  BY <1>2, <1>4, <1>8
<1>6. \A k \in DOMAIN encoders' : Ahead(encoders[old[k]], encoders'[k])
  BY <1>2, <1>4 DEF Ahead
<1> QED BY <1>3, <1>5, <1>6 DEF EncodersGoOn

LEMMA RecordedGoesOn ==
    ASSUME TypeOK, NEW id, OutputRecorded(id)
    PROVE  /\ EncodersGoOn /\ DOMAIN encoders' = DOMAIN encoders
           /\ \A k \in DOMAIN encoders : /\ Ahead(encoders[k], encoders'[k])
                                         /\ encoders[k].id # id => encoders'[k] = encoders[k]
                                         /\ encoders[k].step # "starting" => encoders'[k] = encoders[k]
<1>1. /\ DOMAIN encoders' = DOMAIN encoders
      /\ \A k \in DOMAIN encoders :
            encoders'[k] = IF encoders[k].id = id /\ encoders[k].step = "starting"
                           THEN [encoders[k] EXCEPT !.step = "spawning"] ELSE encoders[k]
  BY DEF OutputRecorded
<1>2. \A k \in DOMAIN encoders : encoders[k] \in EncoderStates
  BY EncoderParts
<1>3. \A e \in EncoderStates : /\ [e EXCEPT !.step = "spawning"].id = e.id /\ [e EXCEPT !.step = "spawning"].req = e.req
                               /\ [e EXCEPT !.step = "spawning"].file = e.file
                               /\ [e EXCEPT !.step = "spawning"].settle = e.settle
                               /\ [e EXCEPT !.step = "spawning"].step = "spawning"
  BY DEF EncoderStates
<1>4. \A k \in DOMAIN encoders : /\ Ahead(encoders[k], encoders'[k])
                                 /\ encoders[k].id # id => encoders'[k] = encoders[k]
                                 /\ encoders[k].step # "starting" => encoders'[k] = encoders[k]
  <2> SUFFICES ASSUME NEW k \in DOMAIN encoders
               PROVE  /\ Ahead(encoders[k], encoders'[k])
                      /\ encoders[k].id # id => encoders'[k] = encoders[k]
                      /\ encoders[k].step # "starting" => encoders'[k] = encoders[k]
    OBVIOUS
  <2>1. CASE encoders[k].id = id /\ encoders[k].step = "starting"
    <3>1. encoders'[k] = [encoders[k] EXCEPT !.step = "spawning"]
      BY <1>1, <2>1
    <3>2. encoders[k] \in EncoderStates
      BY <1>2
    <3> QED BY <1>3, <2>1, <3>1, <3>2 DEF Ahead
  <2>2. CASE ~(encoders[k].id = id /\ encoders[k].step = "starting")
    BY <1>1, <2>2 DEF Ahead
  <2> QED BY <2>1, <2>2
<1> DEFINE old == [k \in DOMAIN encoders' |-> k]
<1>5. old \in [DOMAIN encoders' -> DOMAIN encoders] /\ \A k \in DOMAIN encoders' : old[k] = k
  BY <1>1
<1> HIDE DEF old
<1> QED BY <1>1, <1>4, <1>5 DEF EncodersGoOn

\* Whatever goes on so keeps its output, and none is shared.
LEMMA EncodersFitOn ==
    ASSUME EncoderInv, EncodersGoOn, UNCHANGED files
    PROVE  EncoderInv'
  BY FitsAhead DEF EncodersGoOn, EncoderInv, Ahead

LEMMA TodosApartOn ==
    ASSUME TodoInv, EncodersGoOn, \A k \in DOMAIN todo' : \E l \in DOMAIN todo : todo[l].out = todo'[k].out
    PROVE  TodoInv'
  BY DEF EncodersGoOn, Ahead, TodoInv

\* Only one encoder and its output change.
LEMMA OneEncoderFits ==
    ASSUME TypeOK, EncoderInv, NEW i \in DOMAIN encoders, NEW e, EncoderSteps(i, e),
           e.file = encoders[i].file, Fits(e, files'), DOMAIN files' = DOMAIN files,
           \A f \in DOMAIN files : f # encoders[i].file => files'[f] = files[f]
    PROVE  EncoderInv'
<1>1. encoders \in Seq(EncoderStates) /\ e \in EncoderStates
  BY DEF TypeOK, EncoderSteps
<1>2. /\ DOMAIN encoders' = DOMAIN encoders
      /\ \A k \in DOMAIN encoders : encoders'[k] = IF k = i THEN e ELSE encoders[k]
  BY <1>1, EncoderChanges DEF EncoderSteps
<1>3. ASSUME NEW k \in DOMAIN encoders, k # i
      PROVE  Fits(encoders[k], files')
  BY <1>3 DEF EncoderInv, Fits
<1>4. \A k \in DOMAIN encoders' : Fits(encoders'[k], files')
  BY <1>2, <1>3
<1>5. \A k \in DOMAIN encoders : encoders'[k].file = encoders[k].file
  BY <1>2
<1> QED BY <1>2, <1>4, <1>5 DEF EncoderInv

\* An encoder without an output is appended.
LEMMA FreshEncoderFits ==
    ASSUME TypeOK, EncoderInv, TodoInv, NEW id, NEW r, encoders' = Append(encoders, NewEncoder(id, r)),
           \A k \in DOMAIN encoders : Fits(encoders[k], files'),
           \A k \in DOMAIN todo' : \E l \in DOMAIN todo : todo[l].out = todo'[k].out
    PROVE  EncoderInv' /\ TodoInv'
<1>1. encoders \in Seq(EncoderStates) /\ DOMAIN encoders = 1 .. Len(encoders) /\ Len(encoders) \in Nat
  BY LenProperties DEF TypeOK
<1> DEFINE e == NewEncoder(id, r)
<1>2. e.step = "wait" /\ e.file = NoPath /\ e.settle = "none"
  BY DEF NewEncoder
<1> HIDE DEF e
<1>3. encoders' = Append(encoders, e)
  BY DEF e
<1>4. /\ DOMAIN encoders' = 1 .. Len(encoders) + 1
      /\ \A k \in DOMAIN encoders : encoders'[k] = encoders[k]
      /\ encoders'[Len(encoders) + 1] = e
  BY <1>1, <1>3
<1>5. \A k \in DOMAIN encoders' : (k \in DOMAIN encoders /\ encoders'[k] = encoders[k]) \/ encoders'[k].file = NoPath
  BY <1>1, <1>2, <1>4
<1>6. \A k \in DOMAIN encoders' : Fits(encoders'[k], files')
  BY <1>2, <1>1, <1>4 DEF Fits
<1> QED BY <1>5, <1>6 DEF EncoderInv, TodoInv

-----------------------------------------------------------------------------
(* The phases of the service, the paths and what is kept. *)

\* Who works is a service that is up and through with its list.
LEMMA BusyIsUp ==
    ASSUME PhaseInv, encoders # <<>> \/ todo # <<>> \/ \E r \in Requests : admit[r].step # "none"
    PROVE  up /\ restoring # "listing" /\ \A i \in DOMAIN toStore : ~IsList(toStore[i])
  BY DEF PhaseInv, Nothing

LEMMA PhaseWhileBusy ==
    ASSUME PhaseInv, up, restoring # "listing", up', restoring' \notin {"listing", "retry"},
           \A i \in DOMAIN toStore' : (i \in DOMAIN toStore /\ toStore'[i] = toStore[i]) \/ ~IsList(toStore'[i])
    PROVE  PhaseInv'
  BY DEF PhaseInv, IsList

LEMMA PhaseHolds ==
    ASSUME TypeOK, TypeOK', PhaseInv, NEW d \in {0, 1}, OperationsLeft(d),
           UNCHANGED <<up, restoring, listed>>, encoders = <<>> => encoders' = <<>>, todo = <<>> => todo' = <<>>,
           \A r \in Requests : admit[r].step = "none" => admit'[r].step = "none",
           ~up => UNCHANGED toService
    PROVE  PhaseInv'
<1>1. Nothing => Nothing'
  BY DEF Nothing
<1>2. DOMAIN toStore' \subseteq Nat
  <2>1. toStore' \in Seq(Operations)
    BY DEF TypeOK
  <2>2. DOMAIN toStore' = 1 .. Len(toStore') /\ Len(toStore') \in Nat
    BY <2>1, LenProperties
  <2> QED BY <2>2
<1>3. \A i \in DOMAIN toStore' : IsList(toStore'[i]) => i + d \in DOMAIN toStore /\ IsList(toStore[i + d])
  BY DEF OperationsLeft, IsList
<1>4. \A i, j \in DOMAIN toStore' : IsList(toStore'[i]) /\ IsList(toStore'[j]) => i = j
  BY <1>3, <1>2 DEF PhaseInv
<1>5. ~up => \A i \in DOMAIN toStore' : toStore'[i].by = "nobody"
  BY DEF PhaseInv, OperationsLeft
<1>6. \A i \in DOMAIN toStore' : IsList(toStore'[i]) => restoring' = "listing"
  BY <1>3 DEF PhaseInv
<1>7. ~up' => /\ Nothing' /\ restoring' = "off" /\ toService' = <<>> /\ listed' = {}
              /\ \A i \in DOMAIN toStore' : toStore'[i].by = "nobody"
  BY <1>1, <1>5 DEF PhaseInv
<1>8. (restoring' = "listing" => Nothing') /\ restoring' # "retry"
  BY <1>1 DEF PhaseInv
<1> HIDE DEF OperationsLeft, Nothing
<1> QED BY <1>4, <1>6, <1>7, <1>8 DEF PhaseInv, IsList

LEMMA PathsHold ==
    ASSUME PathInv, DOMAIN files \subseteq DOMAIN files',
           UNCHANGED rows \/ \A k \in DOMAIN rows' : IsPath(rows'[k].out, files'),
           UNCHANGED todo \/ \A k \in DOMAIN todo' : IsPath(todo'[k].out, files'),
           UNCHANGED toStore \/ \A k \in DOMAIN toStore' : IsPath(toStore'[k].out, files')
    PROVE  PathInv'
  BY DEF IsPath, PathInv

\* An operation is sent.
LEMMA SentPaths ==
    ASSUME TypeOK, PathInv, NEW op \in Operations, Send(op), IsPath(op.out, files'),
           DOMAIN files \subseteq DOMAIN files'
    PROVE  /\ \A k \in DOMAIN toStore' : IsPath(toStore'[k].out, files')
           /\ \A i \in DOMAIN toStore' : (i \in DOMAIN toStore /\ toStore'[i] = toStore[i]) \/ toStore'[i] = op
  BY SendTypes DEF IsPath, PathInv

LEMMA KeptHolds ==
    ASSUME KeptInv, FilesGoOn, UNCHANGED sources
    PROVE  KeptInv'
  BY DEF FilesGoOn, KeptInv

\* No output, no original, no row and no record of a list changes.
LEMMA OutputsHold ==
    ASSUME OutputInv, PhaseInv', EncodersGoOn, UNCHANGED <<rows, todo, files, sources>>,
           UNCHANGED toStore \/ \A k \in DOMAIN toStore' : IsPath(toStore'[k].out, files)
    PROVE  OutputInv'
  BY PathsHold, EncodersFitOn, TodosApartOn, KeptHolds DEF OutputInv, FilesGoOn

-----------------------------------------------------------------------------
(* The steps keep the outputs. *)

\* An encoder that is there belongs to a service that is up and through with its list.
LEMMA EncoderIsBusy ==
    ASSUME TypeOK, OutputInv, NEW i \in DOMAIN encoders
    PROVE  /\ up /\ restoring \notin {"listing", "retry"} /\ Fits(encoders[i], files) /\ encoders[i] \in EncoderStates
           /\ \A j \in DOMAIN toStore : ~IsList(toStore[j])
  BY BusyIsUp, EncoderParts DEF OutputInv, EncoderInv, PhaseInv

\* A step of one encoder that keeps its output, and of that output alone.
LEMMA OutputStepHolds ==
    ASSUME TypeOK, OutputInv, NEW i \in DOMAIN encoders, NEW e, EncoderSteps(i, e),
           e.file = encoders[i].file, Fits(e, files'), FilesGoOn, DOMAIN files' = DOMAIN files,
           \A f \in DOMAIN files : f # encoders[i].file => files'[f] = files[f],
           UNCHANGED <<rows, todo, toStore, toService, up, restoring, sources>>
    PROVE  OutputInv'
<1>1. PhaseInv'
  BY EncoderIsBusy, PhaseWhileBusy DEF OutputInv
<1>2. EncoderInv'
  BY OneEncoderFits DEF OutputInv
<1>3. TodoInv'
  <2>1. encoders \in Seq(EncoderStates) /\ e \in EncoderStates
    BY DEF TypeOK, EncoderSteps
  <2>2. /\ DOMAIN encoders' = DOMAIN encoders
        /\ \A k \in DOMAIN encoders : encoders'[k] = IF k = i THEN e ELSE encoders[k]
    BY <2>1, EncoderChanges DEF EncoderSteps
  <2>3. \A k \in DOMAIN encoders' : k \in DOMAIN encoders /\ encoders'[k].file = encoders[k].file
    BY <2>2
  <2> QED BY <2>3 DEF OutputInv, TodoInv
<1>4. PathInv' /\ KeptInv'
  BY PathsHold, KeptHolds DEF OutputInv
<1> QED BY <1>1, <1>2, <1>3, <1>4 DEF OutputInv

\* The outputs after the state of one of them has changed.
LEMMA StateOf ==
    ASSUME TypeOK, NEW x \in DOMAIN files, NEW st \in {"none", "partial", "whole"}, ~files[x].registered,
           files' = [files EXCEPT ![x].state = st]
    PROVE  /\ FilesGoOn /\ DOMAIN files' = DOMAIN files
           /\ \A f \in DOMAIN files : f # x => files'[f] = files[f]
           /\ files'[x].state = st /\ files'[x].req = files[x].req /\ ~files'[x].registered
<1>1. files \in Seq(Outputs)
  BY DEF TypeOK
<1>2. files[x] \in Outputs
  BY <1>1
<1> DEFINE o == [files[x] EXCEPT !.state = st]
<1>3. o \in Outputs /\ o.state = st /\ o.req = files[x].req /\ o.registered = files[x].registered
  BY <1>2 DEF Outputs
<1> HIDE DEF o
<1>4. files' = [files EXCEPT ![x] = o]
  BY DEF o
<1>5. /\ DOMAIN files' = DOMAIN files
      /\ \A f \in DOMAIN files : files'[f] = IF f = x THEN o ELSE files[f]
  BY <1>1, <1>3, <1>4, OutputChanges
<1> QED BY <1>3, <1>5 DEF FilesGoOn

LEMMA StartDoneOutputs ==
    ASSUME TypeOK, OutputInv, NEW i \in DOMAIN encoders, StartDone(i)
    PROVE  OutputInv'
<1> DEFINE e == [encoders[i] EXCEPT !.step = "started"]
           x == encoders[i].file
<1>1. EncoderSteps(i, e)
  BY StepOf DEF StartDone, QueuedSteps
<1>2. /\ Fits(encoders[i], files) /\ encoders[i] \in EncoderStates /\ encoders[i].step = "spawning"
      /\ files' = [files EXCEPT ![x].state = "partial"]
  BY EncoderIsBusy DEF StartDone
<1>3. e.step = "started" /\ e.file = x /\ e.req = encoders[i].req /\ e.settle = encoders[i].settle
  BY <1>2 DEF EncoderStates
<1>4. x # NoPath /\ x \in DOMAIN files /\ files[x].req = encoders[i].req /\ ~files[x].registered
      /\ encoders[i].settle = "none"
  BY <1>2 DEF Fits
<1>5. /\ FilesGoOn /\ DOMAIN files' = DOMAIN files
      /\ \A f \in DOMAIN files : f # x => files'[f] = files[f]
      /\ files'[x].req = files[x].req /\ ~files'[x].registered
  BY <1>2, <1>4, StateOf
<1>6. Fits(e, files')
  BY <1>3, <1>4, <1>5 DEF Fits
<1> HIDE DEF e
<1> QED BY <1>1, <1>3, <1>5, <1>6, OutputStepHolds DEF StartDone, store, restoration

\* The output keeps to itself while its encoder takes a step.
LEMMA QuietStepHolds ==
    ASSUME TypeOK, OutputInv, NEW i \in DOMAIN encoders, NEW e, EncoderSteps(i, e), Ahead(encoders[i], e),
           UNCHANGED <<rows, todo, toService, up, restoring, files, sources>>,
           UNCHANGED toStore \/ \E op \in Operations : Send(op) /\ op.out = NoPath /\ op.op # "list"
    PROVE  OutputInv'
<1>1. EncodersGoOn
  BY StepGoesOn
<1>2. CASE UNCHANGED toStore
  BY <1>2, EncoderIsBusy, PhaseWhileBusy, <1>1, OutputsHold DEF OutputInv
<1>3. ASSUME NEW op \in Operations, Send(op), op.out = NoPath, op.op # "list"
      PROVE  OutputInv'
  <2>1. /\ \A k \in DOMAIN toStore' : IsPath(toStore'[k].out, files)
        /\ \A j \in DOMAIN toStore' : (j \in DOMAIN toStore /\ toStore'[j] = toStore[j]) \/ toStore'[j] = op
    BY <1>3, SentPaths DEF OutputInv, IsPath
  <2>2. ~IsList(op)
    BY <1>3 DEF IsList
  <2>3. PhaseInv'
    BY <2>1, <2>2, EncoderIsBusy, PhaseWhileBusy DEF OutputInv
  <2> QED BY <1>1, <2>1, <2>3, OutputsHold
<1> QED BY <1>2, <1>3

LEMMA StartFailsOutputs ==
    ASSUME TypeOK, OutputInv, NEW i \in DOMAIN encoders, StartFails(i)
    PROVE  OutputInv'
<1> DEFINE e == [encoders[i] EXCEPT !.step = "startFailed", !.wakes = TRUE]
<1>1. encoders[i] \in EncoderStates /\ encoders[i].step = "spawning"
  BY EncoderParts DEF StartFails
<1>2. EncoderSteps(i, e)
  BY <1>1 DEF EncoderStates, QueuedSteps, StartFails, EncoderSteps
<1>3. Ahead(encoders[i], e)
  BY <1>1 DEF Ahead, EncoderStates
<1> HIDE DEF e
<1> QED BY <1>2, <1>3, QuietStepHolds DEF StartFails, store, restoration, disk

LEMMA FinalizeOutputs ==
    ASSUME TypeOK, OutputInv, NEW i \in DOMAIN encoders, Finalize(i)
    PROVE  OutputInv'
<1>1. encoders[i] \in EncoderStates /\ encoders[i].step \in {"exited", "startFailed"} /\ StepEncoder(i, "out")
  BY EncoderParts DEF Finalize
<1>2. EncoderSteps(i, [encoders[i] EXCEPT !.step = "out"])
  BY <1>1, StepOf DEF QueuedSteps
<1>3. Ahead(encoders[i], [encoders[i] EXCEPT !.step = "out"])
  BY <1>1 DEF Ahead, EncoderStates
<1> QED BY <1>2, <1>3, QuietStepHolds DEF Finalize, store, restoration, disk

LEMMA ReleaseEncoderOutputs ==
    ASSUME TypeOK, OutputInv, NEW i \in DOMAIN encoders, ReleaseEncoder(i)
    PROVE  OutputInv'
<1>1. /\ encoders[i] \in EncoderStates /\ encoders[i].step = "out" /\ encoders[i].settle = "none"
      /\ StepEncoder(i, "removing")
  BY EncoderParts DEF ReleaseEncoder
<1>2. EncoderSteps(i, [encoders[i] EXCEPT !.step = "removing"])
  BY <1>1, StepOf DEF QueuedSteps
<1>3. Ahead(encoders[i], [encoders[i] EXCEPT !.step = "removing"])
  BY <1>1 DEF Ahead, EncoderStates
<1>4. \E op \in Operations : Send(op) /\ op.out = NoPath /\ op.op # "list"
  <2> DEFINE op == Op("remove", encoders[i].id, encoders[i].req, NoPath, "encoder")
  <2>1. op \in Operations /\ op.out = NoPath /\ op.op # "list"
    BY EncoderParts DEF Op, Operations, NoPath
  <2>2. Send(op)
    BY DEF ReleaseEncoder
  <2> QED BY <2>1, <2>2
<1> QED BY <1>2, <1>3, <1>4, QuietStepHolds DEF ReleaseEncoder, store, restoration, disk

LEMMA CancelWaitingOutputs ==
    ASSUME TypeOK, OutputInv, NEW i \in DOMAIN encoders, CancelWaiting(i)
    PROVE  OutputInv'
<1> DEFINE e == [encoders[i] EXCEPT !.step = "removing", !.wakes = TRUE]
<1>1. encoders[i] \in EncoderStates /\ encoders[i].step = "wait"
  BY EncoderParts DEF CancelWaiting
<1>2. EncoderSteps(i, e)
  BY <1>1 DEF EncoderStates, QueuedSteps, CancelWaiting, EncoderSteps
<1>3. Ahead(encoders[i], e)
  BY <1>1 DEF Ahead, EncoderStates
<1>4. \E op \in Operations : Send(op) /\ op.out = NoPath /\ op.op # "list"
  <2> DEFINE op == Op("remove", encoders[i].id, encoders[i].req, NoPath, "encoder")
  <2>1. op \in Operations /\ op.out = NoPath /\ op.op # "list"
    BY EncoderParts DEF Op, Operations, NoPath
  <2>2. Send(op)
    BY DEF CancelWaiting
  <2> QED BY <2>1, <2>2
<1> HIDE DEF e
<1> QED BY <1>2, <1>3, <1>4, QuietStepHolds DEF CancelWaiting, store, restoration, disk

\* A conversion ends, well or badly: nothing is registered yet.
LEMMA ExitWellOutputs ==
    ASSUME TypeOK, OutputInv, NEW i \in DOMAIN encoders, ExitWell(i)
    PROVE  OutputInv'
<1> DEFINE settle == IF encoders[i].req \in RemoveOriginal /\ ~SourceStillQueued(i)
                     THEN "registerAndDelete" ELSE "register"
           e == [encoders[i] EXCEPT !.step = "exited", !.settle = settle]
           x == encoders[i].file
<1>1. /\ Fits(encoders[i], files) /\ encoders[i] \in EncoderStates /\ encoders[i].step = "started"
      /\ files' = [files EXCEPT ![x].state = "whole"]
  BY EncoderIsBusy DEF ExitWell
<1>2. settle \in {"register", "registerAndDelete"}
  OBVIOUS
<1>3. encoders' = [encoders EXCEPT ![i] = e]
  BY DEF ExitWell
<1> HIDE DEF settle
<1>4. e \in EncoderStates /\ e.step = "exited" /\ e.file = x /\ e.req = encoders[i].req /\ e.settle = settle
      /\ e.id = encoders[i].id
  BY <1>1, <1>2 DEF EncoderStates, QueuedSteps
<1>5. EncoderSteps(i, e)
  BY <1>1, <1>3, <1>4 DEF EncoderSteps, QueuedSteps
<1>6. x # NoPath /\ x \in DOMAIN files /\ files[x].req = encoders[i].req /\ ~files[x].registered
  BY <1>1 DEF Fits
<1>7. /\ FilesGoOn /\ DOMAIN files' = DOMAIN files
      /\ \A f \in DOMAIN files : f # x => files'[f] = files[f]
      /\ files'[x].state = "whole" /\ files'[x].req = files[x].req
  BY <1>1, <1>6, StateOf
<1>8. Fits(e, files')
  BY <1>2, <1>4, <1>6, <1>7 DEF Fits
<1> HIDE DEF e
<1> QED BY <1>4, <1>5, <1>7, <1>8, OutputStepHolds DEF ExitWell, store, restoration

LEMMA ExitBadlyOutputs ==
    ASSUME TypeOK, OutputInv, NEW i \in DOMAIN encoders, ExitBadly(i)
    PROVE  OutputInv'
<1> DEFINE e == [encoders[i] EXCEPT !.step = "exited"]
           x == encoders[i].file
<1>1. EncoderSteps(i, e)
  BY StepOf DEF ExitBadly, QueuedSteps
<1>2. /\ Fits(encoders[i], files) /\ encoders[i] \in EncoderStates /\ encoders[i].step = "started"
      /\ files' = [files EXCEPT ![x].state = "none"]
  BY EncoderIsBusy DEF ExitBadly
<1>3. e.step = "exited" /\ e.file = x /\ e.req = encoders[i].req /\ e.settle = encoders[i].settle
  BY <1>2 DEF EncoderStates
<1>4. x # NoPath /\ x \in DOMAIN files /\ files[x].req = encoders[i].req /\ ~files[x].registered
      /\ encoders[i].settle = "none"
  BY <1>2 DEF Fits
<1>5. /\ FilesGoOn /\ DOMAIN files' = DOMAIN files
      /\ \A f \in DOMAIN files : f # x => files'[f] = files[f]
      /\ files'[x].req = files[x].req
  BY <1>2, <1>4, StateOf
<1>6. Fits(e, files')
  BY <1>3, <1>4, <1>5 DEF Fits
<1> HIDE DEF e
<1> QED BY <1>1, <1>3, <1>5, <1>6, OutputStepHolds DEF ExitBadly, store, restoration

\* The output is registered, or its registration fails.
LEMMA RegisterOutputs ==
    ASSUME TypeOK, OutputInv, NEW i \in DOMAIN encoders, NEW ok \in BOOLEAN, Register(i, ok)
    PROVE  OutputInv'
<1> DEFINE settle == IF ok /\ encoders[i].settle = "registerAndDelete" THEN "delete" ELSE "none"
           e == [encoders[i] EXCEPT !.settle = settle]
           x == encoders[i].file
<1>1. /\ Fits(encoders[i], files) /\ encoders[i] \in EncoderStates
      /\ encoders[i].settle \in {"register", "registerAndDelete"}
      /\ IF ok THEN files' = [files EXCEPT ![x].registered = TRUE] ELSE UNCHANGED files
  BY EncoderIsBusy DEF Register
<1>2. settle \in {"none", "delete"} /\ (settle = "delete" => ok)
  OBVIOUS
<1>3. EncoderSteps(i, e)
  BY <1>2, SettleOf DEF Register
<1> HIDE DEF settle
<1>4. e.step = encoders[i].step /\ e.file = x /\ e.req = encoders[i].req /\ e.settle = settle
  BY <1>1, <1>2 DEF EncoderStates
<1>5. /\ x # NoPath /\ x \in DOMAIN files /\ files[x].req = encoders[i].req /\ files[x].state = "whole"
      /\ encoders[i].step \in {"exited", "out"}
  BY <1>1 DEF Fits
<1>6. /\ DOMAIN files' = DOMAIN files
      /\ \A f \in DOMAIN files : f # x => files'[f] = files[f]
      /\ files'[x].req = files[x].req /\ files'[x].state = files[x].state
      /\ files'[x].registered = IF ok THEN TRUE ELSE files[x].registered
  <2>1. CASE ~ok
    BY <1>1, <2>1
  <2>2. CASE ok
    <3>1. files \in Seq(Outputs)
      BY DEF TypeOK
    <3>2. files[x] \in Outputs
      BY <1>5, <3>1
    <3> DEFINE o == [files[x] EXCEPT !.registered = TRUE]
    <3>3. o \in Outputs /\ o.state = files[x].state /\ o.req = files[x].req /\ o.registered = TRUE
      BY <3>2 DEF Outputs
    <3> HIDE DEF o
    <3>4. files' = [files EXCEPT ![x] = o]
      BY <1>1, <2>2 DEF o
    <3>5. /\ DOMAIN files' = DOMAIN files
          /\ \A f \in DOMAIN files : files'[f] = IF f = x THEN o ELSE files[f]
      BY <3>1, <3>3, <3>4, OutputChanges
    <3> QED BY <1>5, <2>2, <3>3, <3>5
  <2> QED BY <2>1, <2>2
<1>7. Fits(e, files')
  BY <1>2, <1>4, <1>5, <1>6 DEF Fits
<1> HIDE DEF e
<1>8. UNCHANGED <<rows, todo, toStore, toService, up, restoring, sources>>
  BY DEF Register, store, restoration
<1>9. PhaseInv'
  BY <1>8, EncoderIsBusy, PhaseWhileBusy DEF OutputInv
<1>10. EncoderInv'
  BY <1>3, <1>4, <1>6, <1>7, OneEncoderFits DEF OutputInv
<1>11. TodoInv'
  <2>1. encoders \in Seq(EncoderStates) /\ e \in EncoderStates
    BY <1>3 DEF TypeOK, EncoderSteps
  <2>2. /\ DOMAIN encoders' = DOMAIN encoders
        /\ \A k \in DOMAIN encoders : encoders'[k] = IF k = i THEN e ELSE encoders[k]
    BY <1>3, <2>1, EncoderChanges DEF EncoderSteps
  <2>3. \A k \in DOMAIN encoders' : k \in DOMAIN encoders /\ encoders'[k].file = encoders[k].file
    BY <1>4, <2>2
  <2> QED BY <1>8, <2>3 DEF OutputInv, TodoInv
<1>12. PathInv'
  BY <1>6, <1>8, PathsHold DEF OutputInv
<1>13. KeptInv'
  <2>1. \A f \in DOMAIN files' : files'[f].registered => files'[f].state = "whole"
    BY <1>5, <1>6 DEF OutputInv, KeptInv
  <2>2. \A f \in DOMAIN files : files[f].registered => files'[f].registered /\ files'[f].req = files[f].req
    BY <1>6
  <2>3. \A s \in Sources \ sources' :
            \E f \in DOMAIN files' : files'[f].registered /\ SourceOf[files'[f].req] = s
    BY <1>6, <1>8, <2>2 DEF OutputInv, KeptInv
  <2> QED BY <2>1, <2>3 DEF KeptInv
<1> QED BY <1>9, <1>10, <1>11, <1>12, <1>13 DEF OutputInv

\* The original is deleted once its conversion is registered.
LEMMA DeleteOriginalOutputs ==
    ASSUME TypeOK, OutputInv, NEW i \in DOMAIN encoders, DeleteOriginal(i)
    PROVE  OutputInv'
<1> DEFINE e == [encoders[i] EXCEPT !.settle = "none"]
<1>1. /\ Fits(encoders[i], files) /\ encoders[i] \in EncoderStates /\ encoders[i].settle = "delete"
      /\ sources' = sources \ {SourceOf[encoders[i].req]}
  BY EncoderIsBusy DEF DeleteOriginal
<1>2. EncoderSteps(i, e)
  BY SettleOf DEF DeleteOriginal
<1>3. e.step = encoders[i].step /\ e.file = encoders[i].file /\ e.req = encoders[i].req /\ e.settle = "none"
  BY <1>1 DEF EncoderStates
<1>4. UNCHANGED <<rows, todo, toStore, toService, up, restoring, files>>
  BY DEF DeleteOriginal, store, restoration
<1>5. Fits(e, files')
  BY <1>1, <1>3, <1>4 DEF Fits
<1> HIDE DEF e
<1>6. PhaseInv'
  BY <1>4, EncoderIsBusy, PhaseWhileBusy DEF OutputInv
<1>7. EncoderInv'
  BY <1>2, <1>3, <1>4, <1>5, OneEncoderFits DEF OutputInv
<1>8. TodoInv'
  <2>1. encoders \in Seq(EncoderStates) /\ e \in EncoderStates
    BY <1>2 DEF TypeOK, EncoderSteps
  <2>2. /\ DOMAIN encoders' = DOMAIN encoders
        /\ \A k \in DOMAIN encoders : encoders'[k] = IF k = i THEN e ELSE encoders[k]
    BY <1>2, <2>1, EncoderChanges DEF EncoderSteps
  <2>3. \A k \in DOMAIN encoders' : k \in DOMAIN encoders /\ encoders'[k].file = encoders[k].file
    BY <1>3, <2>2
  <2> QED BY <1>4, <2>3 DEF OutputInv, TodoInv
<1>9. PathInv'
  BY <1>4, PathsHold DEF OutputInv
<1>10. KeptInv'
  BY <1>1, <1>4 DEF Fits, OutputInv, KeptInv
<1> QED BY <1>6, <1>7, <1>8, <1>9, <1>10 DEF OutputInv

\* The steps that have nothing to do with encoders, operations and outputs.
LEMMA QuietOutputs ==
    ASSUME TypeOK, TypeOK', OutputInv, UNCHANGED <<rows, todo, listed, files, sources, encoders, toStore, up, restoring>>,
           ~up => UNCHANGED toService, \A r \in Requests : admit[r].step = "none" => admit'[r].step = "none"
    PROVE  OutputInv'
<1>1. OperationsLeft(0)
  <2>1. toStore \in Seq(Operations)
    BY DEF TypeOK
  <2>2. \A k \in DOMAIN toStore : k + 0 = k
    BY <2>1, LenProperties
  <2> QED BY <2>2 DEF OperationsLeft
<1>2. PhaseInv'
  BY <1>1, PhaseHolds DEF OutputInv
<1> QED BY <1>2, SameGoOn, OutputsHold

LEMMA TimerFiresOutputs ==
    ASSUME TypeOK, TypeOK', OutputInv, TimerFires \/ SuspendBegins \/ SuspendEnds
    PROVE  OutputInv'
  BY QuietOutputs DEF TimerFires, SuspendBegins, SuspendEnds, store, restoration, disk

LEMMA UnchangedOutputs ==
    ASSUME TypeOK, TypeOK', OutputInv, UNCHANGED vars
    PROVE  OutputInv'
  BY QuietOutputs DEF vars, store, restoration, disk

LEMMA EnqueueFromRecordingOutputs ==
    ASSUME TypeOK, TypeOK', OutputInv, NEW r \in Requests, EnqueueFromRecording(r)
    PROVE  OutputInv'
<1>1. PICK id \in Ids : AddRecord(r, id) /\ toService' = IF up THEN Append(toService, [id |-> id, req |-> r]) ELSE toService
  BY DEF EnqueueFromRecording
<1>2. UNCHANGED <<toStore, up, restoring, todo, listed, admit, encoders, sources, files>>
  BY DEF EnqueueFromRecording, restoration, disk
<1>3. PhaseInv'
  <2>1. OperationsLeft(0)
    <3>1. toStore \in Seq(Operations)
      BY DEF TypeOK
    <3>2. \A k \in DOMAIN toStore : k + 0 = k
      BY <3>1, LenProperties
    <3> QED BY <1>2, <3>2 DEF OperationsLeft
  <2> QED BY <1>1, <1>2, <2>1, PhaseHolds DEF OutputInv
<1>4. PathInv'
  <2>1. rows \in Seq(Records) /\ DOMAIN rows = 1 .. Len(rows)
    BY LenProperties DEF TypeOK
  <2> DEFINE row == [id |-> id, req |-> r, out |-> NoPath]
  <2>2. rows' = Append(rows, row) /\ row.out = NoPath
    BY <1>1 DEF AddRecord
  <2> HIDE DEF row
  <2>3. \A k \in DOMAIN rows' : (k \in DOMAIN rows /\ rows'[k] = rows[k]) \/ rows'[k].out = NoPath
    BY <2>1, <2>2
  <2>4. \A k \in DOMAIN rows' : IsPath(rows'[k].out, files')
    BY <1>2, <2>3 DEF OutputInv, PathInv, IsPath
  <2> QED BY <1>2, <2>4, PathsHold DEF OutputInv
<1>5. EncoderInv' /\ TodoInv' /\ KeptInv'
  BY <1>2, SameGoOn, EncodersFitOn, TodosApartOn, KeptHolds DEF OutputInv, FilesGoOn
<1> QED BY <1>3, <1>4, <1>5 DEF OutputInv

\* The admissions.
LEMMA PushEnterOutputs ==
    ASSUME TypeOK, OutputInv, NEW r \in Requests, PushEnter(r)
    PROVE  OutputInv'
<1>1. /\ up /\ restoring \in {"off", "retry"}
      /\ UNCHANGED <<rows, toStore, toService, up, restoring, todo, listed, encoders, sources, files>>
  BY DEF PushEnter, store, restoration, disk
<1>2. PhaseInv'
  BY <1>1, PhaseWhileBusy DEF OutputInv, PhaseInv
<1> QED BY <1>1, <1>2, SameGoOn, OutputsHold

LEMMA AdmissionIsBusy ==
    ASSUME OutputInv, NEW r \in Requests, admit[r].step # "none"
    PROVE  up /\ restoring \notin {"listing", "retry"}
  BY BusyIsUp DEF OutputInv, PhaseInv

LEMMA TakeLockOutputs ==
    ASSUME TypeOK, OutputInv, NEW r \in Requests, TakeLock(r)
    PROVE  OutputInv'
  BY AdmissionIsBusy, PhaseWhileBusy, SameGoOn, OutputsHold DEF TakeLock, store, restoration, disk, OutputInv

\* An operation without an output is sent while the service is at work.
LEMMA SentOutputs ==
    ASSUME TypeOK, OutputInv, up, restoring \notin {"listing", "retry"}, NEW op \in Operations, Send(op),
           op.out = NoPath, op.op # "list",
           UNCHANGED <<rows, up, restoring, todo, encoders, sources, files>>
    PROVE  OutputInv'
  BY SentPaths, PhaseWhileBusy, SameGoOn, OutputsHold DEF OutputInv, IsPath, IsList

LEMMA AcquireRefusedOutputs ==
    ASSUME TypeOK, TypeOK', OutputInv, NEW r \in Requests, AcquireRefused(r)
    PROVE  OutputInv'
<1>1. /\ admit[r].step # "none"
      /\ UNCHANGED <<rows, up, restoring, todo, listed, encoders, sources, files>>
  BY DEF AcquireRefused, store, restoration, disk
<1>2. up /\ restoring \notin {"listing", "retry"}
  BY <1>1, AdmissionIsBusy
<1>3. CASE r \in FromRecording
  <2> DEFINE op == Op("remove", admit[r].id, r, NoPath, "admit")
  <2>1. admit[r] \in Admissions
    BY DEF TypeOK
  <2>2. op \in Operations /\ op.out = NoPath /\ op.op # "list"
    BY <1>3, <2>1 DEF Op, Operations, NoPath, Admissions
  <2>3. Send(op)
    BY <1>3 DEF AcquireRefused
  <2> HIDE DEF op
  <2> QED BY <1>1, <1>2, <2>2, <2>3, SentOutputs
<1>4. CASE r \notin FromRecording
  <2>1. UNCHANGED toStore
    BY <1>4 DEF AcquireRefused
  <2>2. PhaseInv'
    BY <1>1, <1>2, <2>1, PhaseWhileBusy DEF OutputInv
  <2> QED BY <1>1, <2>1, <2>2, SameGoOn, OutputsHold
<1> QED BY <1>3, <1>4

LEMMA AcquireOutputs ==
    ASSUME TypeOK, OutputInv, NEW r \in Requests, Acquire(r)
    PROVE  OutputInv'
<1>1. /\ admit[r].step # "none"
      /\ UNCHANGED <<rows, up, restoring, todo, listed, sources, files>>
  BY DEF Acquire, store, restoration, disk
<1>2. up /\ restoring \notin {"listing", "retry"}
  BY <1>1, AdmissionIsBusy
<1>3. CASE r \in FromRecording
  <2>1. encoders' = Append(encoders, NewEncoder(admit[r].id, r)) /\ UNCHANGED toStore
    BY <1>3 DEF Acquire, Enqueue
  <2>2. PhaseInv'
    BY <1>1, <1>2, <2>1, PhaseWhileBusy DEF OutputInv
  <2>3. EncoderInv' /\ TodoInv'
    BY <1>1, <2>1, FreshEncoderFits DEF OutputInv, EncoderInv
  <2>4. PathInv' /\ KeptInv'
    BY <1>1, <2>1, PathsHold, KeptHolds DEF OutputInv, FilesGoOn
  <2> QED BY <2>2, <2>3, <2>4 DEF OutputInv
<1>4. CASE r \notin FromRecording
  <2> DEFINE op == Op("add", 0, r, NoPath, "admit")
  <2>1. op \in Operations /\ op.out = NoPath /\ op.op # "list"
    BY <1>4 DEF Op, Operations, NoPath
  <2>2. Send(op) /\ UNCHANGED encoders
    BY <1>4 DEF Acquire
  <2> HIDE DEF op
  <2> QED BY <1>1, <1>2, <2>1, <2>2, SentOutputs
<1> QED BY <1>3, <1>4

LEMMA HandOverOutputs ==
    ASSUME TypeOK, OutputInv, HandOver
    PROVE  OutputInv'
<1>1. /\ up /\ restoring \in {"off", "retry"} /\ toService # <<>>
      /\ UNCHANGED <<rows, up, restoring, todo, listed, encoders, sources, files>>
  BY DEF HandOver, store, restoration, disk
<1>2. restoring \notin {"listing", "retry"}
  BY <1>1 DEF OutputInv, PhaseInv
<1>3. CASE UNCHANGED toStore
  <2>1. PhaseInv'
    BY <1>1, <1>2, <1>3, PhaseWhileBusy DEF OutputInv
  <2> QED BY <1>1, <1>3, <2>1, SameGoOn, OutputsHold
<1>4. CASE Send(Op("remove", Head(toService).id, Head(toService).req, NoPath, "admit"))
  <2> DEFINE op == Op("remove", Head(toService).id, Head(toService).req, NoPath, "admit")
  <2>1. Head(toService) \in [id : Ids, req : FromRecording]
    BY <1>1, HeadTailProperties DEF TypeOK
  <2>2. op \in Operations /\ op.out = NoPath /\ op.op # "list"
    BY <2>1, EncodeAssumption DEF Op, Operations, NoPath, Ids
  <2> HIDE DEF op
  <2>3. Send(op)
    BY <1>4 DEF op
  <2> QED BY <1>1, <1>2, <2>2, <2>3, SentOutputs
<1> QED BY <1>3, <1>4 DEF HandOver

\* A conversion starts: its output is new.
LEMMA CheckQueueOutputs ==
    ASSUME TypeOK, TypeOK', OutputInv, CheckQueue
    PROVE  OutputInv'
<1>1. UNCHANGED <<rows, up, restoring, todo, listed, admit, toService, sources>>
  BY DEF CheckQueue, store, restoration
<1>2. CASE UNCHANGED <<encoders, toStore, files>>
  BY <1>1, <1>2, QuietOutputs
<1> DEFINE i == Min(Waiting)
           d == encoders[i]
           started == [d EXCEPT !.step = "starting", !.file = Len(files) + 1]
           failed == [d EXCEPT !.step = "startFailed", !.wakes = TRUE]
<1>3. ASSUME Waiting # {}
      PROVE  /\ i \in DOMAIN encoders /\ d.step = "wait" /\ d \in EncoderStates
             /\ up /\ restoring \notin {"listing", "retry"} /\ Fits(d, files)
  BY <1>3, Counts, EncoderIsBusy DEF Waiting
<1>4. CASE /\ Waiting # {} /\ encoders' = Append(RemoveAt(encoders, i), failed) /\ UNCHANGED <<toStore, files>>
  <2>1. failed \in EncoderStates /\ Ahead(d, failed)
    BY <1>3, <1>4 DEF EncoderStates, QueuedSteps, Ahead
  <2> HIDE DEF i, failed
  <2>2. EncodersGoOn
    BY <1>3, <1>4, <2>1, MovedGoesOn
  <2>3. PhaseInv'
    BY <1>1, <1>3, <1>4, PhaseWhileBusy DEF OutputInv
  <2> QED BY <1>1, <1>4, <2>2, <2>3, OutputsHold
<1>5. CASE /\ Waiting # {} /\ encoders' = Append(RemoveAt(encoders, i), started)
           /\ files' = Append(files, [req |-> d.req, state |-> "none", registered |-> FALSE])
           /\ Send(Op("output", d.id, d.req, Len(files) + 1, "encoder"))
  <2>1. files \in Seq(Outputs) /\ DOMAIN files = 1 .. Len(files) /\ Len(files) \in Nat
    BY LenProperties DEF TypeOK
  <2> DEFINE n == Len(files) + 1
             new == [req |-> d.req, state |-> "none", registered |-> FALSE]
             op == Op("output", d.id, d.req, n, "encoder")
  <2>2. n \in Nat /\ n # NoPath /\ n \notin DOMAIN files
    BY <2>1 DEF NoPath
  <2>3. /\ DOMAIN files' = DOMAIN files \cup {n} /\ \A f \in DOMAIN files : files'[f] = files[f]
        /\ files'[n] = new
    BY <1>5, <2>1
  <2>4. started \in EncoderStates /\ started.step = "starting" /\ started.file = n /\ started.req = d.req
        /\ started.settle = d.settle /\ d.settle = "none"
    BY <1>3, <1>5, <2>2 DEF Fits, EncoderStates, QueuedSteps
  <2>5. op \in Operations /\ op.out = n /\ op.op = "output"
    BY <1>3, <1>5, <2>2 DEF Op, Operations, EncoderStates
  <2>6. Fits(started, files')
    BY <2>2, <2>3, <2>4 DEF Fits
  <2> HIDE DEF n, new, op, i, started
  <2>7. Send(op)
    BY <1>5 DEF op, n
  <2>8. FilesGoOn
    BY <2>3, <2>2 DEF FilesGoOn, new
  <2>9. IsPath(n, files')
    BY <2>3 DEF IsPath
  <2>10. /\ \A k \in DOMAIN toStore' : IsPath(toStore'[k].out, files')
         /\ \A j \in DOMAIN toStore' : (j \in DOMAIN toStore /\ toStore'[j] = toStore[j]) \/ toStore'[j] = op
    BY <2>3, <2>5, <2>7, <2>9, SentPaths DEF OutputInv
  <2>11. PhaseInv'
    BY <1>1, <1>3, <1>5, <2>5, <2>10, PhaseWhileBusy DEF OutputInv, IsList
  <2>12. PathInv'
    BY <1>1, <2>3, <2>10, PathsHold DEF OutputInv
  <2>13. KeptInv'
    BY <1>1, <2>8, KeptHolds DEF OutputInv
  <2>14. /\ encoders \in Seq(EncoderStates) /\ DOMAIN encoders = 1 .. Len(encoders) /\ Len(encoders) \in Nat
         /\ i \in DOMAIN encoders
    BY <1>3, <1>5, LenProperties DEF TypeOK
  <2> DEFINE Old(k) == IF k = Len(encoders) THEN i ELSE Shift(i, k)
  <2>15. /\ DOMAIN encoders' = DOMAIN encoders
         /\ \A k \in DOMAIN encoders : encoders'[k] = IF k = Len(encoders) THEN started ELSE encoders[Shift(i, k)]
    <3>1. /\ DOMAIN Append(RemoveAt(encoders, i), started) = DOMAIN encoders
          /\ \A k \in DOMAIN encoders : Append(RemoveAt(encoders, i), started)[k]
                                         = IF k = Len(encoders) THEN started ELSE encoders[Shift(i, k)]
      <4>1. encoders \in Seq(EncoderStates)
        BY <2>14
      <4>2. i \in DOMAIN encoders
        BY <2>14
      <4>3. started \in EncoderStates
        BY <2>4
      <4> QED BY ONLY <4>1, <4>2, <4>3, EncodersMove
    <3>2. encoders' = Append(RemoveAt(encoders, i), started)
      BY <1>5
    <3> QED BY <3>1, <3>2
  <2>16. /\ \A k \in DOMAIN encoders : Old(k) \in DOMAIN encoders
         /\ \A k, l \in DOMAIN encoders : Old(k) = Old(l) => k = l
    BY <2>14 DEF Shift
  <2>17. \A k \in DOMAIN encoders : k # Len(encoders) => encoders'[k] = encoders[Old(k)]
    BY <2>15
  <2> HIDE DEF Old
  <2>18. \A k \in DOMAIN encoders : /\ Fits(encoders[k], files')
                                    /\ encoders[k].file # n
    BY <2>2, <2>3 DEF OutputInv, EncoderInv, Fits
  <2>19. EncoderInv'
    <3>1. \A k \in DOMAIN encoders' : Fits(encoders'[k], files')
      BY <2>6, <2>15, <2>16, <2>17, <2>18
    <3>2. ASSUME NEW k \in DOMAIN encoders', NEW l \in DOMAIN encoders',
                 encoders'[k].file = encoders'[l].file, encoders'[k].file # NoPath
          PROVE  k = l
      <4>1. CASE k # Len(encoders) /\ l # Len(encoders)
        BY <2>15, <2>16, <2>17, <3>2, <4>1 DEF OutputInv, EncoderInv
      <4>2. CASE k = Len(encoders) /\ l # Len(encoders)
        BY <2>4, <2>15, <2>16, <2>17, <2>18, <3>2, <4>2
      <4>3. CASE k # Len(encoders) /\ l = Len(encoders)
        BY <2>4, <2>15, <2>16, <2>17, <2>18, <3>2, <4>3
      <4> QED BY <4>1, <4>2, <4>3
    <3> QED BY <3>1, <3>2 DEF EncoderInv
  <2>20. TodoInv'
    <3> SUFFICES ASSUME NEW k \in DOMAIN encoders', NEW l \in DOMAIN todo', todo'[l].out # NoPath
                 PROVE  todo'[l].out # encoders'[k].file
      BY DEF TodoInv
    <3>1. todo[l].out \in DOMAIN files /\ l \in DOMAIN todo /\ todo' = todo
      BY <1>1 DEF OutputInv, PathInv, IsPath
    <3>2. CASE k = Len(encoders)
      BY <2>2, <2>4, <2>15, <3>1, <3>2
    <3>3. CASE k # Len(encoders)
      BY <2>15, <2>16, <2>17, <3>1, <3>3 DEF OutputInv, TodoInv
    <3> QED BY <3>2, <3>3
  <2> QED BY <2>11, <2>12, <2>13, <2>19, <2>20 DEF OutputInv
<1> QED BY <1>2, <1>4, <1>5 DEF CheckQueue

\* The restoration.
LEMMA ServiceStartOutputs ==
    ASSUME TypeOK, OutputInv, ServiceStart
    PROVE  OutputInv'
<1> DEFINE op == Op("list", 0, CHOOSE r \in Requests : TRUE, NoPath, "restore")
<1>1. /\ ~up /\ up' /\ restoring' = "listing" /\ Send(op)
      /\ UNCHANGED <<rows, todo, listed, toService, admit, encoders, sources, files>>
  BY DEF ServiceStart, StartRestoration, store, disk
<1>2. op \in Operations /\ op.out = NoPath
  BY EncodeAssumption DEF Op, Operations, NoPath
<1> HIDE DEF op
<1>3. /\ \A k \in DOMAIN toStore' : IsPath(toStore'[k].out, files')
      /\ \A j \in DOMAIN toStore' : (j \in DOMAIN toStore /\ toStore'[j] = toStore[j]) \/ toStore'[j] = op
  BY <1>1, <1>2, SentPaths DEF OutputInv, IsPath
<1>4. \A j \in DOMAIN toStore' : j \in DOMAIN toStore => ~IsList(toStore'[j])
  BY <1>1, <1>2, SendTypes DEF OutputInv, PhaseInv
<1>5. \A i, j \in DOMAIN toStore' : IsList(toStore'[i]) /\ IsList(toStore'[j]) => i = j
  BY <1>1, <1>2, SendTypes, <1>4
<1>6. Nothing'
  BY <1>1 DEF OutputInv, PhaseInv, Nothing
<1>7. PhaseInv'
  BY <1>1, <1>5, <1>6 DEF PhaseInv, IsList
<1> QED BY <1>1, <1>3, <1>7, SameGoOn, OutputsHold

LEMMA RetryListOutputs ==
    ASSUME OutputInv, RetryList
    PROVE  OutputInv'
  BY DEF OutputInv, PhaseInv, RetryList

LEMMA RestoringIsUp ==
    ASSUME OutputInv, restoring = "restoring"
    PROVE  up
  BY DEF OutputInv, PhaseInv

LEMMA RestoreEndOutputs ==
    ASSUME TypeOK, OutputInv, RestoreEnd
    PROVE  OutputInv'
  BY RestoringIsUp, PhaseWhileBusy, SameGoOn, OutputsHold DEF RestoreEnd, store, disk, OutputInv

\* The records that are still to be restored.
LEMMA TodoTail ==
    ASSUME TypeOK, todo # <<>>, todo' = Tail(todo)
    PROVE  /\ Head(todo) \in Records /\ 1 \in DOMAIN todo /\ Head(todo) = todo[1]
           /\ \A k \in DOMAIN todo' : k + 1 \in DOMAIN todo /\ k + 1 # 1 /\ todo'[k] = todo[k + 1]
<1>1. /\ Head(todo) \in Records /\ Head(todo) = todo[1] /\ Len(todo) \in Nat \ {0}
      /\ DOMAIN todo = 1 .. Len(todo) /\ DOMAIN Tail(todo) = 1 .. Len(todo) - 1
      /\ \A k \in 1 .. Len(todo) - 1 : Tail(todo)[k] = todo[k + 1]
  BY HeadTailProperties, LenProperties DEF TypeOK
<1>2. \A k \in 1 .. Len(todo) - 1 : k + 1 \in 1 .. Len(todo) /\ k + 1 # 1
  BY <1>1
<1> QED BY <1>1, <1>2

\* The output of a record that is restored is deleted: it was not registered and is nobody's.
LEMMA OutputCleared ==
    ASSUME TypeOK, OutputInv, NEW k \in DOMAIN todo, Restorable(todo[k]),
           files' = IF todo[k].out = NoPath THEN files ELSE [files EXCEPT ![todo[k].out].state = "none"]
    PROVE  FilesGoOn /\ DOMAIN files' = DOMAIN files /\ \A i \in DOMAIN encoders : Fits(encoders[i], files')
<1> DEFINE x == todo[k].out
<1>1. CASE x = NoPath
  BY <1>1 DEF OutputInv, EncoderInv, FilesGoOn
<1>2. CASE x # NoPath
  <2>1. x \in DOMAIN files /\ ~files[x].registered /\ files' = [files EXCEPT ![x].state = "none"]
    BY <1>2 DEF OutputInv, PathInv, IsPath, Restorable
  <2>2. \A i \in DOMAIN encoders : encoders[i].file # x /\ Fits(encoders[i], files)
    BY <1>2 DEF OutputInv, TodoInv, EncoderInv
  <2> HIDE DEF x
  <2>3. /\ FilesGoOn /\ DOMAIN files' = DOMAIN files
        /\ \A f \in DOMAIN files : f # x => files'[f] = files[f]
    BY <2>1, StateOf
  <2>4. ASSUME NEW i \in DOMAIN encoders
        PROVE  Fits(encoders[i], files')
    <3>1. encoders[i].file # x /\ Fits(encoders[i], files)
      BY <2>2
    <3>2. encoders[i].file \in DOMAIN files => files'[encoders[i].file] = files[encoders[i].file]
      BY <2>3, <3>1
    <3>3. DOMAIN files' = DOMAIN files
      BY <2>3
    <3> QED BY ONLY <3>1, <3>2, <3>3 DEF Fits
  <2> QED BY <2>3, <2>4
<1> QED BY <1>1, <1>2

\* A record has been dealt with; its removal may be asked for.
LEMMA RestoredOutputs ==
    ASSUME TypeOK, OutputInv, restoring = "restoring", todo # <<>>, todo' = Tail(todo), EncoderInv', TodoInv',
           FilesGoOn, UNCHANGED <<rows, up, restoring, sources>>,
           UNCHANGED toStore \/ \E op \in Operations : Send(op) /\ op.out = NoPath /\ op.op # "list"
    PROVE  OutputInv'
<1>1. up
  BY RestoringIsUp
<1>2. \A k \in DOMAIN todo' : IsPath(todo'[k].out, files')
  BY TodoTail DEF OutputInv, PathInv, IsPath, FilesGoOn
<1>3. /\ UNCHANGED toStore \/ \A k \in DOMAIN toStore' : IsPath(toStore'[k].out, files')
      /\ \A j \in DOMAIN toStore' : (j \in DOMAIN toStore /\ toStore'[j] = toStore[j]) \/ ~IsList(toStore'[j])
  BY SentPaths DEF OutputInv, IsPath, IsList, FilesGoOn
<1>4. PhaseInv'
  BY <1>1, <1>3, PhaseWhileBusy DEF OutputInv
<1>5. PathInv'
  BY <1>2, <1>3, PathsHold DEF OutputInv, FilesGoOn
<1>6. KeptInv'
  BY KeptHolds DEF OutputInv
<1> QED BY <1>4, <1>5, <1>6 DEF OutputInv

\* The removal of a record that is not restored.
LEMMA RemovalOfRecord ==
    ASSUME NEW record \in Records
    PROVE  LET op == Op("remove", record.id, record.req, NoPath, "restore")
           IN  op \in Operations /\ op.out = NoPath /\ op.op # "list"
  BY EncodeAssumption DEF Op, Operations, NoPath, Records, Ids

LEMMA RestoreNextOutputs ==
    ASSUME TypeOK, OutputInv, RestoreNext
    PROVE  OutputInv'
<1>1. /\ restoring = "restoring" /\ todo # <<>> /\ todo' = Tail(todo)
      /\ UNCHANGED <<rows, toService, up, restoring, listed, admit, sources>>
  BY DEF RestoreNext, RestoreReady, store
<1> DEFINE record == Head(todo)
           op == Op("remove", record.id, record.req, NoPath, "restore")
<1>2. record \in Records /\ 1 \in DOMAIN todo /\ record = todo[1]
      /\ \A k \in DOMAIN todo' : \E l \in DOMAIN todo : todo[l].out = todo'[k].out
  BY <1>1, TodoTail
<1>3. op \in Operations /\ op.out = NoPath /\ op.op # "list"
  BY <1>2, RemovalOfRecord
<1> HIDE DEF op
<1>4. CASE UNCHANGED <<encoders, files>> /\ (UNCHANGED toStore \/ Send(op))
  <2>1. EncoderInv' /\ TodoInv'
    BY <1>2, <1>4, SameGoOn, EncodersFitOn, TodosApartOn DEF OutputInv
  <2>2. FilesGoOn
    BY <1>4 DEF FilesGoOn
  <2> QED BY <1>1, <1>3, <1>4, <2>1, <2>2, RestoredOutputs
<1>5. CASE /\ Restorable(record) /\ encoders' = Append(encoders, NewEncoder(record.id, record.req)) /\ UNCHANGED toStore
           /\ files' = IF record.out = NoPath THEN files ELSE [files EXCEPT ![record.out].state = "none"]
  <2>1. FilesGoOn /\ \A i \in DOMAIN encoders : Fits(encoders[i], files')
    BY <1>2, <1>5, OutputCleared
  <2>2. EncoderInv' /\ TodoInv'
    BY <1>2, <1>5, <2>1, FreshEncoderFits DEF OutputInv
  <2> QED BY <1>1, <1>5, <2>1, <2>2, RestoredOutputs
<1> QED BY <1>4, <1>5 DEF RestoreNext, op

LEMMA RestoreNextFailsOutputs ==
    ASSUME TypeOK, OutputInv, RestoreNextFails
    PROVE  OutputInv'
<1>1. /\ restoring = "restoring" /\ todo # <<>> /\ todo' = Tail(todo)
      /\ UNCHANGED <<rows, toService, up, restoring, listed, admit, encoders, sources>>
  BY DEF RestoreNextFails, RestoreReady, store
<1> DEFINE record == Head(todo)
           op == Op("remove", record.id, record.req, NoPath, "restore")
<1>2. record \in Records /\ 1 \in DOMAIN todo /\ record = todo[1]
      /\ \A k \in DOMAIN todo' : \E l \in DOMAIN todo : todo[l].out = todo'[k].out
  BY <1>1, TodoTail
<1>3. op \in Operations /\ op.out = NoPath /\ op.op # "list"
  BY <1>2, RemovalOfRecord
<1> HIDE DEF op
<1>4. TodoInv'
  BY <1>1, <1>2, SameGoOn, TodosApartOn DEF OutputInv
<1>5. CASE UNCHANGED <<toStore, files>>
  <2>1. EncoderInv'
    BY <1>1, <1>5, SameGoOn, EncodersFitOn DEF OutputInv
  <2>2. FilesGoOn
    BY <1>5 DEF FilesGoOn
  <2> QED BY <1>1, <1>4, <1>5, <2>1, <2>2, RestoredOutputs
<1>6. CASE /\ Restorable(record) /\ Send(op)
           /\ files' = IF record.out = NoPath THEN files ELSE [files EXCEPT ![record.out].state = "none"]
  <2>1. FilesGoOn /\ \A i \in DOMAIN encoders : Fits(encoders[i], files')
    BY <1>2, <1>6, OutputCleared
  <2>2. EncoderInv'
    BY <1>1, <2>1 DEF OutputInv, EncoderInv
  <2> QED BY <1>1, <1>3, <1>4, <1>6, <2>1, <2>2, RestoredOutputs
<1> QED BY <1>5, <1>6 DEF RestoreNextFails, op

\* The process dies: its outputs are judged as by a restoration.
LEMMA CrashOutputs ==
    ASSUME TypeOK, OutputInv, ServiceGone, FilesGoOn,
           UNCHANGED rows, \A k \in DOMAIN toStore' : toStore'[k].by = "nobody" /\ IsPath(toStore'[k].out, files')
    PROVE  OutputInv'
<1>1. /\ ~up' /\ restoring' = "off" /\ todo' = <<>> /\ listed' = {} /\ encoders' = <<>> /\ toService' = <<>>
      /\ \A r \in Requests : admit'[r].step = "none"
      /\ UNCHANGED sources
  BY DEF ServiceGone, Idle
<1>2. PhaseInv'
  BY <1>1 DEF PhaseInv, Nothing, IsList
<1>3. PathInv'
  BY <1>1, PathsHold DEF OutputInv, FilesGoOn
<1>4. EncoderInv' /\ TodoInv'
  BY <1>1 DEF EncoderInv, TodoInv
<1>5. KeptInv'
  BY <1>1, KeptHolds DEF OutputInv
<1> QED BY <1>2, <1>3, <1>4, <1>5 DEF OutputInv

LEMMA CleanedGoOn ==
    ASSUME TypeOK, files' = CleanedFiles
    PROVE  FilesGoOn /\ DOMAIN files' = DOMAIN files
<1>1. /\ DOMAIN files' = DOMAIN files
      /\ \A f \in DOMAIN files : files'[f] = files[f]
                                 \/ (~files[f].registered /\ files'[f] = [files[f] EXCEPT !.state = "none"])
  BY DEF CleanedFiles
<1>2. \A o \in Outputs : /\ [o EXCEPT !.state = "none"].req = o.req
                         /\ [o EXCEPT !.state = "none"].registered = o.registered
  BY DEF Outputs
<1>3. \A f \in DOMAIN files : files[f] \in Outputs
  BY LenProperties DEF TypeOK
<1>4. \A f \in DOMAIN files : /\ files'[f].req = files[f].req /\ files'[f].registered = files[f].registered
                              /\ files[f].registered => files'[f].state = files[f].state
  BY <1>2, <1>3, <1>1
<1> QED BY <1>1, <1>4 DEF FilesGoOn

\* The operations that have reached the store before a crash, without their owners.
LEMMA LeftByCrash ==
    ASSUME TypeOK, NEW n \in 0 .. Len(toStore), toStore' = [i \in 1 .. n |-> [toStore[i] EXCEPT !.by = "nobody"]]
    PROVE  \A i \in DOMAIN toStore' :
              /\ i \in DOMAIN toStore /\ toStore'[i].by = "nobody" /\ toStore'[i].op = toStore[i].op
              /\ toStore'[i].id = toStore[i].id /\ toStore'[i].req = toStore[i].req /\ toStore'[i].out = toStore[i].out
<1>1. toStore \in Seq(Operations) /\ Len(toStore) \in Nat /\ DOMAIN toStore = 1 .. Len(toStore)
  BY LenProperties DEF TypeOK
<1>2. \A i \in 1 .. n : i \in DOMAIN toStore /\ toStore[i] \in Operations
  BY <1>1
<1>3. \A op \in Operations :
        LET left == [op EXCEPT !.by = "nobody"]
        IN  left.by = "nobody" /\ left.op = op.op /\ left.id = op.id /\ left.req = op.req /\ left.out = op.out
  BY DEF Operations
<1> QED BY <1>2, <1>3

LEMMA ServiceCrashOutputs ==
    ASSUME TypeOK, OutputInv, NEW n \in 0 .. Len(toStore), ServiceCrash(n)
    PROVE  OutputInv'
  BY CleanedGoOn, LeftByCrash, CrashOutputs DEF ServiceCrash, store, OutputInv, PathInv, IsPath

LEMMA WholeCrashOutputs ==
    ASSUME TypeOK, OutputInv, WholeCrash
    PROVE  OutputInv'
  BY CrashOutputs DEF WholeCrash, FilesGoOn

\* The operations of the store.
LEMMA LeftOutputs ==
    ASSUME TypeOK, TypeOK', OutputInv, NEW d \in {0, 1}, OperationsLeft(d), EncodersGoOn,
           encoders = <<>> => encoders' = <<>>, \A r \in Requests : admit[r].step = "none" => admit'[r].step = "none",
           UNCHANGED <<toService, up, restoring, todo, listed, sources, files>>,
           \A k \in DOMAIN rows' : IsPath(rows'[k].out, files)
    PROVE  OutputInv'
  BY PhaseHolds, PathsHold, EncodersFitOn, TodosApartOn, KeptHolds DEF OutputInv, OperationsLeft, PathInv, FilesGoOn

LEMMA TailIsLeft ==
    ASSUME TypeOK, toStore # <<>>, toStore' = Tail(toStore)
    PROVE  OperationsLeft(1)
  BY TailTypes DEF OperationsLeft

\* What the caller of an operation does next changes no output.
LEMMA ReturnedOutputs ==
    ASSUME TypeOK, NEW op, Returned(op)
    PROVE  /\ EncodersGoOn /\ UNCHANGED <<restoring, todo, listed, job>>
           /\ encoders = <<>> => encoders' = <<>>
           /\ \A r \in Requests : admit[r].step = "none" => admit'[r].step = "none"
<1>1. CASE op.op = "output" /\ op.by = "encoder"
  <2>1. OutputRecorded(op.id)
    BY <1>1 DEF Returned
  <2>2. EncodersGoOn /\ UNCHANGED <<restoring, todo, listed, job, admit>>
    BY <2>1, RecordedGoesOn DEF OutputRecorded, restoration
  <2>3. encoders = <<>> => encoders' = <<>>
    BY <2>1 DEF OutputRecorded
  <2> QED BY <2>2, <2>3
<1>2. CASE op.op = "remove" /\ op.by = "encoder"
  BY <1>2, GoneGoesOn DEF Returned, EncoderDone, restoration
<1>3. CASE op.op = "remove" /\ op.by = "admit"
  <2>1. /\ admit' = [admit EXCEPT ![op.req] = Idle] /\ UNCHANGED <<encoders, restoring, todo, listed, job>>
    BY <1>3 DEF Returned, RejectionDone, restoration
  <2>2. \A r \in Requests : admit'[r] \in {admit[r], Idle} /\ Idle.step = "none"
    BY <2>1 DEF TypeOK, Idle
  <2>3. EncodersGoOn
    BY <2>1, SameGoOn
  <2> QED BY <2>1, <2>2, <2>3
<1>4. CASE /\ ~(op.op = "output" /\ op.by = "encoder") /\ ~(op.op = "remove" /\ op.by = "encoder")
           /\ ~(op.op = "remove" /\ op.by = "admit")
  BY <1>4, SameGoOn DEF Returned, NobodyWaits, restoration
<1> QED BY <1>1, <1>2, <1>3, <1>4

\* A record is deleted.
LEMMA DeletedPaths ==
    ASSUME TypeOK, OutputInv, NEW id, DeleteRecord(id)
    PROVE  /\ \A k \in DOMAIN rows' : IsPath(rows'[k].out, files)
           /\ \A k \in DOMAIN rows' : \E l \in DOMAIN rows : rows'[k] = rows[l]
<1>1. CASE UNCHANGED rows
  BY <1>1 DEF OutputInv, PathInv
<1>2. ASSUME NEW l \in DOMAIN rows, rows' = RemoveAt(rows, l)
      PROVE  /\ \A k \in DOMAIN rows' : IsPath(rows'[k].out, files)
             /\ \A k \in DOMAIN rows' : \E m \in DOMAIN rows : rows'[k] = rows[m]
  <2>1. PICK s \in Seq(Records) : s = rows
    BY DEF TypeOK
  <2>2. /\ DOMAIN RemoveAt(s, l) = 1 .. Len(s) - 1
        /\ \A k \in 1 .. Len(s) - 1 : Shift(l, k) \in DOMAIN s \ {l} /\ RemoveAt(s, l)[k] = s[Shift(l, k)]
    <3>1. l \in DOMAIN s
      BY <1>2, <2>1
    <3>2. s \in Seq(Records)
      OBVIOUS
    <3> QED BY ONLY <3>1, <3>2, RemoveAtProperties
  <2>3. \A k \in DOMAIN rows' : Shift(l, k) \in DOMAIN rows /\ rows'[k] = rows[Shift(l, k)]
    BY <1>2, <2>1, <2>2
  <2> QED BY <2>3 DEF OutputInv, PathInv
<1> QED BY <1>1, <1>2 DEF DeleteRecord

\* A record is added; the admission that waits for it makes its encoder.
LEMMA AddedOutputs ==
    ASSUME TypeOK, TypeOK', QueueInv, OutputInv, toStore # <<>>, toStore' = Tail(toStore),
           UNCHANGED <<toService, up, sources, files>>,
           NEW op, op = Head(toStore), op.op = "add", NEW id \in Ids, AddRecord(op.req, id),
           IF op.by = "admit" THEN AddAnswered(op.req, id) ELSE NobodyWaits
    PROVE  OutputInv'
<1>1. op \in Operations /\ op = toStore[1] /\ 1 \in DOMAIN toStore
  BY TailTypes
<1>2. \A k \in DOMAIN rows' : IsPath(rows'[k].out, files)
  <2>1. rows \in Seq(Records) /\ DOMAIN rows = 1 .. Len(rows)
    BY LenProperties DEF TypeOK
  <2> DEFINE row == [id |-> id, req |-> op.req, out |-> NoPath]
  <2>2. rows' = Append(rows, row) /\ row.out = NoPath
    BY DEF AddRecord
  <2> HIDE DEF row
  <2>3. \A k \in DOMAIN rows' : (k \in DOMAIN rows /\ rows'[k] = rows[k]) \/ rows'[k].out = NoPath
    BY <2>1, <2>2
  <2> QED BY <2>3 DEF OutputInv, PathInv, IsPath
<1>3. OperationsLeft(1)
  BY TailIsLeft
<1>4. CASE op.by = "admit"
  <2>1. op.req \in Requests /\ admit[op.req].step = "adding"
    BY <1>1, <1>4 DEF QueueInv, OneAdd, Operations
  <2>2. up /\ restoring \notin {"listing", "retry"} /\ \A j \in DOMAIN toStore : ~IsList(toStore[j])
    BY <2>1, BusyIsUp DEF OutputInv, PhaseInv
  <2>3. encoders' = Append(encoders, NewEncoder(id, op.req)) /\ UNCHANGED <<restoring, todo, listed>>
    BY <1>4 DEF AddAnswered, Enqueue, restoration
  <2>4. \A j \in DOMAIN toStore' : ~IsList(toStore'[j])
    BY <1>3, <2>2 DEF OperationsLeft, IsList
  <2>5. PhaseInv'
    BY <2>2, <2>3, <2>4, PhaseWhileBusy DEF OutputInv
  <2>6. EncoderInv' /\ TodoInv'
    BY <2>3, FreshEncoderFits DEF OutputInv, EncoderInv
  <2>7. PathInv'
    BY <1>3, <1>2, <2>3, PathsHold DEF OperationsLeft, OutputInv, PathInv
  <2>8. KeptInv'
    BY KeptHolds DEF OutputInv, FilesGoOn
  <2> QED BY <2>5, <2>6, <2>7, <2>8 DEF OutputInv
<1>5. CASE op.by # "admit"
  BY <1>5, <1>2, <1>3, SameGoOn, LeftOutputs DEF NobodyWaits, restoration
<1> QED BY <1>4, <1>5

\* The records are listed while nobody converts.
LEMMA ListedOutputs ==
    ASSUME TypeOK, TypeOK', OutputInv, toStore # <<>>, toStore' = Tail(toStore), IsList(Head(toStore)), Listed,
           UNCHANGED <<rows, toService, up, sources, files>>
    PROVE  OutputInv'
<1>1. /\ Head(toStore) = toStore[1] /\ 1 \in DOMAIN toStore /\ Len(toStore) \in Nat
      /\ DOMAIN toStore = 1 .. Len(toStore) /\ DOMAIN toStore' = 1 .. Len(toStore) - 1
      /\ \A k \in 1 .. Len(toStore) - 1 : toStore'[k] = toStore[k + 1]
  BY TailTypes
<1>2. /\ restoring = "listing" /\ Nothing /\ up
      /\ \A j \in DOMAIN toStore : IsList(toStore[j]) => j = 1
  BY <1>1 DEF OutputInv, PhaseInv
<1>3. \A j \in DOMAIN toStore' : ~IsList(toStore'[j])
  BY <1>1, <1>2
<1>4. /\ restoring' = "restoring" /\ todo' \in [DOMAIN rows -> Range(rows)] /\ UNCHANGED <<admit, encoders>>
  BY DEF Listed, ListedRecords
<1>5. PhaseInv'
  BY <1>2, <1>3, <1>4 DEF PhaseInv
<1>6. \A k \in DOMAIN todo' : IsPath(todo'[k].out, files)
  BY <1>4 DEF Range, OutputInv, PathInv
<1>7. PathInv'
  BY TailIsLeft, <1>6, PathsHold DEF OperationsLeft, OutputInv, PathInv
<1>8. EncoderInv' /\ TodoInv'
  BY <1>2, <1>4 DEF Nothing, EncoderInv, TodoInv
<1>9. KeptInv'
  BY KeptHolds DEF OutputInv, FilesGoOn
<1> QED BY <1>5, <1>7, <1>8, <1>9 DEF OutputInv

LEMMA StoreStepOutputs ==
    ASSUME TypeOK, TypeOK', QueueInv, OutputInv, StoreStep
    PROVE  OutputInv'
<1>1. PICK op : op = Head(toStore)
  OBVIOUS
<1>2. toStore # <<>> /\ toStore' = Tail(toStore) /\ UNCHANGED <<toService, up, sources, files>>
  BY DEF StoreStep, disk
<1>3. op = toStore[1] /\ 1 \in DOMAIN toStore
  BY <1>1, <1>2, TailTypes
<1>4. OperationsLeft(1)
  BY <1>2, TailIsLeft
<1>5. CASE op.op = "add"
  BY <1>1, <1>2, <1>5, AddedOutputs DEF StoreStep
<1>6. ASSUME NobodyWaits, \A k \in DOMAIN rows' : IsPath(rows'[k].out, files)
      PROVE  OutputInv'
  BY <1>6, <1>2, <1>4, SameGoOn, LeftOutputs DEF NobodyWaits, restoration
<1>7. UNCHANGED rows => \A k \in DOMAIN rows' : IsPath(rows'[k].out, files)
  BY DEF OutputInv, PathInv
<1>8. CASE op.op = "abandon"
  BY <1>1, <1>8, <1>6, <1>7, DeletedPaths DEF StoreStep, store
<1>9. CASE op.op = "output" \/ op.op = "remove"
  <2>1. Returned(op)
    BY <1>1, <1>9 DEF StoreStep
  <2>2. \A k \in DOMAIN rows' : IsPath(rows'[k].out, files)
    <3>1. CASE op.op = "output"
      <4>1. rows' = [i \in DOMAIN rows |->
                           IF rows[i].id = op.id THEN [rows[i] EXCEPT !.out = op.out] ELSE rows[i]]
        BY <1>1, <3>1 DEF StoreStep
      <4>2. rows \in Seq(Records) /\ DOMAIN rows = 1 .. Len(rows)
        BY LenProperties DEF TypeOK
      <4>3. \A k \in DOMAIN rows : [rows[k] EXCEPT !.out = op.out].out = op.out
        BY <4>2 DEF Records
      <4>4. \A k \in DOMAIN rows' : k \in DOMAIN rows /\ rows'[k].out \in {op.out, rows[k].out}
        BY <4>1, <4>3
      <4> QED BY <1>3, <4>4 DEF OutputInv, PathInv
    <3>2. CASE op.op = "remove"
      BY <1>1, <3>2, DeletedPaths DEF StoreStep
    <3> QED BY <1>9, <3>1, <3>2
  <2> QED BY <1>2, <1>4, <2>1, <2>2, ReturnedOutputs, LeftOutputs
<1>10. CASE op.op = "list"
  <2>1. UNCHANGED rows /\ IF op.by = "restore" THEN Listed ELSE NobodyWaits
    BY <1>1, <1>10 DEF StoreStep, store
  <2>2. CASE op.by = "restore"
    BY <1>1, <1>2, <1>10, <2>1, <2>2, ListedOutputs DEF IsList
  <2>3. CASE op.by # "restore"
    BY <1>6, <1>7, <2>1, <2>3
  <2> QED BY <2>2, <2>3
<1> QED BY <1>1, <1>5, <1>8, <1>9, <1>10 DEF StoreStep

LEMMA CallFailsOutputs ==
    ASSUME TypeOK, TypeOK', QueueInv, OutputInv, NEW i \in DOMAIN toStore, NEW dropped \in BOOLEAN,
           CallFails(i, dropped), toStore[i].op # "list"
    PROVE  OutputInv'
<1>1. PICK op : op = toStore[i]
  OBVIOUS
<1>2. PICK rest : rest = Rest(i, dropped)
  OBVIOUS
<1>3. PICK d \in {0, 1} : d = IF dropped THEN 1 ELSE 0
  OBVIOUS
<1>4. (dropped => i = 1) /\ UNCHANGED <<rows, toService, up, sources, files>>
  BY DEF CallFails, store, disk
<1>5. /\ rest \in Seq(Operations)
      /\ \A k \in DOMAIN rest :
            /\ k + d \in DOMAIN toStore /\ rest[k].op = toStore[k + d].op /\ rest[k].out = toStore[k + d].out
            /\ rest[k].by = IF k + d = i THEN "nobody" ELSE toStore[k + d].by
  BY <1>2, <1>3, <1>4, RestTypes
<1>6. \A k \in DOMAIN rows' : IsPath(rows'[k].out, files)
  BY <1>4 DEF OutputInv, PathInv
<1>7. CASE Returned(op) /\ toStore' = rest
  <2>1. OperationsLeft(d)
    BY <1>5, <1>7 DEF OperationsLeft
  <2> QED BY <1>4, <1>6, <1>7, <2>1, ReturnedOutputs, LeftOutputs
<1>8. CASE op.op = "add" /\ op.by = "admit" /\ AddFailed(op.req, rest)
  <2>1. op \in Operations /\ op.req \in Requests
    BY <1>1, OperationParts
  <2>2. admit[op.req].step = "adding"
    BY <1>1, <1>8, <2>1 DEF QueueInv, OneAdd
  <2>3. up /\ restoring \notin {"listing", "retry"} /\ \A j \in DOMAIN toStore : ~IsList(toStore[j])
    BY <2>1, <2>2, BusyIsUp DEF OutputInv, PhaseInv
  <2> DEFINE new == Op("abandon", 0, op.req, NoPath, "nobody")
  <2>4. new \in Operations /\ new.op = "abandon" /\ new.out = NoPath
    BY <2>1 DEF Op, Operations, NoPath
  <2> HIDE DEF new
  <2>5. /\ toStore' = Append(rest, new)
        /\ UNCHANGED <<encoders, restoring, todo, listed>>
    BY <1>8 DEF AddFailed, restoration, new
  <2>6. \A k \in DOMAIN toStore' : (k \in DOMAIN rest /\ toStore'[k] = rest[k]) \/ toStore'[k] = new
    BY <1>5, <2>4, <2>5
  <2>7. \A k \in DOMAIN toStore' : ~IsList(toStore'[k]) /\ IsPath(toStore'[k].out, files)
    BY <1>5, <2>3, <2>4, <2>6 DEF IsList, OutputInv, PathInv, IsPath
  <2>8. PhaseInv'
    BY <1>4, <2>3, <2>5, <2>7, PhaseWhileBusy DEF OutputInv
  <2> QED BY <1>4, <2>5, <2>7, <2>8, SameGoOn, OutputsHold
<1> QED BY <1>1, <1>2, <1>7, <1>8 DEF CallFails, Rest

\* The disturbances are only counted up.
LEMMA DisturbCounts ==
    ASSUME TypeOK, NEW kind \in Kinds, Disturb(kind)
    PROVE  \A k \in Kinds : faults'[k] = IF k = kind THEN faults[k] + 1 ELSE faults[k]
  BY DEF TypeOK, Disturb, Kinds

LEMMA FaultsGoOn ==
    ASSUME TypeOK, UNCHANGED faults \/ Fault \/ \E kind \in Kinds : Disturb(kind)
    PROVE  \A k \in Kinds : faults[k] \in Nat /\ faults'[k] >= faults[k]
<1>1. faults \in [Kinds -> Nat]
  BY DEF TypeOK, Kinds
<1>2. UNCHANGED faults \/ \E kind \in Kinds : Disturb(kind)
  BY DEF Fault, Kinds
<1> QED BY <1>1, <1>2, DisturbCounts

LEMMA InitOutputs == Init => OutputInv
<1> SUFFICES ASSUME Init PROVE OutputInv
  OBVIOUS
<1>1. /\ DOMAIN rows = {} /\ DOMAIN todo = {} /\ DOMAIN encoders = {} /\ DOMAIN toStore = {} /\ DOMAIN files = {}
      /\ \A r \in Requests : admit[r].step = "none"
  BY DEF Init, Idle
<1>2. PhaseInv
  BY <1>1 DEF Init, PhaseInv, Nothing
<1>3. KeptInv
  BY <1>1 DEF Init, KeptInv
<1> QED BY <1>1, <1>2, <1>3 DEF OutputInv, PathInv, EncoderInv, TodoInv

\* A list that is under way alone can fail a list() call.
LEMMA CallFailsForced ==
    ASSUME TypeOK, NEW i \in DOMAIN toStore, NEW dropped \in BOOLEAN, CallFails(i, dropped)
    PROVE  /\ \A k \in Kinds : faults[k] \in Nat /\ faults'[k] >= faults[k]
           /\ Unforced' => toStore[i].op # "list"
           /\ ~Faultless'
<1>1. IF toStore[i].op = "list" THEN Disturb("list") ELSE Disturb("fault")
  BY DEF CallFails, Fault
<1>2. /\ "list" \in Kinds /\ "fault" \in Kinds /\ faults["list"] \in Nat /\ faults["fault"] \in Nat
      /\ \A k \in Kinds : faults[k] \in Nat
  BY DEF TypeOK, Kinds
<1>3. CASE toStore[i].op = "list"
  BY <1>1, <1>2, <1>3, DisturbCounts DEF Unforced, Faultless
<1>4. CASE toStore[i].op # "list"
  BY <1>1, <1>2, <1>4, DisturbCounts DEF Faultless
<1> QED BY <1>3, <1>4

\* Every step but a failed list keeps them.
LEMMA NextOutputs ==
    ASSUME TypeOK, TypeOK', QueueInv, OutputInv, [Next]_vars, Unforced'
    PROVE  OutputInv'
<1>1. CASE UNCHANGED vars
  BY <1>1, UnchangedOutputs
<1>2. ASSUME NEW r \in Requests, TakeLock(r) \/ Acquire(r) \/ PushEnter(r) \/ EnqueueFromRecording(r) \/ AcquireRefused(r)
      PROVE  OutputInv'
  BY <1>2, TakeLockOutputs, AcquireOutputs, PushEnterOutputs, EnqueueFromRecordingOutputs, AcquireRefusedOutputs
<1>3. CASE HandOver \/ StoreStep \/ CheckQueue \/ TimerFires \/ SuspendEnds \/ SuspendBegins
  BY <1>3, HandOverOutputs, StoreStepOutputs, CheckQueueOutputs, TimerFiresOutputs
<1>4. CASE ServiceStart \/ RetryList \/ RestoreNext \/ RestoreEnd \/ RestoreNextFails \/ WholeCrash
  BY <1>4, ServiceStartOutputs, RetryListOutputs, RestoreNextOutputs, RestoreEndOutputs, RestoreNextFailsOutputs,
     WholeCrashOutputs
<1>5. ASSUME NEW i \in DOMAIN encoders,
             \/ StartDone(i) \/ ExitWell(i) \/ ExitBadly(i) \/ Register(i, TRUE) \/ Register(i, FALSE)
             \/ DeleteOriginal(i) \/ Finalize(i) \/ ReleaseEncoder(i)
             \/ StartFails(i) \/ CancelRunning(i) \/ CancelWaiting(i)
      PROVE  OutputInv'
  BY <1>5, StartDoneOutputs, ExitWellOutputs, ExitBadlyOutputs, RegisterOutputs, DeleteOriginalOutputs,
     FinalizeOutputs, ReleaseEncoderOutputs, StartFailsOutputs, CancelWaitingOutputs DEF CancelRunning
<1>6. ASSUME NEW i \in DOMAIN toStore, NEW dropped \in BOOLEAN, CallFails(i, dropped)
      PROVE  OutputInv'
  BY <1>6, CallFailsForced, CallFailsOutputs
<1>7. ASSUME NEW n \in 0 .. Len(toStore), ServiceCrash(n)
      PROVE  OutputInv'
  BY <1>7, ServiceCrashOutputs
<1> QED BY <1>1, <1>2, <1>3, <1>4, <1>5, <1>6, <1>7 DEF Next, Progress, Environment

LEMMA FaultIsCounted ==
    ASSUME TypeOK, FailingStep
    PROVE  ~Faultless' /\ \A k \in Kinds : faults[k] \in Nat /\ faults'[k] >= faults[k]
<1>1. CASE \E i \in DOMAIN toStore, dropped \in BOOLEAN : CallFails(i, dropped)
  BY <1>1, CallFailsForced
<1>2. CASE Disturb("fault")
  <2>1. "fault" \in Kinds /\ \A k \in Kinds : faults[k] \in Nat
    BY DEF TypeOK, Kinds
  <2>2. \A k \in Kinds : faults'[k] = IF k = "fault" THEN faults[k] + 1 ELSE faults[k]
    BY <1>2, <2>1, DisturbCounts
  <2> QED BY <2>1, <2>2 DEF Faultless
<1> QED BY <1>1, <1>2 DEF FailingStep, AcquireRefused, StartFails, Register, RestoreNextFails, Fault

LEMMA NextCounts ==
    ASSUME TypeOK, [Next]_vars
    PROVE  (Unforced' => Unforced) /\ (Faultless' => Faultless) /\ (faults'.fault = 0 => faults.fault = 0)
<1>1. ASSUME UNCHANGED faults \/ \E kind \in Kinds : Disturb(kind)
      PROVE  \A k \in Kinds : faults[k] \in Nat /\ faults'[k] >= faults[k]
  BY <1>1, FaultsGoOn
<1>2. "crash" \in Kinds /\ "suspend" \in Kinds /\ "starts" \in Kinds /\ "fault" \in Kinds /\ "list" \in Kinds
  BY DEF Kinds
<1>3. ASSUME \A k \in Kinds : faults[k] \in Nat /\ faults'[k] >= faults[k]
      PROVE  (Unforced' => Unforced) /\ (Faultless' => Faultless) /\ (faults'.fault = 0 => faults.fault = 0)
  BY <1>2, <1>3 DEF Unforced, Faultless
<1>4. CASE FailingStep
  BY <1>3, <1>4, FaultIsCounted
<1>5. CASE UNCHANGED faults
  BY <1>1, <1>3, <1>5
<1>6. ASSUME NEW kind \in {"crash", "suspend", "starts"}, Disturb(kind)
      PROVE  (Unforced' => Unforced) /\ (Faultless' => Faultless) /\ (faults'.fault = 0 => faults.fault = 0)
  BY <1>1, <1>2, <1>3, <1>6
<1>7. FailingStep \/ UNCHANGED faults \/ \E kind \in {"crash", "suspend", "starts"} : Disturb(kind)
  <2>1. CASE UNCHANGED vars
    BY <2>1 DEF vars
  <2>2. ASSUME NEW r \in Requests, TakeLock(r) \/ Acquire(r) \/ PushEnter(r) \/ EnqueueFromRecording(r) \/ AcquireRefused(r)
        PROVE  FailingStep \/ UNCHANGED faults
    BY <2>2 DEF FailingStep, TakeLock, Acquire, PushEnter, EnqueueFromRecording
  <2>3. CASE HandOver \/ StoreStep \/ TimerFires \/ SuspendEnds
    BY <2>3 DEF HandOver, StoreStep, TimerFires, SuspendEnds
  <2>4. CASE CheckQueue \/ SuspendBegins
    BY <2>4 DEF CheckQueue, SuspendBegins
  <2>5. CASE ServiceStart \/ RetryList \/ RestoreNext \/ RestoreEnd \/ RestoreNextFails
    BY <2>5 DEF FailingStep, ServiceStart, RetryList, RestoreNext, RestoreEnd
  <2>6. ASSUME NEW i \in DOMAIN encoders,
               \/ StartDone(i) \/ ExitWell(i) \/ ExitBadly(i) \/ Register(i, TRUE) \/ Register(i, FALSE)
               \/ DeleteOriginal(i) \/ Finalize(i) \/ ReleaseEncoder(i)
               \/ StartFails(i) \/ CancelRunning(i) \/ CancelWaiting(i)
        PROVE  FailingStep \/ UNCHANGED faults
    BY <2>6 DEF FailingStep, StartDone, ExitWell, ExitBadly, Register, DeleteOriginal, Finalize, ReleaseEncoder,
                CancelRunning, CancelWaiting
  <2>7. ASSUME NEW i \in DOMAIN toStore, NEW dropped \in BOOLEAN, CallFails(i, dropped)
        PROVE  FailingStep
    BY <2>7 DEF FailingStep
  <2>8. CASE WholeCrash \/ \E n \in 0 .. Len(toStore) : ServiceCrash(n)
    BY <2>8 DEF WholeCrash, ServiceCrash, ServiceGone
  <2> QED BY <2>1, <2>2, <2>3, <2>4, <2>5, <2>6, <2>7, <2>8 DEF Next, Progress, Environment
<1> QED BY <1>4, <1>5, <1>6, <1>7

-----------------------------------------------------------------------------
(* Who works for a request, as long as no call fails. *)

LEMMA WorkIsOld ==
    ASSUME EncodersWork
    PROVE  NoNewEncoder
  BY DEF EncodersWork, Later, NoNewEncoder, HasEncoder

LEMMA SameWork ==
    ASSUME WorkInv, UNCHANGED encoders
    PROVE  EncodersWork /\ EncodersWait
  BY DEF Later, WorkInv, EncodersWork, EncodersWait

LEMMA StepWorks ==
    ASSUME TypeOK, WorkInv, NEW i \in DOMAIN encoders, NEW e, EncoderSteps(i, e), Later(encoders[i], e),
           encoders[i].step \notin {"starting", "removing"}
    PROVE  EncodersWork /\ EncodersWait
<1>1. encoders \in Seq(EncoderStates) /\ e \in EncoderStates
  BY DEF TypeOK, EncoderSteps
<1>2. /\ DOMAIN encoders' = DOMAIN encoders
      /\ \A k \in DOMAIN encoders : encoders'[k] = IF k = i THEN e ELSE encoders[k]
  BY <1>1, EncoderChanges DEF EncoderSteps
<1>3. \A k \in DOMAIN encoders : Later(encoders[k], encoders'[k])
  BY <1>2 DEF Later
<1>4. EncodersWork
  BY <1>3, <1>2 DEF Later, EncodersWork, WorkInv
<1>5. EncodersWait
  BY <1>2 DEF EncodersWait, Starting, Leaving
<1> QED BY <1>4, <1>5

LEMMA MovedWorks ==
    ASSUME TypeOK, WorkInv, NEW i \in DOMAIN encoders, NEW e \in EncoderStates,
           encoders' = Append(RemoveAt(encoders, i), e), Later(encoders[i], e),
           encoders[i].step \notin {"starting", "removing"}
    PROVE  EncodersWork /\ EncodersWait
<1>1. encoders \in Seq(EncoderStates) /\ DOMAIN encoders = 1 .. Len(encoders) /\ Len(encoders) \in Nat
  BY LenProperties DEF TypeOK
<1>2. /\ DOMAIN encoders' = DOMAIN encoders
      /\ \A k \in DOMAIN encoders : encoders'[k] = IF k = Len(encoders) THEN e ELSE encoders[Shift(i, k)]
  <2>1. /\ DOMAIN Append(RemoveAt(encoders, i), e) = DOMAIN encoders
        /\ \A k \in DOMAIN encoders : Append(RemoveAt(encoders, i), e)[k]
                                       = IF k = Len(encoders) THEN e ELSE encoders[Shift(i, k)]
    <3>1. encoders \in Seq(EncoderStates)
      BY <1>1
    <3>2. i \in DOMAIN encoders
      OBVIOUS
    <3>3. e \in EncoderStates
      OBVIOUS
    <3> QED BY ONLY <3>1, <3>2, <3>3, EncodersMove
  <2> QED BY <2>1
<1> DEFINE Old(k) == IF k = Len(encoders) THEN i ELSE Shift(i, k)
<1>3. /\ \A k \in DOMAIN encoders : Old(k) \in DOMAIN encoders
      /\ \A k, l \in DOMAIN encoders : Old(k) = Old(l) => k = l
  BY <1>1 DEF Shift
<1>4. \A l \in DOMAIN encoders : l # i => \E k \in DOMAIN encoders : k # Len(encoders) /\ Old(k) = l
  <2> SUFFICES ASSUME NEW l \in DOMAIN encoders, l # i
               PROVE  \E k \in DOMAIN encoders : k # Len(encoders) /\ Old(k) = l
    OBVIOUS
  <2>1. CASE l < i
    BY <1>1, <2>1 DEF Shift
  <2>2. CASE ~(l < i)
    <3>1. l - 1 \in DOMAIN encoders /\ l - 1 # Len(encoders) /\ Old(l - 1) = l
      BY <1>1, <2>2 DEF Shift
    <3> QED BY <3>1
  <2> QED BY <2>1, <2>2
<1>5. \A k \in DOMAIN encoders : k # Len(encoders) => encoders'[k] = encoders[Old(k)]
  BY <1>2
<1>6. \A k \in DOMAIN encoders : Later(encoders[Old(k)], encoders'[k])
  BY <1>2, <1>5 DEF Later
<1> HIDE DEF Old
<1>7. EncodersWork
  <2>1. \A k \in DOMAIN encoders : encoders'[k].id = encoders[Old(k)].id
    BY <1>6 DEF Later
  <2>2. \A k, l \in DOMAIN encoders' : encoders'[k].id = encoders'[l].id => k = l
    <3> SUFFICES ASSUME NEW k \in DOMAIN encoders, NEW l \in DOMAIN encoders, encoders'[k].id = encoders'[l].id
                 PROVE  k = l
      BY <1>2
    <3>1. encoders[Old(k)].id = encoders[Old(l)].id /\ Old(k) \in DOMAIN encoders /\ Old(l) \in DOMAIN encoders
      BY <1>3, <2>1
    <3>2. \A m, n \in DOMAIN encoders : encoders[m].id = encoders[n].id => m = n
      BY DEF WorkInv
    <3>3. Old(k) = Old(l)
      BY <3>1, <3>2
    <3> QED BY <1>3, <3>3
  <2>3. \A k \in DOMAIN encoders' : \E l \in DOMAIN encoders : Later(encoders[l], encoders'[k])
    BY <1>2, <1>3, <1>6
  <2> QED BY <2>2, <2>3 DEF EncodersWork
<1>8. EncodersWait
  <2>1. \A l \in DOMAIN encoders : l # i => \E k \in DOMAIN encoders' : encoders'[k] = encoders[l]
    BY <1>2, <1>4, <1>5
  <2> QED BY <2>1 DEF EncodersWait, Starting, Leaving
<1> QED BY <1>7, <1>8

\* One encoder goes: nobody else's work changes.
LEMMA GoneWorks ==
    ASSUME TypeOK, WorkInv, NEW i \in DOMAIN encoders, WithoutEncoder(i)
    PROVE  /\ EncodersWork /\ ~HasEncoder(encoders[i].id, encoders')
           /\ \A id, file : id # encoders[i].id /\ Starting(id, file, encoders) => Starting(id, file, encoders')
           /\ \A id : id # encoders[i].id /\ Leaving(id, encoders) => Leaving(id, encoders')
<1>1. encoders \in Seq(EncoderStates) /\ DOMAIN encoders = 1 .. Len(encoders) /\ Len(encoders) \in Nat
  BY LenProperties DEF TypeOK
<1>2. encoders' = RemoveAt(encoders, i)
  BY DEF WithoutEncoder
<1>3. /\ DOMAIN encoders' = 1 .. Len(encoders) - 1
      /\ \A k \in 1 .. Len(encoders) - 1 : Shift(i, k) \in DOMAIN encoders \ {i} /\ encoders'[k] = encoders[Shift(i, k)]
      /\ \A k, l \in 1 .. Len(encoders) - 1 : Shift(i, k) = Shift(i, l) => k = l
  BY <1>1, EncodersShrink, <1>2
<1>4. \A l \in DOMAIN encoders : l # i => \E k \in 1 .. Len(encoders) - 1 : Shift(i, k) = l
  <2> SUFFICES ASSUME NEW l \in DOMAIN encoders, l # i
               PROVE  \E k \in 1 .. Len(encoders) - 1 : Shift(i, k) = l
    OBVIOUS
  <2>1. CASE l < i
    BY <1>1, <2>1 DEF Shift
  <2>2. CASE ~(l < i)
    <3>1. l - 1 \in 1 .. Len(encoders) - 1 /\ Shift(i, l - 1) = l
      BY <1>1, <2>2 DEF Shift
    <3> QED BY <3>1
  <2> QED BY <2>1, <2>2
<1>5. \A d : Later(d, d)
  BY DEF Later
<1>6. \A k, l \in DOMAIN encoders : encoders[k].id = encoders[l].id => k = l
  BY DEF WorkInv
<1>7. EncodersWork
  <2>1. \A k \in DOMAIN encoders' : \E l \in DOMAIN encoders : Later(encoders[l], encoders'[k])
    BY <1>3, <1>5
  <2>2. ASSUME NEW k \in DOMAIN encoders', NEW l \in DOMAIN encoders', encoders'[k].id = encoders'[l].id
        PROVE  k = l
    BY <1>3, <1>6, <2>2
  <2> QED BY <2>1, <2>2 DEF EncodersWork
<1>8. ~HasEncoder(encoders[i].id, encoders')
  BY <1>3, <1>6 DEF HasEncoder
<1>9. \A l \in DOMAIN encoders : l # i => \E k \in DOMAIN encoders' : encoders'[k] = encoders[l]
  BY <1>3, <1>4
<1>10. /\ \A id, file : id # encoders[i].id /\ Starting(id, file, encoders) => Starting(id, file, encoders')
       /\ \A id : id # encoders[i].id /\ Leaving(id, encoders) => Leaving(id, encoders')
  BY <1>9 DEF Starting, Leaving
<1> QED BY <1>7, <1>8, <1>10

\* A new encoder comes.
LEMMA NewWorks ==
    ASSUME TypeOK, WorkInv, NEW id, NEW r, encoders' = Append(encoders, NewEncoder(id, r)), ~HasEncoder(id, encoders)
    PROVE  /\ \A k \in DOMAIN encoders' : \/ k \in DOMAIN encoders /\ encoders'[k] = encoders[k]
                                          \/ encoders'[k] = NewEncoder(id, r)
           /\ \A k, l \in DOMAIN encoders' : encoders'[k].id = encoders'[l].id => k = l
           /\ EncodersWait
           /\ \A x : HasEncoder(x, encoders') => HasEncoder(x, encoders) \/ x = id
<1>1. encoders \in Seq(EncoderStates) /\ DOMAIN encoders = 1 .. Len(encoders) /\ Len(encoders) \in Nat
  BY LenProperties DEF TypeOK
<1> DEFINE e == NewEncoder(id, r)
<1>2. e.id = id
  BY DEF NewEncoder
<1> HIDE DEF e
<1>3. encoders' = Append(encoders, e)
  BY DEF e
<1>4. /\ DOMAIN encoders' = 1 .. Len(encoders) + 1
      /\ \A k \in DOMAIN encoders : encoders'[k] = encoders[k]
      /\ encoders'[Len(encoders) + 1] = e
  BY <1>1, <1>3
<1>5. \A k \in DOMAIN encoders' : (k \in DOMAIN encoders /\ encoders'[k] = encoders[k]) \/ (k = Len(encoders) + 1 /\ encoders'[k] = e)
  BY <1>1, <1>4
<1>6. \A k, l \in DOMAIN encoders' : encoders'[k].id = encoders'[l].id => k = l
  BY <1>2, <1>5 DEF WorkInv, HasEncoder
<1>7. \A l \in DOMAIN encoders : l \in DOMAIN encoders' /\ encoders'[l] = encoders[l]
  BY <1>1, <1>4
<1>8. EncodersWait
  BY <1>7 DEF EncodersWait, Starting, Leaving
<1>9. \A x : HasEncoder(x, encoders') => HasEncoder(x, encoders) \/ x = id
  BY <1>2, <1>5 DEF HasEncoder
<1> QED BY <1>5, <1>6, <1>8, <1>9 DEF e

\* What one part keeps, from what the others keep.
LEMMA WorkHolds ==
    ASSUME WorkInv, EncodersWork, RowsStay, \A k, l \in DOMAIN rows' : rows'[k].id = rows'[l].id => k = l
    PROVE  WorkInv'
  BY DEF EncodersWork, Later, WorkInv, RowsStay

LEMMA RestoreHolds ==
    ASSUME RestoreInv, UNCHANGED <<restoring, todo, listed>>, NoNewEncoder,
           \A k \in DOMAIN todo : \A l \in DOMAIN rows : rows[l] = todo[k] => \E m \in DOMAIN rows' : rows'[m] = todo[k],
           restoring = "restoring" => \A r \in Requests : admit'[r].step = "none"
    PROVE  RestoreInv'
  BY DEF RestoreInv, NoNewEncoder

LEMMA AdmitHolds ==
    ASSUME AdmitInv, RowsStay, NoNewEncoder,
           \A r \in FromRecording : admit'[r].step # "none" =>
               /\ admit[r].step # "none" /\ admit'[r].id = admit[r].id
               /\ NoFile(r, files) => NoFile(r, files')
    PROVE  AdmitInv'
  BY DEF AdmitInv, RowsStay, NoNewEncoder

LEMMA MessageHolds ==
    ASSUME MessageInv, UNCHANGED toService, listed \subseteq listed', RowsStay, NoNewEncoder,
           \A id : Admitting(id, admit') => Admitting(id, admit),
           \A k \in DOMAIN toService : toService[k].id \notin listed =>
               /\ NoFile(toService[k].req, files) => NoFile(toService[k].req, files')
               /\ ~Removing(toService[k].id, toStore')
    PROVE  MessageInv'
  BY DEF MessageInv, RowsStay, NoNewEncoder

LEMMA FreshHolds ==
    ASSUME FreshInv,
           \A r \in Requests : job'[r] = "new" => job[r] = "new" /\ (NoFile(r, files) => NoFile(r, files')),
           \A i \in DOMAIN toStore' : toStore'[i].op = "add" =>
               \/ \E j \in DOMAIN toStore : /\ toStore[j].op = "add" /\ toStore[j].req = toStore'[i].req
                                            /\ NoFile(toStore[j].req, files) => NoFile(toStore[j].req, files')
               \/ NoFile(toStore'[i].req, files')
    PROVE  FreshInv'
  BY DEF FreshInv

LEMMA FirstHolds ==
    ASSUME FirstInv, TypeOK', \A r, f : Registered(r, f, files') => Registered(r, f, files),
           \A k \in DOMAIN rows' : \E l \in DOMAIN rows : rows'[k] = rows[l],
           \A k \in DOMAIN encoders' : \E l \in DOMAIN encoders : Later(encoders[l], encoders'[k]),
           \A i \in DOMAIN toStore' : toStore'[i].op = "output" =>
               \/ \E j \in DOMAIN toStore : toStore[j].op = "output" /\ toStore[j].id = toStore'[i].id
               \/ \A k \in DOMAIN rows', f \in DOMAIN files' :
                     rows'[k].id = toStore'[i].id => ~Registered(rows'[k].req, f, files')
    PROVE  FirstInv'
  BY DEF Registered, FirstInv, Later

\* The operations under way, and one more that is sent.
LEMMA LeftHolds ==
    ASSUME LeftInv, UNCHANGED <<toStore, up, restoring>>
    PROVE  LeftInv'
  BY DEF LeftInv, IsList

LEMMA PendingHolds ==
    ASSUME PendingInv, UNCHANGED toStore, \A id, file : Starting(id, file, encoders) => Starting(id, file, encoders')
    PROVE  PendingInv'
  BY DEF PendingInv

\* What was to be removed still is.
LEMMA OldRemovals ==
    ASSUME RemovalInv, RowsStay,
           \A j \in DOMAIN toStore : toStore[j].by = "restore" /\ restoring = "restoring" => NoNewEncoder,
           \A id : Leaving(id, encoders) => Leaving(id, encoders'),
           \A i \in DOMAIN toStore : toStore[i].op = "remove" /\ toStore[i].by = "admit" =>
               (admit[toStore[i].req].step = "rejecting" => admit'[toStore[i].req] = admit[toStore[i].req]),
           \A i \in DOMAIN toStore : toStore[i].by = "restore" => (restoring = "restoring" => restoring' = "restoring"),
           listed \subseteq listed', \A k \in DOMAIN todo' : \E l \in DOMAIN todo : todo'[k] = todo[l],
           NEW i \in DOMAIN toStore, toStore[i].op = "remove"
    PROVE  /\ HasRow(toStore[i].id, toStore[i].req, rows')
           /\ toStore[i].by = "encoder" => Leaving(toStore[i].id, encoders')
           /\ toStore[i].by = "admit" =>
                 admit'[toStore[i].req].step = "rejecting" /\ admit'[toStore[i].req].id = toStore[i].id
           /\ toStore[i].by = "restore" =>
                 /\ restoring' = "restoring" /\ toStore[i].id \in listed'
                 /\ ~HasEncoder(toStore[i].id, encoders') /\ \A k \in DOMAIN todo' : todo'[k].id # toStore[i].id
  BY DEF RemovalInv, RowsStay, NoNewEncoder

LEMMA RemovalHolds ==
    ASSUME RemovalInv, UNCHANGED toStore, RowsStay,
           \A j \in DOMAIN toStore : toStore[j].by = "restore" /\ restoring = "restoring" => NoNewEncoder,
           \A id : Leaving(id, encoders) => Leaving(id, encoders'),
           \A i \in DOMAIN toStore : toStore[i].op = "remove" /\ toStore[i].by = "admit" =>
               (admit[toStore[i].req].step = "rejecting" => admit'[toStore[i].req] = admit[toStore[i].req]),
           \A i \in DOMAIN toStore : toStore[i].by = "restore" => (restoring = "restoring" => restoring' = "restoring"),
           listed \subseteq listed', \A k \in DOMAIN todo' : \E l \in DOMAIN todo : todo'[k] = todo[l]
    PROVE  RemovalInv'
  BY OldRemovals DEF RemovalInv

\* An operation is sent by somebody who waits for it.
LEMMA SendIsLast ==
    ASSUME TypeOK, NEW op \in Operations, Send(op)
    PROVE  /\ DOMAIN toStore' = DOMAIN toStore \cup {Len(toStore) + 1} /\ Len(toStore) + 1 \notin DOMAIN toStore
           /\ \A i \in DOMAIN toStore' : \/ i \in DOMAIN toStore /\ toStore'[i] = toStore[i]
                                         \/ i = Len(toStore) + 1 /\ toStore'[i] = op
<1>1. toStore \in Seq(Operations) /\ Len(toStore) \in Nat /\ DOMAIN toStore = 1 .. Len(toStore)
  BY LenProperties DEF TypeOK
<1>2. Len(toStore) + 1 \notin DOMAIN toStore
  BY <1>1
<1>3. /\ DOMAIN toStore' = DOMAIN toStore \cup {Len(toStore) + 1} /\ toStore'[Len(toStore) + 1] = op
      /\ \A k \in DOMAIN toStore : toStore'[k] = toStore[k]
  BY SendTypes
<1> QED BY <1>2, <1>3

LEMMA LeftSent ==
    ASSUME TypeOK, LeftInv, NEW op \in Operations, Send(op), op.by # "nobody", op.op # "abandon",
           UNCHANGED <<up, restoring>>, restoring # "listing"
    PROVE  LeftInv'
  BY SendIsLast DEF LeftInv

LEMMA PendingSent ==
    ASSUME TypeOK, PendingInv, NEW op \in Operations, Send(op), op.op # "output",
           \A id, file : Starting(id, file, encoders) => Starting(id, file, encoders')
    PROVE  PendingInv'
  BY SendIsLast DEF PendingInv

LEMMA RemovalSent ==
    ASSUME TypeOK, RemovalInv, NEW op \in Operations, Send(op), RowsStay,
           \A j \in DOMAIN toStore : toStore[j].by = "restore" /\ restoring = "restoring" => NoNewEncoder,
           \A id : Leaving(id, encoders) => Leaving(id, encoders'),
           \A i \in DOMAIN toStore : toStore[i].op = "remove" /\ toStore[i].by = "admit" =>
               (admit[toStore[i].req].step = "rejecting" => admit'[toStore[i].req] = admit[toStore[i].req]),
           UNCHANGED <<restoring, listed>>, \A k \in DOMAIN todo' : \E l \in DOMAIN todo : todo'[k] = todo[l],
           op.op = "remove" =>
              /\ ~Removing(op.id, toStore) /\ HasRow(op.id, op.req, rows)
              /\ op.by = "encoder" => Leaving(op.id, encoders')
              /\ op.by = "admit" => admit'[op.req].step = "rejecting" /\ admit'[op.req].id = op.id
              /\ op.by = "restore" =>
                    /\ restoring = "restoring" /\ op.id \in listed
                    /\ ~HasEncoder(op.id, encoders') /\ \A k \in DOMAIN todo' : todo'[k].id # op.id
    PROVE  RemovalInv'
  BY OldRemovals, SendIsLast DEF RowsStay, RemovalInv, Removing

-----------------------------------------------------------------------------
(* The conversions keep to their records. *)

LEMMA AlikeFiles ==
    ASSUME FilesAlike
    PROVE  /\ \A r : NoFile(r, files) => NoFile(r, files')
           /\ \A r, f : Registered(r, f, files') => Registered(r, f, files)
  BY DEF FilesAlike, NoFile, Registered

LEMMA QuietOthers ==
    ASSUME OnceInv, EncodersWork, EncodersWait, \A r : NoFile(r, files) => NoFile(r, files'),
           UNCHANGED <<rows, toStore, toService, up, restoring, todo, listed, admit>>,
           \A r \in Requests : job'[r] = "new" => job[r] = "new"
    PROVE  Others'
<1>1. NoNewEncoder /\ RowsStay
  BY WorkIsOld DEF RowsStay
<1>2. WorkInv'
  BY <1>1, WorkHolds DEF OnceInv, WorkInv
<1>3. RestoreInv'
  BY <1>1, RestoreHolds DEF OnceInv, RestoreInv
<1>4. AdmitInv'
  BY <1>1, AdmitHolds DEF OnceInv
<1>5. MessageInv'
  BY <1>1, MessageHolds DEF OnceInv, MessageInv
<1>6. FreshInv'
  BY FreshHolds DEF OnceInv
<1>7. LeftInv' /\ PendingInv'
  BY LeftHolds, PendingHolds DEF OnceInv, EncodersWait
<1>8. RemovalInv'
  BY <1>1, RemovalHolds DEF OnceInv, EncodersWait
<1> QED BY <1>2, <1>3, <1>4, <1>5, <1>6, <1>7, <1>8 DEF Others

LEMMA QuietFirst ==
    ASSUME OnceInv, TypeOK', EncodersWork, FilesAlike, UNCHANGED <<rows, toStore>>
    PROVE  FirstInv'
  BY AlikeFiles, FirstHolds DEF OnceInv, EncodersWork

LEMMA QuietOnce ==
    ASSUME TypeOK', OnceInv, EncodersWork, EncodersWait, FilesAlike,
           UNCHANGED <<rows, toStore, toService, up, restoring, todo, listed, admit>>,
           \A r \in Requests : job'[r] = "new" => job[r] = "new"
    PROVE  OnceInv'
  BY QuietOthers, QuietFirst, AlikeFiles DEF OnceInv, Others

\* One encoder takes a step that neither waits for the store nor is waited for.
LEMMA StepOnce ==
    ASSUME TypeOK, TypeOK', OnceInv, NEW i \in DOMAIN encoders, NEW e, EncoderSteps(i, e), Later(encoders[i], e),
           encoders[i].step \notin {"starting", "removing"}, FilesAlike,
           UNCHANGED <<rows, toStore, toService, up, restoring, todo, listed, admit, job>>
    PROVE  OnceInv'
  BY StepWorks, QuietOnce DEF OnceInv

\* The state of an output changes.
LEMMA StateAlike ==
    ASSUME TypeOK, NEW x \in DOMAIN files, NEW st \in {"none", "partial", "whole"}, ~files[x].registered,
           files' = [files EXCEPT ![x].state = st]
    PROVE  FilesAlike
  BY StateOf DEF FilesAlike

LEMMA StartDoneOnce ==
    ASSUME TypeOK, TypeOK', OutputInv, OnceInv, NEW i \in DOMAIN encoders, StartDone(i)
    PROVE  OnceInv'
<1> DEFINE e == [encoders[i] EXCEPT !.step = "started"]
           x == encoders[i].file
<1>1. EncoderSteps(i, e)
  BY StepOf DEF StartDone, QueuedSteps
<1>2. /\ Fits(encoders[i], files) /\ encoders[i] \in EncoderStates /\ encoders[i].step = "spawning"
      /\ files' = [files EXCEPT ![x].state = "partial"]
  BY EncoderIsBusy DEF StartDone
<1>3. FilesAlike
  BY <1>2, StateAlike DEF Fits
<1>4. Later(encoders[i], e)
  BY <1>2 DEF EncoderStates, Later, Early
<1> HIDE DEF e
<1> QED BY <1>1, <1>2, <1>3, <1>4, StepOnce DEF StartDone, store, restoration

LEMMA ExitWellOnce ==
    ASSUME TypeOK, TypeOK', OutputInv, OnceInv, NEW i \in DOMAIN encoders, ExitWell(i)
    PROVE  OnceInv'
<1> DEFINE settle == IF encoders[i].req \in RemoveOriginal /\ ~SourceStillQueued(i)
                     THEN "registerAndDelete" ELSE "register"
           e == [encoders[i] EXCEPT !.step = "exited", !.settle = settle]
           x == encoders[i].file
<1>1. /\ Fits(encoders[i], files) /\ encoders[i] \in EncoderStates /\ encoders[i].step = "started"
      /\ files' = [files EXCEPT ![x].state = "whole"]
  BY EncoderIsBusy DEF ExitWell
<1>2. settle \in {"none", "register", "registerAndDelete", "delete"} /\ encoders' = [encoders EXCEPT ![i] = e]
  BY DEF ExitWell
<1> HIDE DEF settle
<1>3. EncoderSteps(i, e) /\ Later(encoders[i], e)
  BY <1>1, <1>2 DEF EncoderStates, QueuedSteps, EncoderSteps, Later, Early
<1> HIDE DEF e
<1>4. FilesAlike
  BY <1>1, StateAlike DEF Fits
<1> QED BY <1>1, <1>3, <1>4, StepOnce DEF ExitWell, store, restoration

LEMMA ExitBadlyOnce ==
    ASSUME TypeOK, TypeOK', OutputInv, OnceInv, NEW i \in DOMAIN encoders, ExitBadly(i)
    PROVE  OnceInv'
<1> DEFINE e == [encoders[i] EXCEPT !.step = "exited"]
           x == encoders[i].file
<1>1. EncoderSteps(i, e)
  BY StepOf DEF ExitBadly, QueuedSteps
<1>2. /\ Fits(encoders[i], files) /\ encoders[i] \in EncoderStates /\ encoders[i].step = "started"
      /\ files' = [files EXCEPT ![x].state = "none"]
  BY EncoderIsBusy DEF ExitBadly
<1>3. FilesAlike
  BY <1>2, StateAlike DEF Fits
<1>4. Later(encoders[i], e)
  BY <1>2 DEF EncoderStates, Later, Early
<1> HIDE DEF e
<1> QED BY <1>1, <1>2, <1>3, <1>4, StepOnce DEF ExitBadly, store, restoration

\* An encoder that settles its output has left "starting" and is not at its removal.
LEMMA DeleteOriginalOnce ==
    ASSUME TypeOK, TypeOK', OutputInv, OnceInv, NEW i \in DOMAIN encoders, DeleteOriginal(i)
    PROVE  OnceInv'
<1> DEFINE e == [encoders[i] EXCEPT !.settle = "none"]
<1>1. EncoderSteps(i, e)
  BY SettleOf DEF DeleteOriginal
<1>2. Fits(encoders[i], files) /\ encoders[i] \in EncoderStates /\ encoders[i].settle = "delete"
  BY EncoderIsBusy DEF DeleteOriginal
<1>3. encoders[i].step \in {"exited", "out"}
  BY <1>2 DEF Fits
<1>4. Later(encoders[i], e)
  BY <1>2, <1>3 DEF EncoderStates, Later, Early
<1>5. FilesAlike
  BY DEF DeleteOriginal, FilesAlike
<1> HIDE DEF e
<1> QED BY <1>1, <1>3, <1>4, <1>5, StepOnce DEF DeleteOriginal, store, restoration

LEMMA FinalizeOnce ==
    ASSUME TypeOK, TypeOK', OutputInv, OnceInv, NEW i \in DOMAIN encoders, Finalize(i)
    PROVE  OnceInv'
<1> DEFINE e == [encoders[i] EXCEPT !.step = "out"]
<1>1. EncoderSteps(i, e)
  BY StepOf DEF Finalize, QueuedSteps
<1>2. encoders[i] \in EncoderStates /\ encoders[i].step \in {"exited", "startFailed"}
  BY EncoderParts DEF Finalize
<1>3. Later(encoders[i], e)
  BY <1>2 DEF EncoderStates, Later, Early
<1>4. FilesAlike
  BY DEF Finalize, FilesAlike, disk
<1> HIDE DEF e
<1> QED BY <1>1, <1>2, <1>3, <1>4, StepOnce DEF Finalize, store, restoration

\* The steps that change nothing of this.
LEMMA UnchangedOnce ==
    ASSUME TypeOK', OnceInv, UNCHANGED <<rows, toStore, toService, up, restoring, todo, listed, admit, encoders, files, job>>
    PROVE  OnceInv'
  BY SameWork, QuietOnce DEF OnceInv, FilesAlike

LEMMA ClockOnce ==
    ASSUME TypeOK', OnceInv, TimerFires \/ SuspendBegins \/ SuspendEnds \/ UNCHANGED vars
    PROVE  OnceInv'
<1>1. UNCHANGED <<rows, toStore, toService, up, restoring, todo, listed, admit, encoders, files, job>>
  BY DEF TimerFires, SuspendBegins, SuspendEnds, vars, store, restoration, disk
<1> QED BY <1>1, UnchangedOnce

\* The records, the messages and the listed records are of the requests they name.
LEMMA RowParts ==
    ASSUME TypeOK, NEW k \in DOMAIN rows
    PROVE  rows[k] \in Records /\ rows[k].id \in Ids /\ rows[k].id \in Nat /\ rows[k].req \in Requests /\ rows[k].out \in Nat
<1>1. rows \in Seq(Records) /\ Len(rows) \in Nat /\ DOMAIN rows = 1 .. Len(rows)
  BY LenProperties DEF TypeOK
<1>2. rows[k] \in Records
  BY <1>1
<1> QED BY <1>2, EncodeAssumption DEF Records, Ids

\* A request is known by one id in its record and its conversions.
LEMMA OneId ==
    ASSUME TypeOK, QueueInv, NEW i \in DOMAIN encoders
    PROVE  /\ \A k \in DOMAIN rows : rows[k].req = encoders[i].req => rows[k].id = encoders[i].id
           /\ \A k \in DOMAIN encoders : encoders[k].req = encoders[i].req => encoders[k].id = encoders[i].id
  BY EncoderParts, RowParts DEF Named, QueueInv, OneName

\* The output that is registered is the first one of its request, which the record names.
LEMMA RegisterOnce ==
    ASSUME TypeOK, TypeOK', QueueInv, OutputInv, OnceInv, NEW i \in DOMAIN encoders, Register(i, TRUE)
    PROVE  OnceInv'
<1> DEFINE settle == IF encoders[i].settle = "registerAndDelete" THEN "delete" ELSE "none"
           e == [encoders[i] EXCEPT !.settle = settle]
           x == encoders[i].file
           r0 == encoders[i].req
<1>1. settle \in {"none", "delete"} /\ encoders' = [encoders EXCEPT ![i].settle = settle]
  BY DEF Register
<1>2. /\ Fits(encoders[i], files) /\ encoders[i] \in EncoderStates /\ encoders[i].settle \in {"register", "registerAndDelete"}
      /\ files' = [files EXCEPT ![x].registered = TRUE]
      /\ up /\ restoring # "listing"
  BY EncoderIsBusy DEF Register
<1>3. encoders[i].step \in {"exited", "out"} /\ x # NoPath /\ x \in DOMAIN files /\ files[x].req = r0
  BY <1>2 DEF Fits
<1> HIDE DEF settle
<1>4. EncoderSteps(i, e)
  BY <1>1, SettleOf
<1>5. e.id = encoders[i].id /\ e.req = r0 /\ e.file = x /\ e.step = encoders[i].step /\ e.settle = settle
  BY <1>2 DEF EncoderStates
<1> HIDE DEF e
<1>6. Later(encoders[i], e) /\ ~Early(e) /\ Early(encoders[i])
  BY <1>1, <1>2, <1>3, <1>5 DEF Later, Early
<1>7. /\ DOMAIN files' = DOMAIN files
      /\ \A f \in DOMAIN files : files'[f].req = files[f].req /\ (f # x => files'[f] = files[f])
  <2> DEFINE o == [files[x] EXCEPT !.registered = TRUE]
  <2>1. files \in Seq(Outputs) /\ files[x] \in Outputs
    <3>1. files \in Seq(Outputs)
      BY DEF TypeOK
    <3>2. x \in DOMAIN files
      BY <1>3
    <3> HIDE DEF x
    <3> QED BY <3>1, <3>2
  <2>2. o \in Outputs /\ o.req = files[x].req
    BY <2>1 DEF Outputs
  <2>3. files' = [files EXCEPT ![x] = o]
    BY <1>2
  <2> HIDE DEF o
  <2> QED BY <2>1, <2>2, <2>3, OutputChanges
<1>8. \A r, f : Registered(r, f, files') => Registered(r, f, files) \/ (f = x /\ r = r0)
  BY <1>3, <1>7 DEF Registered
<1>9. EncodersWork /\ EncodersWait
  BY <1>3, <1>4, <1>6, StepWorks DEF OnceInv
<1>10. /\ UNCHANGED <<rows, toStore, toService, up, restoring, todo, listed, admit, job>>
       /\ DOMAIN encoders' = DOMAIN encoders
       /\ \A k \in DOMAIN encoders : encoders'[k] = IF k = i THEN e ELSE encoders[k]
  BY <1>4, EncoderChanges DEF TypeOK, EncoderSteps, Register, store, restoration
<1>11. Others'
  BY <1>7, <1>9, <1>10, QuietOthers DEF NoFile
<1>12. \A f : ~Registered(r0, f, files)
  BY <1>6 DEF OnceInv, FirstInv, Registered
<1>13. \A k \in DOMAIN rows : rows[k].req = r0 => rows[k].id = encoders[i].id /\ rows[k].out = x
  BY OneId, <1>3 DEF OnceInv, FirstInv
<1>14. \A r \in Requests, f, g \in DOMAIN files' : Registered(r, f, files') /\ Registered(r, g, files') => f = g
  BY <1>7, <1>8, <1>12 DEF OnceInv, FirstInv
<1>15. \A k \in DOMAIN rows', f \in DOMAIN files' : Registered(rows'[k].req, f, files') => rows'[k].out = f
  BY <1>7, <1>8, <1>10, <1>13 DEF OnceInv, FirstInv
<1>16. \A k \in DOMAIN encoders', f \in DOMAIN files' : Early(encoders'[k]) => ~Registered(encoders'[k].req, f, files')
  BY OneId, <1>6, <1>7, <1>8, <1>10 DEF OnceInv, WorkInv, FirstInv
<1>17. \A k \in DOMAIN encoders', l \in DOMAIN rows' :
          rows'[l].id = encoders'[k].id /\ encoders'[k].file # NoPath /\ encoders'[k].step # "starting" =>
              rows'[l].out = encoders'[k].file
  BY <1>5, <1>10 DEF OnceInv, FirstInv
<1>18. \A j \in DOMAIN toStore', k \in DOMAIN rows', f \in DOMAIN files' :
          toStore'[j].op = "output" /\ rows'[k].id = toStore'[j].id => ~Registered(rows'[k].req, f, files')
  <2> SUFFICES ASSUME NEW j \in DOMAIN toStore, NEW k \in DOMAIN rows, NEW f \in DOMAIN files,
                      toStore[j].op = "output", rows[k].id = toStore[j].id, Registered(rows[k].req, f, files')
               PROVE  FALSE
    BY <1>7, <1>10
  <2>1. ~Registered(rows[k].req, f, files)
    BY DEF OnceInv, FirstInv
  <2>2. toStore[j].id = encoders[i].id
    BY <1>8, <1>13, <2>1
  <2>3. toStore[j].by # "nobody"
    BY <1>2 DEF OnceInv, LeftInv
  <2>4. Starting(encoders[i].id, toStore[j].out, encoders)
    BY <2>2, <2>3 DEF OnceInv, PendingInv
  <2> QED BY <1>3, <2>4 DEF Starting, OnceInv, WorkInv
<1> QED BY <1>11, <1>14, <1>15, <1>16, <1>17, <1>18 DEF OnceInv, Others, FirstInv

\* Nobody has asked yet for the removal of the record of a conversion.
LEMMA NotRemoved ==
    ASSUME TypeOK, OutputInv, OnceInv, NEW i \in DOMAIN encoders, encoders[i].step # "removing"
    PROVE  ~Removing(encoders[i].id, toStore)
<1> SUFFICES ASSUME NEW j \in DOMAIN toStore, toStore[j].op = "remove", toStore[j].id = encoders[i].id PROVE FALSE
  BY DEF Removing
<1>1. HasEncoder(encoders[i].id, encoders)
  BY DEF HasEncoder
<1>2. toStore[j] \in Operations
  BY OperationParts
<1>3. CASE toStore[j].by = "encoder"
  BY <1>3 DEF OnceInv, RemovalInv, Leaving, WorkInv
<1>4. CASE toStore[j].by = "admit"
  BY <1>2, <1>4, <1>1 DEF Operations, OnceInv, RemovalInv, AdmitInv
<1>5. CASE toStore[j].by = "restore"
  BY <1>1, <1>5 DEF OnceInv, RemovalInv
<1>6. CASE toStore[j].by = "nobody"
  BY <1>6, EncoderIsBusy DEF OnceInv, LeftInv
<1> QED BY <1>2, <1>3, <1>4, <1>5, <1>6 DEF Operations

LEMMA LeaveOnce ==
    ASSUME TypeOK, TypeOK', OutputInv, OnceInv, NEW i \in DOMAIN encoders, NEW e, EncoderSteps(i, e), Later(encoders[i], e),
           encoders[i].step \notin {"starting", "removing"}, e.step = "removing",
           Send(Op("remove", encoders[i].id, encoders[i].req, NoPath, "encoder")),
           job' = [job EXCEPT ![encoders[i].req] = "over"],
           UNCHANGED <<rows, toService, up, restoring, todo, listed, admit, files>>
    PROVE  OnceInv'
<1> DEFINE op == Op("remove", encoders[i].id, encoders[i].req, NoPath, "encoder")
<1>1. /\ op \in Operations /\ Send(op) /\ op.op = "remove" /\ op.by = "encoder" /\ op.id = encoders[i].id
      /\ op.req = encoders[i].req
  BY RemoveOf DEF Op
<1> HIDE DEF op
<1>2. EncodersWork /\ EncodersWait
  BY StepWorks DEF OnceInv
<1>3. NoNewEncoder /\ RowsStay
  BY <1>2, WorkIsOld DEF RowsStay
<1>4. Leaving(encoders[i].id, encoders')
  BY EncoderChanges DEF TypeOK, EncoderSteps, Leaving
<1>5. restoring # "listing" /\ HasRow(op.id, op.req, rows) /\ ~Removing(op.id, toStore)
  BY <1>1, EncoderIsBusy, NotRemoved DEF OnceInv, WorkInv
<1>6. WorkInv'
  BY <1>2, <1>3, WorkHolds DEF OnceInv, WorkInv
<1>7. RestoreInv'
  BY <1>3, RestoreHolds DEF OnceInv, RestoreInv
<1>8. AdmitInv'
  BY <1>3, AdmitHolds DEF OnceInv
<1>9. MessageInv'
  BY <1>3, MessageHolds, <1>1, SendIsLast DEF OnceInv, MessageInv, HasEncoder, Removing
<1>10. FreshInv'
  <2>1. \A j \in DOMAIN toStore' : toStore'[j].op = "add" => j \in DOMAIN toStore /\ toStore'[j] = toStore[j]
    BY <1>1, SendIsLast
  <2>2. \A r \in Requests : job'[r] = "new" => job[r] = "new"
    BY DEF TypeOK
  <2> QED BY <2>1, <2>2, FreshHolds DEF OnceInv
<1>11. LeftInv'
  BY <1>1, <1>5, LeftSent DEF OnceInv
<1>12. PendingInv'
  BY <1>1, <1>2, PendingSent DEF OnceInv, EncodersWait
<1>13. RemovalInv'
  BY <1>1, <1>2, <1>3, <1>4, <1>5, RemovalSent DEF OnceInv, EncodersWait
<1>14. FirstInv'
  BY <1>1, SendIsLast, <1>2, FirstHolds DEF OnceInv, EncodersWork
<1> QED BY <1>6, <1>7, <1>8, <1>9, <1>10, <1>11, <1>12, <1>13, <1>14 DEF OnceInv

LEMMA ReleaseEncoderOnce ==
    ASSUME TypeOK, TypeOK', OutputInv, OnceInv, NEW i \in DOMAIN encoders, ReleaseEncoder(i)
    PROVE  OnceInv'
<1> DEFINE e == [encoders[i] EXCEPT !.step = "removing"]
<1>1. EncoderSteps(i, e)
  BY StepOf DEF ReleaseEncoder, QueuedSteps
<1>2. encoders[i] \in EncoderStates /\ encoders[i].step = "out"
  BY EncoderParts DEF ReleaseEncoder
<1>3. Later(encoders[i], e) /\ e.step = "removing"
  BY <1>2 DEF EncoderStates, Later, Early
<1> HIDE DEF e
<1> QED BY <1>1, <1>2, <1>3, LeaveOnce DEF ReleaseEncoder, store, restoration, disk

LEMMA CancelWaitingOnce ==
    ASSUME TypeOK, TypeOK', OutputInv, OnceInv, NEW i \in DOMAIN encoders, CancelWaiting(i)
    PROVE  OnceInv'
<1> DEFINE e == [encoders[i] EXCEPT !.step = "removing", !.wakes = TRUE]
<1>1. /\ encoders[i] \in EncoderStates /\ encoders[i].step = "wait" /\ Fits(encoders[i], files)
      /\ encoders' = [encoders EXCEPT ![i] = e]
  BY EncoderIsBusy DEF CancelWaiting
<1>2. /\ e \in EncoderStates /\ e.id = encoders[i].id /\ e.req = encoders[i].req /\ e.step = "removing"
      /\ e.file = encoders[i].file /\ e.settle = encoders[i].settle
  BY <1>1 DEF EncoderStates, QueuedSteps
<1> HIDE DEF e
<1>3. EncoderSteps(i, e)
  BY <1>1, <1>2 DEF EncoderSteps, QueuedSteps
<1>4. Later(encoders[i], e)
  BY <1>1, <1>2 DEF Later, Early, Fits
<1> QED BY <1>1, <1>2, <1>3, <1>4, LeaveOnce DEF CancelWaiting, store, restoration, disk

\* The steps of an admission, and the end of the restoration.
LEMMA AdmissionOnce ==
    ASSUME TypeOK, TypeOK', OnceInv,
           UNCHANGED <<rows, toStore, toService, up, restoring, todo, listed, encoders, files>>,
           \A r \in Requests : job'[r] = "new" => job[r] = "new",
           \A r \in FromRecording : admit'[r].step # "none" => admit[r].step # "none" /\ admit'[r].id = admit[r].id,
           \A r \in Requests : admit[r].step = "rejecting" => admit'[r] = admit[r],
           restoring # "restoring"
    PROVE  OnceInv'
<1>1. EncodersWork /\ EncodersWait /\ NoNewEncoder /\ RowsStay
  BY SameWork, WorkIsOld DEF OnceInv, RowsStay
<1>2. WorkInv'
  BY <1>1, WorkHolds DEF OnceInv, WorkInv
<1>3. RestoreInv'
  BY <1>1, RestoreHolds DEF OnceInv, RestoreInv
<1>4. AdmitInv'
  BY <1>1, AdmitHolds DEF OnceInv
<1>5. MessageInv'
  BY <1>1, MessageHolds DEF OnceInv, MessageInv, Admitting
<1>6. FreshInv'
  BY FreshHolds DEF OnceInv
<1>7. LeftInv' /\ PendingInv'
  BY <1>1, LeftHolds, PendingHolds DEF OnceInv, EncodersWait
<1>8. RemovalInv'
  BY OperationParts, <1>1, RemovalHolds DEF OnceInv, EncodersWait
<1>9. FirstInv'
  BY <1>1, QuietFirst DEF FilesAlike
<1> QED BY <1>2, <1>3, <1>4, <1>5, <1>6, <1>7, <1>8, <1>9 DEF OnceInv

LEMMA PushEnterOnce ==
    ASSUME TypeOK, TypeOK', OnceInv, NEW r \in Requests, PushEnter(r)
    PROVE  OnceInv'
<1>1. /\ UNCHANGED <<rows, toStore, toService, up, restoring, todo, listed, encoders, files>>
      /\ restoring # "restoring" /\ r \notin FromRecording /\ admit[r] = Idle
      /\ \/ admit' = [admit EXCEPT ![r].step = "lock"] /\ job' = job
         \/ admit' = admit /\ job' = [job EXCEPT ![r] = "over"]
  BY DEF PushEnter, store, restoration, disk
<1>2. admit \in [Requests -> Admissions] /\ job \in [Requests -> {"new", "open", "over"}]
  BY DEF TypeOK
<1>3. \A q \in Requests : (job'[q] = "new" => job[q] = "new") /\ (q # r => admit'[q] = admit[q])
  BY <1>1, <1>2
<1>4. \A q \in Requests : admit[q].step = "rejecting" => admit'[q] = admit[q]
  BY <1>1, <1>3 DEF Idle
<1>5. \A q \in FromRecording : q \in Requests /\ q # r
  BY <1>1, EncodeAssumption
<1> QED BY <1>1, <1>3, <1>4, <1>5, AdmissionOnce

LEMMA TakeLockOnce ==
    ASSUME TypeOK, TypeOK', OnceInv, NEW r \in Requests, TakeLock(r)
    PROVE  OnceInv'
<1>1. /\ UNCHANGED <<rows, toStore, toService, up, restoring, todo, listed, encoders, files, job>>
      /\ admit[r].step = "lock" /\ admit' = [admit EXCEPT ![r].step = "lease"]
  BY DEF TakeLock, store, restoration, disk
<1>2. admit \in [Requests -> Admissions] /\ restoring # "restoring"
  BY <1>1 DEF TypeOK, OnceInv, RestoreInv
<1>3. \A q \in Requests : admit'[q].id = admit[q].id /\ (q # r => admit'[q] = admit[q])
  BY <1>1, <1>2 DEF Admissions
<1>4. \A q \in FromRecording : q \in Requests
  BY EncodeAssumption
<1>5. \A q \in FromRecording : admit'[q].step # "none" => admit[q].step # "none" /\ admit'[q].id = admit[q].id
  BY <1>1, <1>3, <1>4
<1>6. \A q \in Requests : admit[q].step = "rejecting" => admit'[q] = admit[q]
  BY <1>1, <1>3
<1> QED BY <1>1, <1>2, <1>5, <1>6, AdmissionOnce

LEMMA RestoreEndOnce ==
    ASSUME TypeOK, TypeOK', OutputInv, OnceInv, RestoreEnd
    PROVE  OnceInv'
<1>1. /\ restoring = "restoring" /\ restoring' = "off" /\ todo = <<>>
      /\ \A i \in DOMAIN toStore : toStore[i].by # "restore"
      /\ UNCHANGED <<rows, toStore, toService, up, todo, listed, admit, encoders, files, job>>
  BY DEF RestoreEnd, store, disk
<1>2. EncodersWork /\ EncodersWait /\ NoNewEncoder /\ RowsStay
  BY <1>1, SameWork, WorkIsOld DEF OnceInv, RowsStay
<1>3. WorkInv' /\ RestoreInv' /\ FreshInv' /\ PendingInv'
  BY <1>1 DEF OnceInv, WorkInv, RestoreInv, FreshInv, PendingInv
<1>4. AdmitInv' /\ MessageInv'
  BY <1>1 DEF OnceInv, AdmitInv, MessageInv
<1>5. LeftInv'
  BY <1>1, RestoringIsUp DEF OnceInv, LeftInv
<1>6. RemovalInv'
  BY <1>1, <1>2, RemovalHolds DEF OnceInv, EncodersWait
<1>7. FirstInv'
  BY <1>1, <1>2, QuietFirst DEF FilesAlike
<1> QED BY <1>3, <1>4, <1>5, <1>6, <1>7 DEF OnceInv

\* A request gets its record: the id is new.
LEMMA RowComes ==
    ASSUME TypeOK, WorkInv, NEW r \in Requests, NEW id \in Ids, AddRecord(r, id)
    PROVE  /\ RowsStay /\ HasRow(id, r, rows')
           /\ \A k, l \in DOMAIN rows' : rows'[k].id = rows'[l].id => k = l
           /\ \A k \in DOMAIN rows' : \/ \E l \in DOMAIN rows : rows'[k] = rows[l]
                                      \/ rows'[k].id = id /\ rows'[k].req = r
           /\ \A l \in DOMAIN rows : \E m \in DOMAIN rows' : rows'[m] = rows[l]
           /\ \A x, q : HasRow(x, q, rows) => x # id
<1> DEFINE record == [id |-> id, req |-> r, out |-> NoPath]
<1>1. rows \in Seq(Records) /\ DOMAIN rows = 1 .. Len(rows) /\ Len(rows) \in Nat
  BY LenProperties DEF TypeOK
<1>2. record \in Records /\ record.req = r /\ record.id = id /\ rows' = Append(rows, record) /\ id \notin RowIds
  BY DEF Records, NoPath, AddRecord, IsNextFree
<1> HIDE DEF record
<1>3. /\ DOMAIN rows' = 1 .. Len(rows) + 1
      /\ \A k \in DOMAIN rows : k \in DOMAIN rows' /\ rows'[k] = rows[k]
      /\ Len(rows) + 1 \in DOMAIN rows' /\ rows'[Len(rows) + 1] = record
  BY <1>1, <1>2
<1>4. \A k \in DOMAIN rows' : (k \in DOMAIN rows /\ rows'[k] = rows[k]) \/ (k = Len(rows) + 1 /\ rows'[k] = record)
  BY <1>1, <1>3
<1>5. \A k \in DOMAIN rows : rows[k].id # id
  BY <1>2 DEF RowIds
<1>6. \A k, l \in DOMAIN rows : rows[k].id = rows[l].id => k = l
  BY DEF WorkInv
<1>7. \A k, l \in DOMAIN rows' : rows'[k].id = rows'[l].id => k = l
  BY <1>2, <1>4, <1>5, <1>6
<1>8. RowsStay /\ HasRow(id, r, rows')
  BY <1>2, <1>3 DEF RowsStay, HasRow
<1>9. \A k \in DOMAIN rows' : \/ \E l \in DOMAIN rows : rows'[k] = rows[l]
                              \/ rows'[k].id = id /\ rows'[k].req = r
  BY <1>2, <1>4
<1>10. \A x, q : HasRow(x, q, rows) => x # id
  BY <1>5 DEF HasRow
<1> QED BY <1>3, <1>7, <1>8, <1>9, <1>10

\* A request that has no registered output gets its record or its conversion.
LEMMA FirstGrows ==
    ASSUME FirstInv, TypeOK', NEW id, NEW r, \A f : ~Registered(r, f, files),
           \A q, f : Registered(q, f, files') => Registered(q, f, files),
           \A k \in DOMAIN rows' : \/ \E l \in DOMAIN rows : rows'[k] = rows[l]
                                   \/ rows'[k].id = id /\ rows'[k].req = r /\ ~HasEncoder(id, encoders),
           \A k \in DOMAIN encoders' : \/ \E l \in DOMAIN encoders : encoders'[k] = encoders[l]
                                       \/ encoders'[k] = NewEncoder(id, r),
           \A i \in DOMAIN toStore' : toStore'[i].op = "output" =>
               \E j \in DOMAIN toStore : toStore[j].op = "output" /\ toStore[j].id = toStore'[i].id
    PROVE  FirstInv'
  BY DEF Registered, FirstInv, NewEncoder, HasEncoder

\* A finished recording asks for a conversion: the record is new, and so is the message.
LEMMA EnqueueFromRecordingOnce ==
    ASSUME TypeOK, TypeOK', OnceInv, NEW r \in Requests, EnqueueFromRecording(r)
    PROVE  OnceInv'
<1>1. PICK id \in Ids : AddRecord(r, id) /\ toService' = IF up THEN Append(toService, [id |-> id, req |-> r]) ELSE toService
  BY DEF EnqueueFromRecording
<1>2. /\ UNCHANGED <<toStore, up, restoring, todo, listed, admit, encoders, files>>
      /\ job[r] = "new" /\ job' = [job EXCEPT ![r] = "open"]
  BY DEF EnqueueFromRecording, restoration, disk
<1>3. /\ RowsStay /\ HasRow(id, r, rows')
      /\ \A k, l \in DOMAIN rows' : rows'[k].id = rows'[l].id => k = l
      /\ \A k \in DOMAIN rows' : \/ \E l \in DOMAIN rows : rows'[k] = rows[l]
                                 \/ rows'[k].id = id /\ rows'[k].req = r
      /\ \A l \in DOMAIN rows : \E m \in DOMAIN rows' : rows'[m] = rows[l]
      /\ \A x, q : HasRow(x, q, rows) => x # id
  BY <1>1, RowComes DEF OnceInv
<1>4. EncodersWork /\ EncodersWait /\ NoNewEncoder
  BY <1>2, SameWork, WorkIsOld DEF OnceInv
<1>5. NoFile(r, files) /\ ~HasEncoder(id, encoders) /\ ~Admitting(id, admit) /\ ~Removing(id, toStore)
  <2>1. NoFile(r, files)
    BY <1>2 DEF OnceInv, FreshInv
  <2>2. ~HasEncoder(id, encoders)
    BY <1>3 DEF HasEncoder, OnceInv, WorkInv
  <2>3. ~Admitting(id, admit)
    BY <1>3 DEF Admitting, OnceInv, AdmitInv
  <2>4. ~Removing(id, toStore)
    BY <1>3 DEF Removing, OnceInv, RemovalInv
  <2> QED BY <2>1, <2>2, <2>3, <2>4
<1>6. WorkInv'
  BY <1>3, <1>4, WorkHolds DEF OnceInv
<1>7. RestoreInv'
  BY <1>2, <1>3, <1>4, RestoreHolds DEF OnceInv, RestoreInv
<1>8. AdmitInv'
  BY <1>2, <1>3, <1>4, AdmitHolds DEF OnceInv
<1>9. MessageInv'
  <2> DEFINE M == [id : Ids, req : FromRecording]
             m == [id |-> id, req |-> r]
  <2>1. toService \in Seq(M)
    BY DEF TypeOK
  <2>2. m.id = id /\ m.req = r /\ toService' = IF up THEN Append(toService, m) ELSE toService
    BY <1>1
  <2> HIDE DEF m, M
  <2>3. Len(toService) \in Nat /\ DOMAIN toService = 1 .. Len(toService)
    BY <2>1, LenProperties
  <2>4. \A k \in DOMAIN toService' : (k \in DOMAIN toService /\ toService'[k] = toService[k])
                                     \/ (k = Len(toService) + 1 /\ toService'[k] = m)
    BY <2>1, <2>2, <2>3
  <2>5. \A k \in DOMAIN toService : toService[k].id \notin listed => toService[k].id # id
    BY <1>3 DEF OnceInv, MessageInv
  <2> SUFFICES ASSUME NEW k \in DOMAIN toService', toService'[k].id \notin listed
               PROVE  /\ HasRow(toService'[k].id, toService'[k].req, rows') /\ NoFile(toService'[k].req, files)
                      /\ ~HasEncoder(toService'[k].id, encoders) /\ ~Admitting(toService'[k].id, admit)
                      /\ ~Removing(toService'[k].id, toStore)
                      /\ \A l \in DOMAIN toService' : toService'[l].id = toService'[k].id => l = k
    BY <1>2 DEF MessageInv
  <2>6. CASE k \in DOMAIN toService /\ toService'[k] = toService[k]
    BY <2>6, <2>2, <2>4, <2>5, <1>3 DEF OnceInv, MessageInv, RowsStay
  <2>7. CASE k = Len(toService) + 1 /\ toService'[k] = m
    <3>1. \A l \in DOMAIN toService' : toService'[l].id = toService'[k].id => l = k
      BY <2>2, <2>4, <2>5, <2>7
    <3> QED BY <1>3, <1>5, <2>2, <2>7, <3>1
  <2> QED BY <2>4, <2>6, <2>7
<1>10. FreshInv'
  BY <1>2, FreshHolds DEF TypeOK, OnceInv
<1>11. LeftInv' /\ PendingInv'
  BY <1>2, <1>4, LeftHolds, PendingHolds DEF OnceInv, EncodersWait
<1>12. RemovalInv'
  BY <1>2, <1>3, <1>4, RemovalHolds DEF OnceInv, EncodersWait
<1>13. FirstInv'
  BY <1>5, <1>3, <1>2, FirstGrows DEF Registered, NoFile, OnceInv
<1> QED BY <1>6, <1>7, <1>8, <1>9, <1>10, <1>11, <1>12, <1>13 DEF OnceInv

\* The messages after the oldest one is taken.
LEMMA OldestMessage ==
    ASSUME TypeOK, toService # <<>>
    PROVE  /\ 1 \in DOMAIN toService /\ Head(toService) = toService[1]
           /\ \A k \in DOMAIN Tail(toService) :
                 k + 1 \in DOMAIN toService /\ k + 1 # 1 /\ Tail(toService)[k] = toService[k + 1]
           /\ \A k, l \in DOMAIN Tail(toService) : k + 1 = l + 1 => k = l
<1> DEFINE M == [id : Ids, req : FromRecording]
<1>1. toService \in Seq(M) /\ Len(toService) \in Nat /\ DOMAIN toService = 1 .. Len(toService)
  BY LenProperties DEF TypeOK
<1> HIDE DEF M
<1>2. /\ Tail(toService) \in Seq(M) /\ Len(Tail(toService)) = Len(toService) - 1
      /\ \A k \in 1 .. Len(Tail(toService)) : Tail(toService)[k] = toService[k + 1]
  BY <1>1, HeadTailProperties
<1>3. DOMAIN Tail(toService) = 1 .. Len(Tail(toService))
  BY <1>2, LenProperties
<1>4. Len(toService) # 0
  BY <1>1, EmptySeq
<1> QED BY <1>1, <1>2, <1>3, <1>4

\* The message that is handed over leaves, and its id is nobody else's.
LEMMA MessagesLeft ==
    ASSUME TypeOK, OnceInv, toService # <<>>, toService' = Tail(toService), UNCHANGED <<rows, listed, encoders, files>>,
           \A id : Admitting(id, admit') => Admitting(id, admit) \/ (id = Head(toService).id /\ id \notin listed),
           \A id : Removing(id, toStore') => Removing(id, toStore) \/ (id = Head(toService).id /\ id \notin listed)
    PROVE  MessageInv'
  BY OldestMessage DEF MessageInv, OnceInv

LEMMA HandOverOnce ==
    ASSUME TypeOK, TypeOK', QueueInv, OnceInv, HandOver
    PROVE  OnceInv'
<1>1. PICK m : m = Head(toService)
  OBVIOUS
<1>2. /\ m.req \in FromRecording /\ m.req \in Requests /\ m.id \in Nat /\ Named(m.req, m.id)
      /\ toService # <<>> /\ toService' = Tail(toService)
  BY <1>1, MessageTypes, EncodeAssumption DEF HandOver, Ids
<1>3. /\ UNCHANGED <<rows, up, restoring, todo, listed, encoders, files>>
      /\ restoring # "restoring" /\ restoring # "listing" /\ up
  BY DEF HandOver, store, restoration, disk
<1>4. EncodersWork /\ EncodersWait /\ NoNewEncoder /\ RowsStay
  BY <1>3, SameWork, WorkIsOld DEF OnceInv, RowsStay
<1>5. WorkInv' /\ RestoreInv'
  BY <1>3, <1>4, WorkHolds, RestoreHolds DEF OnceInv, WorkInv
<1>6. CASE UNCHANGED <<admit, toStore, job>>
  <2>1. MessageInv'
    BY <1>2, <1>3, <1>6, MessagesLeft
  <2>2. AdmitInv' /\ FreshInv' /\ LeftInv' /\ PendingInv' /\ RemovalInv' /\ FirstInv'
    <3>1. FirstInv'
      BY <1>3, <1>4, <1>6, QuietFirst DEF FilesAlike
    <3>2. RemovalInv'
      BY <1>3, <1>4, <1>6, RemovalHolds DEF OnceInv, EncodersWait
    <3> QED BY <1>3, <1>4, <1>6, <3>1, <3>2, AdmitHolds, FreshHolds, LeftHolds, PendingHolds DEF OnceInv, EncodersWait
  <2> QED BY <1>5, <2>1, <2>2 DEF OnceInv
<1>7. ASSUME m.id \notin listed, NEW a, a.id = m.id, a.step \in {"rejecting", "lock"}, admit' = [admit EXCEPT ![m.req] = a],
             \A q \in Requests : job'[q] = "new" => job[q] = "new",
             NEW op \in Operations, op.op = "remove", op.id = m.id, op.req = m.req, op.by = "admit",
             \/ UNCHANGED toStore
             \/ a.step = "rejecting" /\ Send(op)
      PROVE  OnceInv'
  <2>1. admit \in [Requests -> Admissions]
    BY DEF TypeOK
  <2>2. admit'[m.req] = a /\ \A q \in Requests : q # m.req => admit'[q] = admit[q]
    BY <1>2, <1>7, <2>1
  <2>3. /\ HasRow(m.id, m.req, rows) /\ NoFile(m.req, files) /\ ~HasEncoder(m.id, encoders)
        /\ ~Admitting(m.id, admit) /\ ~Removing(m.id, toStore)
    BY <1>1, <1>2, OldestMessage, <1>7 DEF OnceInv, MessageInv
  <2>4. admit[m.req].step = "none"
    BY <1>2, <2>1, <2>3 DEF Named, Admissions, QueueInv, OneName, Admitting
  <2>5. AdmitInv'
    BY <1>3, <1>7, <2>2, <2>3, EncodeAssumption DEF AdmitInv, OnceInv
  <2>6. MessageInv'
    <3>1. \A id : Admitting(id, admit') => Admitting(id, admit) \/ (id = m.id /\ id \notin listed)
      BY <1>7, <2>2, EncodeAssumption DEF Admitting
    <3>2. \A id : Removing(id, toStore') => Removing(id, toStore) \/ (id = m.id /\ id \notin listed)
      BY <1>7, SendIsLast DEF Removing
    <3> QED BY <1>1, <1>2, <1>3, <3>1, <3>2, MessagesLeft
  <2>7. FreshInv'
    BY <1>7, SendIsLast, <1>3, FreshHolds DEF OnceInv
  <2>8. LeftInv' /\ PendingInv'
    <3>1. CASE UNCHANGED toStore
      BY <1>3, <1>4, <3>1, LeftHolds, PendingHolds DEF OnceInv, EncodersWait
    <3>2. CASE Send(op)
      BY <1>3, <1>4, <1>7, <3>2, LeftSent, PendingSent DEF OnceInv, EncodersWait
    <3> QED BY <1>7, <3>1, <3>2
  <2>9. \A j \in DOMAIN toStore : toStore[j].op = "remove" /\ toStore[j].by = "admit" =>
           (admit[toStore[j].req].step = "rejecting" => admit'[toStore[j].req] = admit[toStore[j].req])
    BY OperationParts, <2>2, <2>4
  <2>10. RemovalInv'
    <3>1. CASE UNCHANGED toStore
      BY <1>3, <1>4, <2>9, <3>1, RemovalHolds DEF OnceInv, EncodersWait
    <3>2. CASE a.step = "rejecting" /\ Send(op)
      BY <1>3, <1>4, <1>7, <2>2, <2>3, <2>9, <3>2, RemovalSent DEF OnceInv, EncodersWait
    <3> QED BY <1>7, <3>1, <3>2
  <2>11. FirstInv'
    BY <1>7, SendIsLast, <1>3, <1>4, FirstHolds DEF OnceInv, EncodersWork
  <2> QED BY <1>5, <2>5, <2>6, <2>7, <2>8, <2>10, <2>11 DEF OnceInv
<1>8. PICK op : op = Op("remove", m.id, m.req, NoPath, "admit")
  OBVIOUS
<1>9. op \in Operations /\ op.op = "remove" /\ op.id = m.id /\ op.req = m.req /\ op.by = "admit"
  BY <1>2, <1>8 DEF Op, Operations, NoPath
<1>10. CASE /\ m.id \notin listed
            /\ admit' = [admit EXCEPT ![m.req] = [step |-> "rejecting", id |-> m.id]]
            /\ Send(Op("remove", m.id, m.req, NoPath, "admit"))
            /\ job' = [job EXCEPT ![m.req] = "over"]
  <2>1. PICK a : a = [step |-> "rejecting", id |-> m.id]
    OBVIOUS
  <2>2. a.id = m.id /\ a.step = "rejecting" /\ admit' = [admit EXCEPT ![m.req] = a]
    BY <1>10, <2>1
  <2>3. \A q \in Requests : job'[q] = "new" => job[q] = "new"
    BY <1>10 DEF TypeOK
  <2> QED BY <1>7, <1>8, <1>9, <1>10, <2>2, <2>3
<1>11. CASE /\ m.id \notin listed
            /\ admit' = [admit EXCEPT ![m.req] = [step |-> "lock", id |-> m.id]]
            /\ UNCHANGED <<toStore, job>>
  BY <1>11, <1>7, <1>9
<1> QED BY <1>1, <1>6, <1>10, <1>11 DEF HandOver

\* Another request's admission has another record.
LEMMA OtherAdmission ==
    ASSUME OnceInv, NEW r \in FromRecording, NEW q \in FromRecording, q # r, admit[r].step # "none", admit[q].step # "none"
    PROVE  admit[q].id # admit[r].id
  BY DEF OnceInv, AdmitInv, HasRow, WorkInv

LEMMA AcquirePersistedOnce ==
    ASSUME TypeOK, TypeOK', OnceInv, NEW r \in FromRecording, admit[r].step = "lease",
           encoders' = Append(encoders, NewEncoder(admit[r].id, r)), admit' = [admit EXCEPT ![r] = Idle],
           UNCHANGED <<rows, toStore, toService, up, restoring, todo, listed, files, job>>
    PROVE  OnceInv'
<1>1. /\ HasRow(admit[r].id, r, rows) /\ ~HasEncoder(admit[r].id, encoders) /\ NoFile(r, files)
      /\ r \in Requests /\ restoring # "restoring" /\ todo = <<>> /\ Admitting(admit[r].id, admit)
  BY EncodeAssumption DEF OnceInv, AdmitInv, RestoreInv, Admitting
<1>2. PICK id : id = admit[r].id
  OBVIOUS
<1>3. /\ \A k \in DOMAIN encoders' : (k \in DOMAIN encoders /\ encoders'[k] = encoders[k]) \/ encoders'[k] = NewEncoder(id, r)
      /\ \A k, l \in DOMAIN encoders' : encoders'[k].id = encoders'[l].id => k = l
      /\ EncodersWait
      /\ \A x : HasEncoder(x, encoders') => HasEncoder(x, encoders) \/ x = id
  BY <1>1, <1>2, NewWorks DEF OnceInv
<1>4. /\ RowsStay /\ admit'[r] = Idle /\ Idle.step = "none"
      /\ \A q \in Requests : q # r => admit'[q] = admit[q]
  BY <1>1 DEF TypeOK, RowsStay, Idle
<1>5. WorkInv'
  BY <1>1, <1>2, <1>3 DEF NewEncoder, OnceInv, WorkInv
<1>6. RestoreInv'
  BY <1>1 DEF OnceInv, RestoreInv
<1>7. AdmitInv'
  BY <1>4, EncodeAssumption, <1>2, OtherAdmission, <1>3 DEF AdmitInv, OnceInv
<1>8. MessageInv'
  BY <1>1, <1>2, <1>4, EncodeAssumption, <1>3 DEF OnceInv, MessageInv, Admitting
<1>9. FreshInv' /\ LeftInv' /\ PendingInv'
  BY <1>3, FreshHolds, LeftHolds, PendingHolds DEF OnceInv, EncodersWait
<1>10. RemovalInv'
  BY OperationParts, <1>4, <1>1, <1>3, RemovalHolds DEF OnceInv, EncodersWait
<1>11. FirstInv'
  BY <1>1, <1>3, FirstGrows DEF Registered, NoFile, OnceInv
<1> QED BY <1>5, <1>6, <1>7, <1>8, <1>9, <1>10, <1>11 DEF OnceInv

LEMMA AcquireOnce ==
    ASSUME TypeOK, TypeOK', QueueInv, OutputInv, OnceInv, NEW r \in Requests, Acquire(r)
    PROVE  OnceInv'
<1>1. CASE r \in FromRecording
  BY <1>1, AcquirePersistedOnce DEF Acquire, Enqueue, store, restoration, disk
<1>2. CASE r \notin FromRecording
  <2>1. /\ UNCHANGED <<rows, toService, up, restoring, todo, listed, encoders, files, job>>
        /\ admit[r].step = "lease" /\ admit' = [admit EXCEPT ![r].step = "adding"]
        /\ Send(Op("add", 0, r, NoPath, "admit"))
    BY <1>2 DEF Acquire, store, restoration, disk
  <2>2. restoring # "restoring" /\ restoring # "listing"
    BY <2>1, AdmissionIsBusy DEF OnceInv, RestoreInv
  <2>3. NoFile(r, files)
    BY <1>2, <2>1 DEF QueueInv, OneAdd, OnceInv, FreshInv
  <2>4. PICK op : op = Op("add", 0, r, NoPath, "admit")
    OBVIOUS
  <2>5. op \in Operations /\ op.op = "add" /\ op.req = r /\ op.by = "admit" /\ Send(op)
    BY <2>1, <2>4 DEF Op, Operations, NoPath
  <2>6. EncodersWork /\ EncodersWait /\ NoNewEncoder /\ RowsStay
    BY <2>1, SameWork, WorkIsOld DEF OnceInv, RowsStay
  <2>7. \A q \in Requests : q # r => admit'[q] = admit[q]
    BY <2>1 DEF TypeOK
  <2>8. \A q \in FromRecording : admit'[q] = admit[q]
    BY <1>2, <2>7, EncodeAssumption
  <2>9. \A j \in DOMAIN toStore' : \/ j \in DOMAIN toStore /\ toStore'[j] = toStore[j]
                                   \/ toStore'[j] = op
    BY <2>5, SendIsLast
  <2>10. WorkInv' /\ RestoreInv'
    BY <2>1, <2>6, WorkHolds, <2>2, RestoreHolds DEF OnceInv, WorkInv
  <2>11. AdmitInv'
    BY <2>1, <2>6, <2>8, AdmitHolds DEF OnceInv
  <2>12. MessageInv'
    <3>1. \A k \in DOMAIN toService : toService[k].id \notin listed => ~Removing(toService[k].id, toStore')
      BY <2>5, <2>9 DEF OnceInv, MessageInv, Removing
    <3>2. \A id : Admitting(id, admit') => Admitting(id, admit)
      BY <2>8 DEF Admitting
    <3> QED BY <2>1, <2>6, <3>1, <3>2, MessageHolds DEF OnceInv
  <2>13. FreshInv'
    BY <2>1, <2>3, <2>5, <2>9, FreshHolds DEF OnceInv
  <2>14. LeftInv' /\ PendingInv'
    BY <2>1, <2>2, <2>5, <2>6, LeftSent, PendingSent DEF OnceInv, EncodersWait
  <2>15. RemovalInv'
    <3>1. \A j \in DOMAIN toStore : toStore[j].op = "remove" /\ toStore[j].by = "admit" =>
             (admit[toStore[j].req].step = "rejecting" => admit'[toStore[j].req] = admit[toStore[j].req])
      BY OperationParts, <2>1, <2>7
    <3> QED BY <2>1, <2>2, <2>5, <2>6, <3>1, RemovalSent DEF OnceInv, EncodersWait
  <2>16. FirstInv'
    BY <2>5, <2>9, <2>1, <2>6, FirstHolds DEF OnceInv, EncodersWork
  <2> QED BY <2>10, <2>11, <2>12, <2>13, <2>14, <2>15, <2>16 DEF OnceInv
<1> QED BY <1>1, <1>2

\* The encoder that moves is the last one afterwards.
LEMMA MovedIsLast ==
    ASSUME TypeOK, NEW i \in DOMAIN encoders, NEW e \in EncoderStates, encoders' = Append(RemoveAt(encoders, i), e)
    PROVE  \E k \in DOMAIN encoders' : encoders'[k] = e
<1>1. encoders \in Seq(EncoderStates) /\ DOMAIN encoders = 1 .. Len(encoders) /\ Len(encoders) \in Nat
  BY LenProperties DEF TypeOK
<1>2. /\ DOMAIN Append(RemoveAt(encoders, i), e) = DOMAIN encoders
      /\ \A k \in DOMAIN encoders : Append(RemoveAt(encoders, i), e)[k]
                                     = IF k = Len(encoders) THEN e ELSE encoders[Shift(i, k)]
  <2>1. encoders \in Seq(EncoderStates)
    BY <1>1
  <2>2. i \in DOMAIN encoders
    OBVIOUS
  <2>3. e \in EncoderStates
    OBVIOUS
  <2> QED BY ONLY <2>1, <2>2, <2>3, EncodersMove
<1>3. Len(encoders) \in DOMAIN encoders
  BY <1>1
<1> QED BY <1>2, <1>3

\* A conversion begins: the record is of this request alone, and its output path is recorded.
LEMMA StartedOnce ==
    ASSUME TypeOK, TypeOK', QueueInv, OutputInv, OnceInv, NEW i \in DOMAIN encoders, encoders[i].step = "wait",
           encoders' = Append(RemoveAt(encoders, i), [encoders[i] EXCEPT !.step = "starting", !.file = Len(files) + 1]),
           files' = Append(files, [req |-> encoders[i].req, state |-> "none", registered |-> FALSE]),
           Send(Op("output", encoders[i].id, encoders[i].req, Len(files) + 1, "encoder")),
           UNCHANGED <<rows, up, restoring, todo, listed, admit, toService, job>>
    PROVE  OnceInv'
<1> DEFINE d == encoders[i]
           n == Len(files) + 1
           e == [d EXCEPT !.step = "starting", !.file = n]
           op == Op("output", d.id, d.req, n, "encoder")
           new == [req |-> d.req, state |-> "none", registered |-> FALSE]
<1>1. d \in EncoderStates /\ Fits(d, files) /\ up /\ restoring # "listing" /\ Named(d.req, d.id) /\ d.req \in Requests
      /\ d.id \in Nat
  BY EncoderIsBusy, EncoderParts DEF Named
<1>2. files \in Seq(Outputs) /\ DOMAIN files = 1 .. Len(files) /\ Len(files) \in Nat
  BY LenProperties DEF TypeOK
<1>3. n \in Nat /\ n \notin DOMAIN files
  BY <1>2
<1>4. /\ DOMAIN files' = DOMAIN files \cup {n} /\ \A f \in DOMAIN files : files'[f] = files[f]
      /\ files'[n] = new /\ new.req = d.req /\ ~new.registered
  BY <1>2
<1>5. e \in EncoderStates /\ e.step = "starting" /\ e.file = n /\ e.req = d.req /\ e.id = d.id /\ e.settle = d.settle
  BY <1>1, <1>3 DEF EncoderStates, QueuedSteps
<1>6. /\ op \in Operations /\ op.out = n /\ op.op = "output" /\ op.id = d.id /\ op.by = "encoder"
  BY <1>1, <1>3 DEF Op, Operations
<1> HIDE DEF n, e, op, new
<1>7. encoders' = Append(RemoveAt(encoders, i), e) /\ Send(op)
  BY DEF e, op, n
<1>8. Later(d, e)
  BY <1>5 DEF Later, Early
<1>9. EncodersWork /\ EncodersWait
  BY <1>5, <1>7, <1>8, MovedWorks DEF OnceInv
<1>10. NoNewEncoder /\ RowsStay /\ HasEncoder(d.id, encoders)
  BY <1>9, WorkIsOld DEF RowsStay, HasEncoder
<1>11. Starting(d.id, n, encoders')
  BY <1>5, <1>7, MovedIsLast DEF Starting
<1>12. \A q : q # d.req /\ NoFile(q, files) => NoFile(q, files')
  BY <1>4 DEF NoFile
<1>13. \A r, f : Registered(r, f, files') => Registered(r, f, files)
  BY <1>4 DEF Registered
<1>14. \A id, q : HasRow(id, q, rows) /\ ~HasEncoder(id, encoders) => q # d.req
  BY <1>10, OneId DEF HasRow
<1>15. \A j \in DOMAIN toStore' : \/ j \in DOMAIN toStore /\ toStore'[j] = toStore[j]
                                  \/ j = Len(toStore) + 1 /\ toStore'[j] = op
  BY <1>6, <1>7, SendIsLast
<1>16. WorkInv'
  BY <1>9, <1>10, WorkHolds DEF OnceInv, WorkInv
<1>17. RestoreInv'
  BY <1>10, RestoreHolds DEF OnceInv, RestoreInv
<1>18. AdmitInv'
  BY <1>14, <1>10, <1>12, AdmitHolds DEF OnceInv, AdmitInv
<1>19. MessageInv'
  <2> SUFFICES ASSUME NEW k \in DOMAIN toService, toService[k].id \notin listed
               PROVE  /\ NoFile(toService[k].req, files) => NoFile(toService[k].req, files')
                      /\ ~Removing(toService[k].id, toStore')
    BY <1>10, MessageHolds DEF OnceInv
  <2>1. /\ HasRow(toService[k].id, toService[k].req, rows) /\ ~HasEncoder(toService[k].id, encoders)
        /\ ~Removing(toService[k].id, toStore)
    BY DEF OnceInv, MessageInv
  <2>2. toService[k].req # d.req
    BY <1>14, <2>1
  <2> QED BY <1>6, <1>12, <1>15, <2>1, <2>2 DEF Removing
<1>20. FreshInv'
  BY <1>1, <1>12, <1>6, <1>15, FreshHolds DEF QueueInv, OneName, OneAdd, OnceInv
<1>21. LeftInv'
  BY <1>1, <1>6, <1>7, LeftSent DEF OnceInv
<1>22. PendingInv'
  <2>1. \A j \in DOMAIN toStore : toStore[j].op = "output" /\ toStore[j].by # "nobody" => toStore[j].id # d.id
    BY DEF OnceInv, PendingInv, Starting, WorkInv
  <2>2. \A j \in DOMAIN toStore' : toStore'[j].op = "output" /\ toStore'[j].by # "nobody" =>
          toStore'[j].by = "encoder" /\ Starting(toStore'[j].id, toStore'[j].out, encoders')
    BY <1>6, <1>9, <1>11, <1>15 DEF OnceInv, PendingInv, EncodersWait
  <2>3. ASSUME NEW j \in DOMAIN toStore', NEW l \in DOMAIN toStore', toStore'[j].op = "output", toStore'[j].by # "nobody",
               toStore'[l].op = "output", toStore'[l].by # "nobody", toStore'[j].id = toStore'[l].id
        PROVE  j = l
    BY <2>3, <1>6, <2>1, <1>15 DEF OnceInv, PendingInv
  <2> QED BY <2>2, <2>3 DEF PendingInv
<1>23. RemovalInv'
  BY <1>6, <1>7, <1>9, <1>10, RemovalSent DEF OnceInv, EncodersWait
<1>24. FirstInv'
  <2>1. Early(d)
    BY DEF Early
  <2>2. \A k \in DOMAIN rows, f \in DOMAIN files' : rows[k].id = d.id => ~Registered(rows[k].req, f, files')
    BY <1>13, <2>1 DEF OnceInv, WorkInv, HasRow, FirstInv, Registered
  <2>3. \A j \in DOMAIN toStore' : toStore'[j].op = "output" =>
               \/ \E l \in DOMAIN toStore : toStore[l].op = "output" /\ toStore[l].id = toStore'[j].id
               \/ \A k \in DOMAIN rows', f \in DOMAIN files' :
                     rows'[k].id = toStore'[j].id => ~Registered(rows'[k].req, f, files')
    BY <1>6, <1>15, <2>2
  <2> QED BY <1>9, <1>13, <2>3, FirstHolds DEF OnceInv, EncodersWork
<1> QED BY <1>16, <1>17, <1>18, <1>19, <1>20, <1>21, <1>22, <1>23, <1>24 DEF OnceInv

LEMMA CheckQueueOnce ==
    ASSUME TypeOK, TypeOK', QueueInv, OutputInv, OnceInv, CheckQueue
    PROVE  OnceInv'
<1>1. UNCHANGED <<rows, up, restoring, todo, listed, admit, toService, job>>
  BY DEF CheckQueue, store, restoration
<1>2. CASE UNCHANGED <<encoders, toStore, files>>
  BY <1>1, <1>2, UnchangedOnce
<1> DEFINE i == Min(Waiting)
           d == encoders[i]
           failed == [d EXCEPT !.step = "startFailed", !.wakes = TRUE]
<1>3. ASSUME Waiting # {}
      PROVE  i \in DOMAIN encoders /\ d.step = "wait" /\ d \in EncoderStates /\ Fits(d, files)
  BY <1>3, Counts, EncoderIsBusy DEF Waiting
<1>4. CASE /\ Waiting # {} /\ encoders' = Append(RemoveAt(encoders, i), failed) /\ UNCHANGED <<toStore, files>>
  <2>1. failed \in EncoderStates /\ Later(d, failed)
    BY <1>3, <1>4 DEF EncoderStates, QueuedSteps, Later, Early, Fits
  <2> HIDE DEF i, failed
  <2>2. EncodersWork /\ EncodersWait
    BY <1>3, <1>4, <2>1, MovedWorks DEF OnceInv
  <2> QED BY <1>1, <1>4, <2>2, QuietOnce DEF FilesAlike
<1>5. CASE /\ Waiting # {}
           /\ encoders' = Append(RemoveAt(encoders, i), [d EXCEPT !.step = "starting", !.file = Len(files) + 1])
           /\ files' = Append(files, [req |-> d.req, state |-> "none", registered |-> FALSE])
           /\ Send(Op("output", d.id, d.req, Len(files) + 1, "encoder"))
  BY <1>1, <1>3, <1>5, StartedOnce
<1> QED BY <1>2, <1>4, <1>5 DEF CheckQueue

-----------------------------------------------------------------------------
(* The operations of the store keep them. *)

\* The operations that are left when the oldest one is done.
LEMMA OldestOp ==
    ASSUME TypeOK, toStore # <<>>, toStore' = Tail(toStore)
    PROVE  /\ 1 \in DOMAIN toStore /\ Head(toStore) = toStore[1] /\ toStore[1] \in Operations
           /\ \A k \in DOMAIN toStore' : k + 1 \in DOMAIN toStore /\ k + 1 # 1 /\ toStore'[k] = toStore[k + 1]
           /\ \A k, l \in DOMAIN toStore' : k + 1 = l + 1 => k = l
           /\ \A k \in DOMAIN toStore' : (k = Len(toStore')) <=> (k + 1 = Len(toStore))
<1>1. /\ Len(toStore) \in Nat \ {0} /\ DOMAIN toStore = 1 .. Len(toStore) /\ DOMAIN toStore' = 1 .. Len(toStore) - 1
      /\ \A k \in 1 .. Len(toStore) - 1 : toStore'[k] = toStore[k + 1]
      /\ toStore' \in Seq(Operations) /\ Head(toStore) \in Operations /\ Head(toStore) = toStore[1]
  BY TailTypes
<1>2. Len(toStore') = Len(toStore) - 1
  BY <1>1, LenProperties, HeadTailProperties DEF TypeOK
<1> QED BY <1>1, <1>2

LEMMA LeftTail ==
    ASSUME TypeOK, LeftInv, toStore # <<>>, toStore' = Tail(toStore), UNCHANGED <<up, restoring>>
    PROVE  LeftInv'
  BY OldestOp DEF LeftInv, IsList

LEMMA PendingTail ==
    ASSUME TypeOK, PendingInv, toStore # <<>>, toStore' = Tail(toStore),
           \A k \in DOMAIN toStore' : toStore'[k].op = "output" /\ toStore'[k].by # "nobody" =>
               (Starting(toStore'[k].id, toStore'[k].out, encoders) => Starting(toStore'[k].id, toStore'[k].out, encoders'))
    PROVE  PendingInv'
  BY OldestOp DEF PendingInv

LEMMA RemovalTail ==
    ASSUME TypeOK, RemovalInv, toStore # <<>>, toStore' = Tail(toStore), UNCHANGED restoring, listed \subseteq listed',
           \A k \in DOMAIN todo' : \E l \in DOMAIN todo : todo'[k] = todo[l],
           \A k \in DOMAIN toStore' : toStore'[k].op = "remove" =>
               /\ HasRow(toStore'[k].id, toStore'[k].req, rows) => HasRow(toStore'[k].id, toStore'[k].req, rows')
               /\ Leaving(toStore'[k].id, encoders) => Leaving(toStore'[k].id, encoders')
               /\ toStore'[k].by = "admit" /\ admit[toStore'[k].req].step = "rejecting"
                     /\ admit[toStore'[k].req].id = toStore'[k].id =>
                     admit'[toStore'[k].req] = admit[toStore'[k].req]
               /\ restoring = "restoring" => (HasEncoder(toStore'[k].id, encoders') => HasEncoder(toStore'[k].id, encoders))
    PROVE  RemovalInv'
<1>1. /\ \A k \in DOMAIN toStore' : k + 1 \in DOMAIN toStore /\ k + 1 # 1 /\ toStore'[k] = toStore[k + 1]
      /\ \A k, l \in DOMAIN toStore' : k + 1 = l + 1 => k = l
  BY OldestOp
<1>2. ASSUME NEW k \in DOMAIN toStore', toStore'[k].op = "remove"
      PROVE  /\ HasRow(toStore'[k].id, toStore'[k].req, rows')
             /\ toStore'[k].by = "encoder" => Leaving(toStore'[k].id, encoders')
             /\ toStore'[k].by = "admit" =>
                   admit'[toStore'[k].req].step = "rejecting" /\ admit'[toStore'[k].req].id = toStore'[k].id
             /\ toStore'[k].by = "restore" =>
                   /\ restoring' = "restoring" /\ toStore'[k].id \in listed'
                   /\ ~HasEncoder(toStore'[k].id, encoders') /\ \A l \in DOMAIN todo' : todo'[l].id # toStore'[k].id
  BY <1>1, <1>2 DEF RemovalInv
<1>3. ASSUME NEW i \in DOMAIN toStore', NEW j \in DOMAIN toStore', toStore'[i].op = "remove", toStore'[j].op = "remove",
             toStore'[i].id = toStore'[j].id
      PROVE  i = j
  BY <1>1, <1>3 DEF RemovalInv
<1> QED BY <1>2, <1>3 DEF RemovalInv

\* Nobody waits for the operation, and no record that somebody works for changes.
LEMMA TailOnce ==
    ASSUME TypeOK, TypeOK', OnceInv, toStore # <<>>, toStore' = Tail(toStore),
           UNCHANGED <<rows, toService, up, restoring, todo, listed, admit, encoders, files, job>>
    PROVE  OnceInv'
<1>1. EncodersWork /\ EncodersWait /\ NoNewEncoder /\ RowsStay
  BY SameWork, WorkIsOld DEF OnceInv, RowsStay
<1>2. \A k \in DOMAIN toStore' : k + 1 \in DOMAIN toStore /\ toStore'[k] = toStore[k + 1]
  BY OldestOp
<1>3. WorkInv' /\ RestoreInv' /\ AdmitInv'
  BY DEF OnceInv, WorkInv, RestoreInv, AdmitInv
<1>4. MessageInv'
  BY <1>2, <1>1, MessageHolds DEF OnceInv, MessageInv, Removing
<1>5. FreshInv' /\ LeftInv' /\ PendingInv'
  BY <1>2, FreshHolds, LeftTail, PendingTail DEF OnceInv
<1>6. RemovalInv'
  BY RemovalTail DEF OnceInv
<1>7. FirstInv'
  BY <1>1, <1>2, FirstHolds DEF OnceInv, EncodersWork
<1> QED BY <1>3, <1>4, <1>5, <1>6, <1>7 DEF OnceInv

LEMMA AddedOnce ==
    ASSUME TypeOK, TypeOK', QueueInv, OutputInv, OnceInv, toStore # <<>>, toStore' = Tail(toStore),
           Head(toStore).op = "add", NEW id \in Ids, AddRecord(Head(toStore).req, id),
           IF Head(toStore).by = "admit" THEN AddAnswered(Head(toStore).req, id) ELSE NobodyWaits,
           UNCHANGED <<toService, up, files>>
    PROVE  OnceInv'
<1>1. PICK r : r = Head(toStore).req
  OBVIOUS
<1>2. /\ \A k \in DOMAIN toStore' : k + 1 \in DOMAIN toStore /\ k + 1 # 1 /\ toStore'[k] = toStore[k + 1]
      /\ 1 \in DOMAIN toStore /\ Head(toStore) = toStore[1] /\ r \in Requests
  BY <1>1, OldestOp, OperationParts
<1>3. /\ RowsStay /\ HasRow(id, r, rows')
      /\ \A k, l \in DOMAIN rows' : rows'[k].id = rows'[l].id => k = l
      /\ \A k \in DOMAIN rows' : \/ \E l \in DOMAIN rows : rows'[k] = rows[l]
                                 \/ rows'[k].id = id /\ rows'[k].req = r
      /\ \A l \in DOMAIN rows : \E m \in DOMAIN rows' : rows'[m] = rows[l]
      /\ \A x, q : HasRow(x, q, rows) => x # id
  BY <1>1, <1>2, RowComes DEF OnceInv
<1>4. NoFile(r, files) /\ ~HasEncoder(id, encoders) /\ r \notin FromRecording
  <2>1. NoFile(r, files)
    BY <1>1, <1>2 DEF OnceInv, FreshInv
  <2>2. ~HasEncoder(id, encoders)
    BY <1>3 DEF HasEncoder, OnceInv, WorkInv
  <2>3. r \notin FromRecording
    BY <1>1, <1>2 DEF QueueInv, OneAdd
  <2> QED BY <2>1, <2>2, <2>3
<1>5. ASSUME EncodersWait,
             \A k \in DOMAIN encoders' : \/ \E l \in DOMAIN encoders : encoders'[k] = encoders[l]
                                         \/ encoders'[k] = NewEncoder(id, r),
             \A k, l \in DOMAIN encoders' : encoders'[k].id = encoders'[l].id => k = l,
             \A x : HasEncoder(x, encoders') => HasEncoder(x, encoders) \/ x = id,
             UNCHANGED <<restoring, todo, listed>>,
             \A q \in Requests : admit'[q] = admit[q] \/ (q = r /\ admit'[q].step = "none" /\ admit[q].step = "adding"),
             \A q \in Requests : job'[q] = "new" => job[q] = "new"
      PROVE  OnceInv'
  <2>1. WorkInv'
    BY <1>3, <1>5 DEF NewEncoder, OnceInv, WorkInv, RowsStay
  <2>2. \A x, q : HasRow(x, q, rows) /\ ~HasEncoder(x, encoders) => ~HasEncoder(x, encoders')
    BY <1>3, <1>5
  <2>3. RestoreInv'
    <3>1. \A k \in DOMAIN todo : /\ \E m \in DOMAIN rows' : rows'[m] = todo[k]
                                 /\ ~HasEncoder(todo[k].id, encoders') /\ todo[k].id \in listed
      <4> SUFFICES ASSUME NEW k \in DOMAIN todo
                   PROVE  /\ \E m \in DOMAIN rows' : rows'[m] = todo[k]
                          /\ ~HasEncoder(todo[k].id, encoders') /\ todo[k].id \in listed
        OBVIOUS
      <4>1. PICK l \in DOMAIN rows : rows[l] = todo[k]
        BY DEF OnceInv, RestoreInv
      <4>2. ~HasEncoder(todo[k].id, encoders) /\ todo[k].id \in listed
        BY DEF OnceInv, RestoreInv
      <4>3. HasRow(todo[k].id, rows[l].req, rows)
        BY <4>1 DEF HasRow
      <4> QED BY <1>3, <2>2, <4>1, <4>2, <4>3
    <3>2. restoring = "restoring" => \A q \in Requests : admit'[q].step = "none"
      BY <1>5 DEF OnceInv, RestoreInv
    <3> QED BY <1>5, <3>1, <3>2 DEF OnceInv, RestoreInv
  <2>4. \A q \in FromRecording : admit'[q] = admit[q]
    BY <1>4, <1>5, EncodeAssumption
  <2>5. AdmitInv'
    BY <1>3, <2>2, <2>4 DEF OnceInv, AdmitInv, RowsStay
  <2>6. MessageInv'
    BY <1>5, <2>4, <1>2, <1>3, <2>2 DEF MessageInv, OnceInv, Admitting, Removing, RowsStay
  <2>7. FreshInv'
    BY <1>2, <1>5, FreshHolds DEF OnceInv
  <2>8. LeftInv' /\ PendingInv'
    BY <1>5, LeftTail, PendingTail DEF OnceInv, EncodersWait
  <2>9. RemovalInv'
    <3>1. ASSUME NEW k \in DOMAIN toStore', toStore'[k].op = "remove"
          PROVE  /\ HasRow(toStore'[k].id, toStore'[k].req, rows) => HasRow(toStore'[k].id, toStore'[k].req, rows')
                 /\ Leaving(toStore'[k].id, encoders) => Leaving(toStore'[k].id, encoders')
                 /\ toStore'[k].by = "admit" /\ admit[toStore'[k].req].step = "rejecting"
                       /\ admit[toStore'[k].req].id = toStore'[k].id =>
                       admit'[toStore'[k].req] = admit[toStore'[k].req]
                 /\ restoring = "restoring" => (HasEncoder(toStore'[k].id, encoders') => HasEncoder(toStore'[k].id, encoders))
      <4>1. toStore'[k].req \in Requests
        BY <1>2, OperationParts
      <4>2. HasRow(toStore'[k].id, toStore'[k].req, rows)
        BY <1>2, <3>1 DEF OnceInv, RemovalInv
      <4> QED BY <1>3, <1>5, <2>2, <4>1, <4>2 DEF RowsStay, EncodersWait
    <3> QED BY <1>5, <3>1, RemovalTail DEF OnceInv
  <2>10. FirstInv'
    <3>1. \A f : ~Registered(r, f, files)
      BY <1>4 DEF Registered, NoFile
    <3>2. \A k \in DOMAIN rows' : \/ \E l \in DOMAIN rows : rows'[k] = rows[l]
                                  \/ rows'[k].id = id /\ rows'[k].req = r /\ ~HasEncoder(id, encoders)
      BY <1>3, <1>4
    <3>3. \A q, f : Registered(q, f, files') => Registered(q, f, files)
      OBVIOUS
    <3>4. \A i \in DOMAIN toStore' : toStore'[i].op = "output" =>
             \E j \in DOMAIN toStore : toStore[j].op = "output" /\ toStore[j].id = toStore'[i].id
      BY <1>2
    <3>5. FirstInv /\ TypeOK'
      BY DEF OnceInv
    <3>6. \A k \in DOMAIN encoders' : \/ \E l \in DOMAIN encoders : encoders'[k] = encoders[l]
                                      \/ encoders'[k] = NewEncoder(id, r)
      BY <1>5
    <3> QED BY ONLY <3>1, <3>2, <3>3, <3>4, <3>5, <3>6, FirstGrows
  <2> QED BY <2>1, <2>3, <2>5, <2>6, <2>7, <2>8, <2>9, <2>10 DEF OnceInv
<1>6. CASE Head(toStore).by = "admit"
  <2>1. admit[r].step = "adding"
    BY <1>1, <1>2, <1>6 DEF QueueInv, OneAdd
  <2>2. /\ encoders' = Append(encoders, NewEncoder(id, r)) /\ admit' = [admit EXCEPT ![r] = Idle]
        /\ job' = [job EXCEPT ![r] = "open"] /\ UNCHANGED <<restoring, todo, listed>>
    BY <1>1, <1>6 DEF AddAnswered, Enqueue, restoration
  <2>3. \A q \in Requests : admit'[q] = admit[q] \/ (q = r /\ admit'[q].step = "none" /\ admit[q].step = "adding")
    BY <1>2, <2>1, <2>2 DEF TypeOK, Idle
  <2>4. \A q \in Requests : job'[q] = "new" => job[q] = "new"
    BY <2>2 DEF TypeOK
  <2>5. /\ \A k \in DOMAIN encoders' : (k \in DOMAIN encoders /\ encoders'[k] = encoders[k]) \/ encoders'[k] = NewEncoder(id, r)
        /\ \A k, l \in DOMAIN encoders' : encoders'[k].id = encoders'[l].id => k = l
        /\ EncodersWait
        /\ \A x : HasEncoder(x, encoders') => HasEncoder(x, encoders) \/ x = id
    BY <1>4, <2>2, NewWorks DEF OnceInv
  <2>6. \A k \in DOMAIN encoders' : \/ \E l \in DOMAIN encoders : encoders'[k] = encoders[l]
                                    \/ encoders'[k] = NewEncoder(id, r)
    BY <2>5
  <2> QED BY <1>5, <2>2, <2>3, <2>4, <2>5, <2>6
<1>7. CASE Head(toStore).by # "admit"
  BY <1>7, SameWork, <1>5 DEF NobodyWaits, restoration, OnceInv, WorkInv
<1> QED BY <1>6, <1>7

\* The output path of a conversion is recorded: it is that of the conversion that waits for it.
LEMMA OutputHeldOnce ==
    ASSUME TypeOK, TypeOK', OnceInv, toStore # <<>>, toStore' = Tail(toStore),
           NEW op, op = toStore[1], op.op = "output",
           DOMAIN rows' = DOMAIN rows,
           \A k \in DOMAIN rows : /\ rows'[k].id = rows[k].id /\ rows'[k].req = rows[k].req
                                  /\ rows[k].id # op.id => rows'[k] = rows[k]
                                  /\ rows[k].id = op.id => rows'[k].out = op.out,
           DOMAIN encoders' = DOMAIN encoders,
           \A k \in DOMAIN encoders : /\ encoders'[k].id = encoders[k].id /\ encoders'[k].req = encoders[k].req
                                      /\ encoders'[k].file = encoders[k].file /\ encoders'[k].settle = encoders[k].settle
                                      /\ encoders[k].id # op.id => encoders'[k] = encoders[k]
                                      /\ encoders[k].id = op.id => /\ encoders[k].step = "starting"
                                                                   /\ encoders[k].file = op.out,
           \A k \in DOMAIN toStore' : toStore'[k].op = "output" /\ toStore'[k].by # "nobody" => toStore'[k].id # op.id,
           \A k \in DOMAIN todo : todo[k].id # op.id,
           UNCHANGED <<toService, up, restoring, todo, listed, admit, files, job>>
    PROVE  OnceInv'
<1>1. RowsStay /\ NoNewEncoder
  BY DEF RowsStay, HasRow, NoNewEncoder, HasEncoder
<1>2. \A k \in DOMAIN toStore' : k + 1 \in DOMAIN toStore /\ toStore'[k] = toStore[k + 1]
  BY OldestOp
<1>3. 1 \in DOMAIN toStore
  BY OldestOp
<1>4. WorkInv'
  BY <1>1 DEF OnceInv, WorkInv, RowsStay
<1>5. RestoreInv'
  BY <1>1, RestoreHolds DEF OnceInv, RestoreInv
<1>6. AdmitInv'
  BY <1>1, AdmitHolds DEF OnceInv
<1>7. MessageInv'
  BY <1>2, <1>1, MessageHolds DEF OnceInv, MessageInv, Removing
<1>8. FreshInv'
  BY <1>2, FreshHolds DEF OnceInv
<1>9. LeftInv'
  BY LeftTail DEF OnceInv
<1>10. PendingInv'
  BY PendingTail DEF Starting, OnceInv
<1>11. RemovalInv'
  BY <1>1, RemovalTail DEF Leaving, OnceInv, RowsStay, NoNewEncoder
<1>12. FirstInv'
  BY <1>3, <1>2 DEF OnceInv, FirstInv, Early
<1> QED BY <1>4, <1>5, <1>6, <1>7, <1>8, <1>9, <1>10, <1>11, <1>12 DEF OnceInv

\* While the operation that nobody waits for is done, nobody converts.
LEMMA NobodyConverts ==
    ASSUME OutputInv, OnceInv, NEW i \in DOMAIN toStore, toStore[i].by = "nobody"
    PROVE  Nothing /\ restoring # "restoring"
  BY DEF OnceInv, LeftInv, OutputInv, PhaseInv

LEMMA OutputOnce ==
    ASSUME TypeOK, TypeOK', OutputInv, OnceInv, toStore # <<>>, toStore' = Tail(toStore),
           NEW op, op = toStore[1], op.op = "output", Returned(op),
           rows' = [i \in DOMAIN rows |-> IF rows[i].id = op.id THEN [rows[i] EXCEPT !.out = op.out] ELSE rows[i]],
           UNCHANGED <<toService, up, files>>
    PROVE  OnceInv'
<1>1. /\ 1 \in DOMAIN toStore
      /\ \A k \in DOMAIN toStore' : k + 1 \in DOMAIN toStore /\ k + 1 # 1 /\ toStore'[k] = toStore[k + 1]
  BY OldestOp
<1>2. /\ DOMAIN rows' = DOMAIN rows
      /\ \A k \in DOMAIN rows : /\ rows'[k].id = rows[k].id /\ rows'[k].req = rows[k].req
                                /\ rows[k].id # op.id => rows'[k] = rows[k]
                                /\ rows[k].id = op.id => rows'[k].out = op.out
  BY RowParts DEF Records
<1>3. UNCHANGED <<restoring, todo, listed, job>>
  BY ReturnedOutputs
<1>4. CASE op.by = "nobody"
  <2>1. Nothing
    BY <1>1, <1>4, NobodyConverts
  <2>2. encoders = <<>> /\ todo = <<>> /\ UNCHANGED <<encoders, admit>>
    BY <1>4, <2>1 DEF Nothing, Returned, NobodyWaits
  <2>3. DOMAIN encoders = {} /\ DOMAIN todo = {}
    BY <2>2
  <2>4. \A k \in DOMAIN toStore' : toStore'[k].op = "output" => toStore'[k].by = "nobody"
    BY <1>1, <2>3 DEF OnceInv, PendingInv, Starting
  <2> QED BY <1>2, <1>3, <2>2, <2>3, <2>4, OutputHeldOnce
<1>5. CASE op.by # "nobody"
  <2>1. op.by = "encoder" /\ Starting(op.id, op.out, encoders)
    BY <1>1, <1>5 DEF OnceInv, PendingInv
  <2>2. PICK m \in DOMAIN encoders : encoders[m].id = op.id /\ encoders[m].step = "starting" /\ encoders[m].file = op.out
    BY <2>1 DEF Starting
  <2>3. \A k \in DOMAIN encoders : encoders[k].id = op.id => k = m
    BY <2>2 DEF OnceInv, WorkInv
  <2>4. /\ encoders' = [i \in DOMAIN encoders |->
                       IF encoders[i].id = op.id /\ encoders[i].step = "starting"
                       THEN [encoders[i] EXCEPT !.step = "spawning"] ELSE encoders[i]]
        /\ UNCHANGED admit
    BY <2>1 DEF Returned, OutputRecorded
  <2>5. \A k \in DOMAIN encoders : LET e == [encoders[k] EXCEPT !.step = "spawning"]
                                   IN  /\ e.id = encoders[k].id /\ e.req = encoders[k].req
                                       /\ e.file = encoders[k].file /\ e.settle = encoders[k].settle
    BY EncoderParts DEF EncoderStates
  <2>6. /\ DOMAIN encoders' = DOMAIN encoders
        /\ \A k \in DOMAIN encoders : /\ encoders'[k].id = encoders[k].id /\ encoders'[k].req = encoders[k].req
                                      /\ encoders'[k].file = encoders[k].file /\ encoders'[k].settle = encoders[k].settle
                                      /\ encoders[k].id # op.id => encoders'[k] = encoders[k]
                                      /\ encoders[k].id = op.id => /\ encoders[k].step = "starting"
                                                                   /\ encoders[k].file = op.out
    BY <2>2, <2>3, <2>4, <2>5
  <2>7. \A k \in DOMAIN toStore' : toStore'[k].op = "output" /\ toStore'[k].by # "nobody" => toStore'[k].id # op.id
    BY <1>1, <1>5 DEF OnceInv, PendingInv
  <2>8. \A k \in DOMAIN todo : todo[k].id # op.id
    BY <2>2 DEF OnceInv, RestoreInv, HasEncoder
  <2> QED BY <1>2, <1>3, <2>4, <2>6, <2>7, <2>8, OutputHeldOnce
<1> QED BY <1>4, <1>5

\* A record is removed: the others stay.
LEMMA RowGoes ==
    ASSUME TypeOK, NEW id, DeleteRecord(id), \A k, l \in DOMAIN rows : rows[k].id = rows[l].id => k = l
    PROVE  /\ \A k \in DOMAIN rows' : rows'[k].id # id /\ \E l \in DOMAIN rows : rows'[k] = rows[l]
           /\ \A l \in DOMAIN rows : rows[l].id # id => \E k \in DOMAIN rows' : rows'[k] = rows[l]
           /\ \A k, l \in DOMAIN rows' : rows'[k].id = rows'[l].id => k = l
<1>1. CASE id \notin RowIds /\ UNCHANGED rows
  BY <1>1 DEF RowIds
<1>2. ASSUME NEW l \in DOMAIN rows, rows[l].id = id, rows' = RemoveAt(rows, l)
      PROVE  /\ \A k \in DOMAIN rows' : rows'[k].id # id /\ \E m \in DOMAIN rows : rows'[k] = rows[m]
             /\ \A m \in DOMAIN rows : rows[m].id # id => \E k \in DOMAIN rows' : rows'[k] = rows[m]
             /\ \A k, m \in DOMAIN rows' : rows'[k].id = rows'[m].id => k = m
  <2>1. PICK s \in Seq(Records) : s = rows
    BY DEF TypeOK
  <2>2. /\ DOMAIN RemoveAt(s, l) = 1 .. Len(s) - 1
        /\ \A k \in 1 .. Len(s) - 1 : Shift(l, k) \in DOMAIN s \ {l} /\ RemoveAt(s, l)[k] = s[Shift(l, k)]
    <3>1. l \in DOMAIN s
      BY <1>2, <2>1
    <3>2. s \in Seq(Records)
      OBVIOUS
    <3> QED BY ONLY <3>1, <3>2, RemoveAtProperties
  <2>3. DOMAIN rows = 1 .. Len(rows) /\ Len(rows) \in Nat
    BY LenProperties DEF TypeOK
  <2>4. /\ DOMAIN rows' = 1 .. Len(rows) - 1
        /\ \A k \in DOMAIN rows' : Shift(l, k) \in DOMAIN rows /\ Shift(l, k) # l /\ rows'[k] = rows[Shift(l, k)]
    BY <1>2, <2>1, <2>2
  <2>5. \A k, m \in DOMAIN rows : rows[k].id = rows[m].id => k = m
    OBVIOUS
  <2>6. \A k \in DOMAIN rows' : rows'[k].id # id /\ \E m \in DOMAIN rows : rows'[k] = rows[m]
    BY <1>2, <2>4, <2>5
  <2>7. \A k, m \in DOMAIN rows' : rows'[k].id = rows'[m].id => k = m
    BY <2>3, <2>4, <2>5 DEF Shift
  <2>8. ASSUME NEW m \in DOMAIN rows, m # l
        PROVE  \E k \in DOMAIN rows' : rows'[k] = rows[m]
    <3>1. CASE m < l
      BY <2>3, <3>1, <2>4 DEF Shift
    <3>2. CASE ~(m < l)
      <4>1. m - 1 \in 1 .. Len(rows) - 1 /\ Shift(l, m - 1) = m
        BY <2>3, <2>8, <3>2 DEF Shift
      <4> QED BY <2>4, <4>1
    <3> QED BY <3>1, <3>2
  <2> QED BY <1>2, <2>6, <2>7, <2>8
<1> QED BY <1>1, <1>2 DEF DeleteRecord

\* A record is removed for the one who worked for it, and who is done with it.
LEMMA RemovalDoneOnce ==
    ASSUME TypeOK, TypeOK', OnceInv, toStore # <<>>, toStore' = Tail(toStore),
           NEW op, op = toStore[1], op.op = "remove", DeleteRecord(op.id),
           EncodersWork, ~HasEncoder(op.id, encoders'), \A file : ~Starting(op.id, file, encoders),
           \A id, file : id # op.id /\ Starting(id, file, encoders) => Starting(id, file, encoders'),
           \A id : id # op.id /\ Leaving(id, encoders) => Leaving(id, encoders'),
           \A r \in Requests : admit'[r] = admit[r] \/ (admit[r].id = op.id /\ admit'[r].step = "none"),
           \A r \in FromRecording : admit'[r].step # "none" => admit'[r].id # op.id,
           \A k \in DOMAIN todo : todo[k].id # op.id,
           UNCHANGED <<toService, up, restoring, todo, listed, files, job>>
    PROVE  OnceInv'
<1>1. /\ 1 \in DOMAIN toStore
      /\ \A k \in DOMAIN toStore' : k + 1 \in DOMAIN toStore /\ k + 1 # 1 /\ toStore'[k] = toStore[k + 1]
  BY OldestOp
<1>2. /\ \A k \in DOMAIN rows' : rows'[k].id # op.id /\ \E l \in DOMAIN rows : rows'[k] = rows[l]
      /\ \A l \in DOMAIN rows : rows[l].id # op.id => \E k \in DOMAIN rows' : rows'[k] = rows[l]
      /\ \A k, l \in DOMAIN rows' : rows'[k].id = rows'[l].id => k = l
  BY RowGoes DEF OnceInv, WorkInv
<1>3. \A id, r : HasRow(id, r, rows) /\ id # op.id => HasRow(id, r, rows')
  BY <1>2 DEF HasRow
<1>4. NoNewEncoder
  BY WorkIsOld
<1>5. \A r \in FromRecording : r \in Requests
  BY EncodeAssumption
<1>6. WorkInv'
  BY <1>3, <1>2 DEF EncodersWork, Later, OnceInv, WorkInv, HasEncoder
<1>7. RestoreInv'
  BY <1>2, <1>4, RestoreHolds DEF OnceInv, RestoreInv
<1>8. AdmitInv'
  BY <1>5, <1>3, <1>4 DEF AdmitInv, OnceInv, NoNewEncoder
<1>9. MessageInv'
  BY <1>1, <1>5, <1>3, <1>4 DEF MessageInv, OnceInv, Removing, Admitting, NoNewEncoder
<1>10. FreshInv' /\ LeftInv'
  BY <1>1, FreshHolds, LeftTail DEF OnceInv
<1>11. PendingInv'
  BY PendingTail DEF OnceInv
<1>12. RemovalInv'
  <2>1. ASSUME NEW k \in DOMAIN toStore', toStore'[k].op = "remove"
        PROVE  /\ HasRow(toStore'[k].id, toStore'[k].req, rows) => HasRow(toStore'[k].id, toStore'[k].req, rows')
               /\ Leaving(toStore'[k].id, encoders) => Leaving(toStore'[k].id, encoders')
               /\ toStore'[k].by = "admit" /\ admit[toStore'[k].req].step = "rejecting"
                     /\ admit[toStore'[k].req].id = toStore'[k].id =>
                     admit'[toStore'[k].req] = admit[toStore'[k].req]
               /\ restoring = "restoring" => (HasEncoder(toStore'[k].id, encoders') => HasEncoder(toStore'[k].id, encoders))
    <3>1. toStore'[k].id # op.id
      BY <1>1, <2>1 DEF OnceInv, RemovalInv
    <3>2. toStore'[k].req \in Requests
      BY <1>1, OperationParts
    <3> QED BY <1>3, <1>4, <3>1, <3>2 DEF NoNewEncoder
  <2> QED BY <2>1, RemovalTail DEF OnceInv
<1>13. FirstInv'
  BY <1>1, <1>2, FirstHolds DEF EncodersWork, OnceInv
<1> QED BY <1>6, <1>7, <1>8, <1>9, <1>10, <1>11, <1>12, <1>13 DEF OnceInv

LEMMA RemoveOnce ==
    ASSUME TypeOK, TypeOK', OutputInv, OnceInv, toStore # <<>>, toStore' = Tail(toStore),
           NEW op, op = toStore[1], op.op = "remove", Returned(op), DeleteRecord(op.id),
           UNCHANGED <<toService, up, files>>
    PROVE  OnceInv'
<1>1. 1 \in DOMAIN toStore /\ op \in Operations
  BY OldestOp
<1>2. UNCHANGED <<restoring, todo, listed, job>>
  BY ReturnedOutputs
<1>3. admit \in [Requests -> Admissions]
  BY DEF TypeOK
<1>4. \A r \in FromRecording : r \in Requests
  BY EncodeAssumption
<1>5. CASE op.by = "encoder"
  <2>1. PICK i \in DOMAIN encoders : /\ encoders[i].id = op.id /\ encoders[i].step = "removing"
                                     /\ WithoutEncoder(i) /\ UNCHANGED admit
    BY <1>5 DEF Returned, EncoderDone
  <2>2. /\ EncodersWork /\ ~HasEncoder(op.id, encoders')
        /\ \A id, file : id # op.id /\ Starting(id, file, encoders) => Starting(id, file, encoders')
        /\ \A id : id # op.id /\ Leaving(id, encoders) => Leaving(id, encoders')
    BY <2>1, GoneWorks DEF OnceInv
  <2>3. \A k \in DOMAIN encoders : encoders[k].id = op.id => k = i
    BY <2>1 DEF OnceInv, WorkInv
  <2>4. \A file : ~Starting(op.id, file, encoders)
    BY <2>1, <2>3 DEF Starting
  <2>5. HasEncoder(op.id, encoders)
    BY <2>1 DEF HasEncoder
  <2>6. \A k \in DOMAIN todo : todo[k].id # op.id
    BY <2>5 DEF OnceInv, RestoreInv
  <2>7. \A r \in FromRecording : admit'[r].step # "none" => admit'[r].id # op.id
    BY <2>1, <2>5 DEF OnceInv, AdmitInv
  <2> QED BY <1>2, <2>1, <2>2, <2>4, <2>6, <2>7, RemovalDoneOnce
<1>6. ASSUME UNCHANGED encoders, ~HasEncoder(op.id, encoders)
      PROVE  /\ EncodersWork /\ ~HasEncoder(op.id, encoders') /\ \A file : ~Starting(op.id, file, encoders)
             /\ \A id, file : id # op.id /\ Starting(id, file, encoders) => Starting(id, file, encoders')
             /\ \A id : id # op.id /\ Leaving(id, encoders) => Leaving(id, encoders')
  BY <1>6, SameWork DEF OnceInv, HasEncoder, Starting
<1>7. CASE op.by = "admit"
  <2>1. PICK r \in FromRecording : r = op.req
    BY <1>1, <1>7 DEF Operations
  <2>2. admit[r].step = "rejecting" /\ admit[r].id = op.id
    BY <1>1, <1>7, <2>1 DEF OnceInv, RemovalInv
  <2>3. admit' = [admit EXCEPT ![r] = Idle] /\ UNCHANGED encoders
    BY <1>7, <2>1 DEF Returned, RejectionDone
  <2>4. /\ admit'[r].step = "none"
        /\ \A q \in Requests : q # r => admit'[q] = admit[q]
    BY <1>3, <1>4, <2>3 DEF Idle
  <2>5. HasRow(op.id, r, rows) /\ ~HasEncoder(op.id, encoders)
    BY <2>2 DEF OnceInv, AdmitInv
  <2>6. \A k \in DOMAIN todo : todo[k].id # op.id
    BY <1>4, <2>2 DEF OnceInv, RestoreInv
  <2>7. ASSUME NEW q \in FromRecording, admit'[q].step # "none"
        PROVE  admit'[q].id # op.id
    BY <1>4, <2>4, <2>7, <2>5 DEF OnceInv, AdmitInv, WorkInv, HasRow
  <2>8. \A q \in Requests : admit'[q] = admit[q] \/ (admit[q].id = op.id /\ admit'[q].step = "none")
    BY <2>2, <2>4
  <2> QED BY <1>2, <1>6, <2>3, <2>5, <2>6, <2>7, <2>8, RemovalDoneOnce
<1>8. CASE op.by = "restore" \/ op.by = "nobody"
  <2>1. UNCHANGED <<encoders, admit>>
    BY <1>8 DEF Returned, NobodyWaits
  <2>2. /\ ~HasEncoder(op.id, encoders) /\ \A k \in DOMAIN todo : todo[k].id # op.id
        /\ \A r \in Requests : admit[r].step = "none"
    BY <1>1, NobodyConverts, <1>8 DEF OnceInv, RemovalInv, RestoreInv, Nothing, HasEncoder
  <2> QED BY <1>2, <1>4, <1>6, <2>1, <2>2, RemovalDoneOnce
<1> QED BY <1>1, <1>5, <1>7, <1>8 DEF Operations

\* The list holds each record once.
LEMMA ListedApart ==
    ASSUME TypeOK, \A k, l \in DOMAIN rows : rows[k].id = rows[l].id => k = l, NEW records \in ListedRecords
    PROVE  /\ DOMAIN records = DOMAIN rows
           /\ \A k \in DOMAIN records : records[k].id \in RowIds /\ \E l \in DOMAIN rows : rows[l] = records[k]
           /\ \A k, l \in DOMAIN records : records[k].id = records[l].id => k = l
           /\ \A id \in RowIds : \E k \in DOMAIN records : records[k].id = id
<1> DEFINE n == Len(rows)
           ids == [k \in 1 .. n |-> rows[k].id]
<1>1. n \in Nat /\ DOMAIN rows = 1 .. n
  BY LenProperties DEF TypeOK
<1>2. RowIds \in SUBSET Ids
  BY RowParts DEF RowIds
<1>3. /\ IsFiniteSet(RowIds) /\ Cardinality(RowIds) \in Nat
      /\ \A i, j \in 1 .. Cardinality(RowIds) : OrderByAcceptance(RowIds)[i] = OrderByAcceptance(RowIds)[j] => i = j
  BY <1>2, OrderIsComplete
<1>9. OrderByAcceptance(RowIds) \in [1 .. Cardinality(RowIds) -> RowIds]
  BY <1>2, OrderIsComplete
<1>4. Cardinality(RowIds) = n /\ Cardinality(1 .. n) = n
  <2>1. ids \in [1 .. n -> RowIds] /\ \A t \in RowIds : \E k \in 1 .. n : ids[k] = t
    BY <1>1 DEF RowIds
  <2>2. \A k, l \in 1 .. n : ids[k] = ids[l] => k = l
    BY <1>1
  <2> HIDE DEF ids
  <2>3. ids \in Injection(1 .. n, RowIds)
    BY <2>1, <2>2 DEF Injection, IsInjective
  <2>4. ids \in Surjection(1 .. n, RowIds)
    BY <2>1 DEF Surjection
  <2>5. Cardinality(1 .. n) = Cardinality(RowIds)
    BY <1>3, <2>3, <2>4, FS_Injection
  <2>6. Cardinality(1 .. n) = n
    <3>1. n \in Nat /\ n \in Int /\ 1 \in Int
      BY <1>1
    <3> HIDE DEF n
    <3>2. Cardinality(1 .. n) = IF 1 > n THEN 0 ELSE n - 1 + 1
      BY ONLY <3>1, FS_Interval
    <3> QED BY ONLY <3>1, <3>2
  <2> QED BY <2>5, <2>6
<1>5. records \in [DOMAIN rows -> Range(rows)] /\ \A i \in DOMAIN rows : records[i].id = OrderByAcceptance(RowIds)[i]
  BY DEF ListedRecords, InOrderOfAcceptance
<1>6. \A k \in DOMAIN records : \E l \in DOMAIN rows : rows[l] = records[k]
  BY <1>5 DEF Range
<1>7. \A k, l \in DOMAIN records : records[k].id = records[l].id => k = l
  BY <1>1, <1>3, <1>4, <1>5
<1>8. \A id \in RowIds : \E k \in DOMAIN records : records[k].id = id
  <2>1. PICK f : f = OrderByAcceptance(RowIds)
    OBVIOUS
  <2>2. f \in Injection(1 .. n, RowIds)
    BY <1>3, <1>4, <1>9, <2>1 DEF Injection, IsInjective
  <2>3. f \in Surjection(1 .. n, RowIds)
    BY <1>3, <1>4, <2>2, FS_Injection
  <2>4. \A id \in RowIds : \E k \in 1 .. n : f[k] = id
    BY <2>3 DEF Surjection
  <2> QED BY <1>1, <1>5, <2>1, <2>4
<1> QED BY <1>5, <1>6, <1>7, <1>8 DEF RowIds

LEMMA ListedOnce ==
    ASSUME TypeOK, TypeOK', OutputInv, OnceInv, toStore # <<>>, toStore' = Tail(toStore), IsList(toStore[1]), Listed,
           UNCHANGED <<rows, toService, up, files>>
    PROVE  OnceInv'
<1>1. /\ restoring' = "restoring" /\ todo' \in ListedRecords /\ listed' = listed \cup RowIds
      /\ UNCHANGED <<admit, encoders, job>>
  BY DEF Listed
<1>2. 1 \in DOMAIN toStore /\ restoring = "listing" /\ Nothing
  BY OldestOp DEF OutputInv, PhaseInv
<1>3. DOMAIN toStore' = {}
  <2>1. 1 = Len(toStore)
    BY <1>2 DEF OnceInv, LeftInv, IsList
  <2>2. DOMAIN toStore' = 1 .. Len(toStore) - 1
    BY TailTypes
  <2>3. 1 .. 1 - 1 = {}
    OBVIOUS
  <2> QED BY ONLY <2>1, <2>2, <2>3
<1>4. DOMAIN encoders = {} /\ \A r \in Requests : admit[r].step = "none"
  BY <1>2 DEF Nothing
<1>5. WorkInv'
  BY <1>1 DEF OnceInv, WorkInv
<1>6. RestoreInv'
  BY <1>1, ListedApart, <1>4 DEF OnceInv, WorkInv, HasEncoder, RestoreInv
<1>7. AdmitInv'
  BY <1>1 DEF OnceInv, AdmitInv
<1>8. MessageInv'
  BY <1>1 DEF OnceInv, MessageInv, HasRow, RowIds
<1>9. FreshInv'
  BY <1>1, <1>3 DEF OnceInv, FreshInv
<1>10. LeftInv' /\ PendingInv' /\ RemovalInv'
  BY <1>1, <1>3 DEF LeftInv, PendingInv, RemovalInv
<1>11. FirstInv'
  BY <1>1, <1>3 DEF OnceInv, FirstInv
<1> QED BY <1>5, <1>6, <1>7, <1>8, <1>9, <1>10, <1>11 DEF OnceInv

LEMMA StoreStepOnce ==
    ASSUME TypeOK, TypeOK', QueueInv, OutputInv, OnceInv, StoreStep
    PROVE  OnceInv'
<1>1. PICK op : op = toStore[1]
  OBVIOUS
<1>2. toStore # <<>> /\ toStore' = Tail(toStore) /\ UNCHANGED <<toService, up, files>>
  BY DEF StoreStep, disk
<1>3. op = Head(toStore) /\ 1 \in DOMAIN toStore
  BY <1>1, <1>2, OldestOp
<1>4. CASE op.op = "add"
  BY <1>2, <1>3, <1>4, AddedOnce DEF StoreStep
<1>5. op.op # "abandon"
  BY <1>1, <1>3 DEF OnceInv, LeftInv
<1>6. CASE op.op = "output"
  BY <1>3, <1>6, <1>1, <1>2, OutputOnce DEF StoreStep
<1>7. CASE op.op = "remove"
  BY <1>3, <1>7, <1>1, <1>2, RemoveOnce DEF StoreStep
<1>8. CASE op.op = "list"
  <2>1. UNCHANGED rows /\ IF op.by = "restore" THEN Listed ELSE NobodyWaits
    BY <1>3, <1>8 DEF StoreStep, store
  <2>2. CASE op.by = "restore"
    BY <1>1, <1>2, <1>8, <2>1, <2>2, ListedOnce DEF IsList
  <2>3. CASE op.by # "restore"
    BY <1>2, <2>1, <2>3, TailOnce DEF NobodyWaits, restoration
  <2> QED BY <2>2, <2>3
<1> QED BY <1>3, <1>4, <1>5, <1>6, <1>7, <1>8 DEF StoreStep

-----------------------------------------------------------------------------
(* The restoration keeps them. *)

LEMMA ServiceStartOnce ==
    ASSUME TypeOK, TypeOK', OutputInv, OnceInv, ServiceStart
    PROVE  OnceInv'
<1>1. PICK op : op = Op("list", 0, CHOOSE r \in Requests : TRUE, NoPath, "restore")
  OBVIOUS
<1>2. /\ ~up /\ up' /\ restoring' = "listing" /\ Send(op)
      /\ UNCHANGED <<rows, todo, listed, toService, admit, encoders, files, job>>
  BY <1>1 DEF ServiceStart, StartRestoration, store, disk
<1>3. op \in Operations /\ op.op = "list" /\ op.by = "restore"
  BY EncodeAssumption, <1>1 DEF Op, Operations, NoPath
<1>4. /\ Nothing /\ toService = <<>> /\ restoring = "off"
      /\ \A i \in DOMAIN toStore : toStore[i].by = "nobody"
  BY <1>2 DEF OutputInv, PhaseInv
<1>5. \A i \in DOMAIN toStore' : \/ i \in DOMAIN toStore /\ toStore'[i] = toStore[i]
                                 \/ i = Len(toStore) + 1 /\ toStore'[i] = op
  BY <1>2, <1>3, SendIsLast
<1>6. Len(toStore') = Len(toStore) + 1 /\ \A i \in DOMAIN toStore : i # Len(toStore) + 1
  <2>1. toStore \in Seq(Operations) /\ Len(toStore) \in Nat /\ DOMAIN toStore = 1 .. Len(toStore)
    BY LenProperties DEF TypeOK
  <2>2. toStore' = Append(toStore, op)
    BY <1>2 DEF Send
  <2> QED BY <1>3, <2>1, <2>2
<1>7. WorkInv' /\ RestoreInv' /\ AdmitInv'
  BY <1>2, <1>4 DEF OnceInv, WorkInv, RestoreInv, AdmitInv
<1>8. MessageInv'
  BY <1>2, <1>4 DEF MessageInv
<1>9. FreshInv'
  BY <1>3, <1>5, <1>2, FreshHolds DEF OnceInv
<1>10. LeftInv'
  BY <1>3, <1>5, <1>4, <1>6, <1>2 DEF OnceInv, LeftInv, IsList
<1>11. PendingInv'
  BY <1>3, <1>4, <1>5 DEF PendingInv
<1>12. RemovalInv'
  BY <1>3, <1>5, <1>2, <1>4 DEF OnceInv, RemovalInv
<1>13. FirstInv'
  BY <1>3, <1>5, <1>2, SameWork, FirstHolds DEF OnceInv, EncodersWork
<1> QED BY <1>7, <1>8, <1>9, <1>10, <1>11, <1>12, <1>13 DEF OnceInv

\* A record is dealt with: what it is restored to is its own.
LEMMA RestoredOnce ==
    ASSUME TypeOK, TypeOK', OnceInv, restoring = "restoring", todo # <<>>, todo' = Tail(todo),
           NEW record, record = todo[1],
           \A k \in DOMAIN encoders' : \/ \E l \in DOMAIN encoders : encoders'[k] = encoders[l]
                                       \/ encoders'[k] = NewEncoder(record.id, record.req),
           \A k, l \in DOMAIN encoders' : encoders'[k].id = encoders'[l].id => k = l,
           \A x : HasEncoder(x, encoders') => HasEncoder(x, encoders) \/ x = record.id,
           FilesAlike, \A r \in Requests : job'[r] = "new" => job[r] = "new",
           \A i \in DOMAIN toStore' : toStore'[i].op = "add" => i \in DOMAIN toStore /\ toStore'[i] = toStore[i],
           \A id : Removing(id, toStore') => Removing(id, toStore) \/ id = record.id,
           UNCHANGED <<rows, toService, up, restoring, listed, admit>>
    PROVE  WorkInv' /\ RestoreInv' /\ AdmitInv' /\ MessageInv' /\ FreshInv'
<1>1. 1 \in DOMAIN todo /\ \A k \in DOMAIN todo' : k + 1 \in DOMAIN todo /\ k + 1 # 1 /\ todo'[k] = todo[k + 1]
  BY TodoTail
<1>2. /\ HasRow(record.id, record.req, rows) /\ record.id \in listed
      /\ \A r \in Requests : admit[r].step = "none"
      /\ \A k, l \in DOMAIN todo : todo[k].id = todo[l].id => k = l
  BY <1>1 DEF OnceInv, RestoreInv, HasRow
<1>3. \A k \in DOMAIN todo' : todo'[k].id # record.id
  BY <1>1, <1>2
<1>4. \A r \in FromRecording : r \in Requests
  BY EncodeAssumption
<1>5. \A r : NoFile(r, files) => NoFile(r, files')
  BY AlikeFiles
<1>6. WorkInv'
  BY <1>2 DEF NewEncoder, OnceInv, WorkInv
<1>7. RestoreInv'
  <2>1. \A k \in DOMAIN todo' : /\ \E l \in DOMAIN rows : rows[l] = todo'[k]
                                /\ ~HasEncoder(todo'[k].id, encoders') /\ todo'[k].id \in listed
    BY <1>1, <1>3 DEF OnceInv, RestoreInv
  <2>2. ASSUME NEW k \in DOMAIN todo', NEW l \in DOMAIN todo', todo'[k].id = todo'[l].id
        PROVE  k = l
    <3>1. k + 1 = l + 1
      BY <1>1, <1>2, <2>2
    <3>2. k \in Nat /\ l \in Nat
      <4>1. todo' \in Seq(Records)
        BY DEF TypeOK
      <4>2. DOMAIN todo' = 1 .. Len(todo') /\ Len(todo') \in Nat
        BY <4>1, LenProperties
      <4> QED BY <4>2
    <3> QED BY <3>1, <3>2
  <2> QED BY <1>2, <2>1, <2>2 DEF RestoreInv
<1>8. AdmitInv'
  BY <1>2, <1>4 DEF AdmitInv
<1>9. MessageInv'
  BY <1>2, <1>5 DEF MessageInv, OnceInv
<1>10. FreshInv'
  BY <1>5, FreshHolds DEF OnceInv
<1> QED BY <1>6, <1>7, <1>8, <1>9, <1>10

\* The removal of a record that is judged: nobody else has asked for it.
LEMMA NotYetRemoved ==
    ASSUME TypeOK, OutputInv, OnceInv, RestoreReady
    PROVE  ~Removing(todo[1].id, toStore)
<1>1. restoring = "restoring" /\ 1 \in DOMAIN todo /\ up
  BY RestoringIsUp DEF TypeOK, RestoreReady
<1>2. ~HasEncoder(todo[1].id, encoders) /\ \A r \in Requests : admit[r].step = "none"
  BY <1>1 DEF OnceInv, RestoreInv
<1> SUFFICES ASSUME NEW i \in DOMAIN toStore, toStore[i].op = "remove", toStore[i].id = todo[1].id
             PROVE  FALSE
  BY DEF Removing
<1>3. toStore[i].by \in {"admit", "encoder", "restore", "nobody"} /\ toStore[i].req \in Requests
  BY OperationParts DEF Operations
<1>4. toStore[i].by # "nobody"
  BY <1>1 DEF OnceInv, LeftInv
<1>5. toStore[i].by # "restore"
  BY DEF RestoreReady
<1>6. toStore[i].by # "encoder"
  BY <1>2 DEF OnceInv, RemovalInv, Leaving, HasEncoder
<1>7. toStore[i].by # "admit"
  BY <1>2, <1>3 DEF OnceInv, RemovalInv
<1> QED BY <1>3, <1>4, <1>5, <1>6, <1>7

LEMMA RestoreNextOnce ==
    ASSUME TypeOK, TypeOK', OutputInv, OnceInv, RestoreNext
    PROVE  OnceInv'
<1>1. PICK record : record = todo[1]
  OBVIOUS
<1>2. /\ RestoreReady /\ restoring = "restoring" /\ todo # <<>> /\ todo' = Tail(todo)
      /\ UNCHANGED <<rows, toService, up, restoring, listed, admit>>
  BY DEF RestoreNext, RestoreReady, store
<1>3. /\ record = Head(todo) /\ record \in Records /\ 1 \in DOMAIN todo
      /\ \A k \in DOMAIN todo' : k + 1 \in DOMAIN todo /\ k + 1 # 1 /\ todo'[k] = todo[k + 1]
  BY <1>1, <1>2, TodoTail
<1>4. /\ HasRow(record.id, record.req, rows) /\ ~HasEncoder(record.id, encoders) /\ record.id \in listed
      /\ \A k \in DOMAIN todo' : todo'[k].id # record.id
      /\ \A k \in DOMAIN todo' : \E l \in DOMAIN todo : todo'[k] = todo[l]
  <2>1. \A k, l \in DOMAIN todo : todo[k].id = todo[l].id => k = l
    BY DEF OnceInv, RestoreInv
  <2>2. HasRow(record.id, record.req, rows) /\ ~HasEncoder(record.id, encoders) /\ record.id \in listed
    BY <1>1, <1>3 DEF OnceInv, RestoreInv, HasRow
  <2> QED BY <1>1, <1>3, <2>1, <2>2
<1>5. /\ RowsStay /\ \A j \in DOMAIN toStore : toStore[j].by # "restore"
      /\ restoring # "listing"
  BY <1>2 DEF RowsStay, RestoreReady
<1>6. CASE UNCHANGED <<encoders, files>>
  <2>1. EncodersWork /\ EncodersWait /\ NoNewEncoder /\ FilesAlike
    BY <1>6, SameWork, WorkIsOld DEF OnceInv, FilesAlike
  <2>2. ASSUME \A r \in Requests : job'[r] = "new" => job[r] = "new",
               \A i \in DOMAIN toStore' : toStore'[i].op \in {"add", "output"} => i \in DOMAIN toStore /\ toStore'[i] = toStore[i],
               \A id : Removing(id, toStore') => Removing(id, toStore) \/ id = record.id
        PROVE  WorkInv' /\ RestoreInv' /\ AdmitInv' /\ MessageInv' /\ FreshInv' /\ FirstInv'
    <3>1. /\ \A k \in DOMAIN encoders' : \E l \in DOMAIN encoders : encoders'[k] = encoders[l]
          /\ \A k, l \in DOMAIN encoders' : encoders'[k].id = encoders'[l].id => k = l
          /\ \A x : HasEncoder(x, encoders') => HasEncoder(x, encoders)
      BY <1>6 DEF OnceInv, WorkInv
    <3>2. WorkInv' /\ RestoreInv' /\ AdmitInv' /\ MessageInv' /\ FreshInv'
      BY <1>1, <1>2, <2>1, <2>2, <3>1, RestoredOnce
    <3>3. FirstInv'
      BY <1>2, <1>6, <2>1, <2>2, FirstHolds DEF OnceInv, EncodersWork
    <3> QED BY <3>2, <3>3
  <2>3. CASE UNCHANGED <<toStore, job>>
    <3>1. WorkInv' /\ RestoreInv' /\ AdmitInv' /\ MessageInv' /\ FreshInv' /\ FirstInv'
      BY <2>2, <2>3
    <3>2. LeftInv' /\ PendingInv'
      BY <1>2, <2>1, <2>3, LeftHolds, PendingHolds DEF OnceInv, EncodersWait
    <3>3. RemovalInv'
      BY <1>2, <1>4, <1>5, <2>1, <2>3, RemovalHolds DEF OnceInv, EncodersWait
    <3> QED BY <3>1, <3>2, <3>3 DEF OnceInv
  <2>4. CASE /\ Send(Op("remove", record.id, record.req, NoPath, "restore"))
             /\ job' = [job EXCEPT ![record.req] = "over"]
    <3>1. PICK op : op = Op("remove", record.id, record.req, NoPath, "restore")
      OBVIOUS
    <3>2. /\ op \in Operations /\ op.op = "remove" /\ op.by = "restore" /\ op.id = record.id /\ op.req = record.req
          /\ Send(op)
      <4>1. op \in Operations
        BY <1>3, <3>1, RemovalOfRecord
      <4> QED BY <2>4, <3>1, <4>1 DEF Op
    <3>3. \A i \in DOMAIN toStore' : \/ i \in DOMAIN toStore /\ toStore'[i] = toStore[i]
                                     \/ i = Len(toStore) + 1 /\ toStore'[i] = op
      BY <3>2, SendIsLast
    <3>4. /\ \A r \in Requests : job'[r] = "new" => job[r] = "new"
          /\ \A i \in DOMAIN toStore' : toStore'[i].op \in {"add", "output"} => i \in DOMAIN toStore /\ toStore'[i] = toStore[i]
          /\ \A id : Removing(id, toStore') => Removing(id, toStore) \/ id = record.id
      <4>1. \A r \in Requests : job'[r] = "new" => job[r] = "new"
        BY <2>4 DEF TypeOK
      <4> QED BY <3>2, <3>3, <4>1 DEF Removing
    <3>5. WorkInv' /\ RestoreInv' /\ AdmitInv' /\ MessageInv' /\ FreshInv' /\ FirstInv'
      BY <2>2, <3>4
    <3>6. LeftInv'
      BY <1>2, <1>5, <3>2, LeftSent DEF OnceInv
    <3>7. PendingInv'
      BY <2>1, <3>2, PendingSent DEF OnceInv, EncodersWait
    <3>8. RemovalInv'
      <4>1. ~Removing(op.id, toStore)
        BY <1>1, <1>2, <3>2, NotYetRemoved
      <4>2. ~HasEncoder(op.id, encoders')
        BY <1>4, <1>6, <3>2
      <4>3. /\ HasRow(op.id, op.req, rows) /\ op.id \in listed /\ \A k \in DOMAIN todo' : todo'[k].id # op.id
        BY <1>4, <3>2
      <4>4. \A id : Leaving(id, encoders) => Leaving(id, encoders')
        BY <1>6
      <4>5. \A i \in DOMAIN toStore : toStore[i].op = "remove" /\ toStore[i].by = "admit" =>
               (admit[toStore[i].req].step = "rejecting" => admit'[toStore[i].req] = admit[toStore[i].req])
        BY <1>2
      <4>6. TypeOK /\ RemovalInv /\ op \in Operations /\ Send(op) /\ RowsStay /\ op.op = "remove" /\ op.by = "restore"
            /\ restoring = "restoring" /\ UNCHANGED <<restoring, listed>>
        BY <1>2, <1>5, <3>2 DEF OnceInv
      <4>7. \A j \in DOMAIN toStore : toStore[j].by = "restore" /\ restoring = "restoring" => NoNewEncoder
        BY <1>5
      <4>8. \A k \in DOMAIN todo' : \E l \in DOMAIN todo : todo'[k] = todo[l]
        BY <1>4
      <4>9. op.by # "encoder" /\ op.by # "admit"
        BY <3>2
      <4> QED BY ONLY <4>1, <4>2, <4>3, <4>4, <4>5, <4>6, <4>7, <4>8, <4>9, RemovalSent
    <3> QED BY <3>5, <3>6, <3>7, <3>8 DEF OnceInv
  <2> QED BY <1>3, <1>6, <2>3, <2>4 DEF RestoreNext
<1>7. CASE /\ Restorable(record) /\ encoders' = Append(encoders, NewEncoder(record.id, record.req))
           /\ UNCHANGED <<toStore, job>>
           /\ files' = IF record.out = NoPath THEN files ELSE [files EXCEPT ![record.out].state = "none"]
  <2>1. /\ \A k \in DOMAIN encoders' : (k \in DOMAIN encoders /\ encoders'[k] = encoders[k])
                                         \/ encoders'[k] = NewEncoder(record.id, record.req)
        /\ \A k, l \in DOMAIN encoders' : encoders'[k].id = encoders'[l].id => k = l
        /\ EncodersWait
        /\ \A x : HasEncoder(x, encoders') => HasEncoder(x, encoders) \/ x = record.id
    BY <1>4, <1>7, NewWorks DEF OnceInv
  <2>2. \A k \in DOMAIN encoders' : \/ \E l \in DOMAIN encoders : encoders'[k] = encoders[l]
                                    \/ encoders'[k] = NewEncoder(record.id, record.req)
    BY <2>1
  <2>3. FilesAlike
    <3>1. CASE record.out = NoPath
      BY <1>7, <3>1 DEF FilesAlike
    <3>2. CASE record.out # NoPath
      <4>1. record.out \in DOMAIN files /\ ~files[record.out].registered
        BY <1>1, <1>3, <1>7, <3>2 DEF OutputInv, PathInv, IsPath, Restorable
      <4> QED BY <1>7, <3>2, <4>1, StateAlike
    <3> QED BY <3>1, <3>2
  <2>4. WorkInv' /\ RestoreInv' /\ AdmitInv' /\ MessageInv' /\ FreshInv'
    <3>1. /\ \A r \in Requests : job'[r] = "new" => job[r] = "new"
          /\ \A i \in DOMAIN toStore' : toStore'[i].op = "add" => i \in DOMAIN toStore /\ toStore'[i] = toStore[i]
          /\ \A id : Removing(id, toStore') => Removing(id, toStore) \/ id = record.id
      BY <1>7
    <3> QED BY <1>1, <1>2, <2>1, <2>2, <2>3, <3>1, RestoredOnce
  <2>5. LeftInv' /\ PendingInv'
    BY <1>2, <1>7, <2>1, LeftHolds, PendingHolds DEF OnceInv, EncodersWait
  <2>6. RemovalInv'
    BY <1>2, <1>4, <1>5, <1>7, <2>1, RemovalHolds DEF OnceInv, EncodersWait
  <2>7. FirstInv'
    <3>1. \A f : ~Registered(record.req, f, files)
      <4> SUFFICES ASSUME NEW f, Registered(record.req, f, files) PROVE FALSE
        OBVIOUS
      <4>1. f \in DOMAIN files /\ files[f].registered
        BY DEF Registered
      <4>2. PICK l \in DOMAIN rows : rows[l] = record
        BY <1>1, <1>3 DEF OnceInv, RestoreInv
      <4>3. record.out = f
        BY <4>1, <4>2 DEF OnceInv, FirstInv
      <4>4. f # NoPath
        <5>1. files \in Seq(Outputs)
          BY DEF TypeOK
        <5>2. DOMAIN files = 1 .. Len(files) /\ Len(files) \in Nat
          BY <5>1, LenProperties
        <5> QED BY <4>1, <5>2 DEF NoPath
      <4> QED BY <1>7, <4>1, <4>3, <4>4 DEF Restorable
    <3>2. \A q, f : Registered(q, f, files') => Registered(q, f, files)
      BY <2>3, AlikeFiles
    <3>3. \A k \in DOMAIN rows' : \/ \E l \in DOMAIN rows : rows'[k] = rows[l]
                                  \/ rows'[k].id = record.id /\ rows'[k].req = record.req /\ ~HasEncoder(record.id, encoders)
      BY <1>2
    <3>4. \A i \in DOMAIN toStore' : toStore'[i].op = "output" =>
             \E j \in DOMAIN toStore : toStore[j].op = "output" /\ toStore[j].id = toStore'[i].id
      BY <1>7
    <3>5. FirstInv /\ TypeOK'
      BY DEF OnceInv
    <3> QED BY ONLY <2>2, <3>1, <3>2, <3>3, <3>4, <3>5, FirstGrows
  <2> QED BY <2>4, <2>5, <2>6, <2>7 DEF OnceInv
<1> QED BY <1>3, <1>6, <1>7 DEF RestoreNext

-----------------------------------------------------------------------------
(* Crashes, and every step. *)

\* The service is gone with everything it worked for; the store keeps what has reached it.
LEMMA CrashOnce ==
    ASSUME TypeOK, TypeOK', OnceInv, ServiceGone, FilesAlike, UNCHANGED rows,
           \A i \in DOMAIN toStore' :
              /\ i \in DOMAIN toStore /\ toStore'[i].by = "nobody" /\ toStore'[i].op = toStore[i].op
              /\ toStore'[i].id = toStore[i].id /\ toStore'[i].req = toStore[i].req
    PROVE  OnceInv'
<1>1. /\ ~up' /\ restoring' = "off" /\ todo' = <<>> /\ DOMAIN encoders' = {} /\ DOMAIN toService' = {}
      /\ \A r \in Requests : admit'[r].step = "none"
      /\ \A r \in Requests : job'[r] = "new" => job[r] = "new"
  BY DEF ServiceGone, Idle
<1>2. /\ \A r : NoFile(r, files) => NoFile(r, files')
      /\ \A r, f : Registered(r, f, files') => Registered(r, f, files)
  BY AlikeFiles
<1>3. \A r \in FromRecording : r \in Requests
  BY EncodeAssumption
<1>4. WorkInv' /\ RestoreInv'
  BY <1>1 DEF OnceInv, WorkInv, RestoreInv
<1>5. AdmitInv' /\ MessageInv'
  BY <1>1, <1>3 DEF AdmitInv, MessageInv
<1>6. FreshInv'
  BY <1>1, <1>2, FreshHolds DEF OnceInv
<1>7. LeftInv' /\ PendingInv'
  BY <1>1 DEF OnceInv, LeftInv, PendingInv
<1>8. RemovalInv'
  BY DEF OnceInv, RemovalInv
<1>9. FirstInv'
  BY <1>1, <1>2, FirstHolds DEF OnceInv
<1> QED BY <1>4, <1>5, <1>6, <1>7, <1>8, <1>9 DEF OnceInv

LEMMA ServiceCrashOnce ==
    ASSUME TypeOK, TypeOK', OnceInv, NEW n \in 0 .. Len(toStore), ServiceCrash(n)
    PROVE  OnceInv'
  BY CleanedGoOn, LeftByCrash, CrashOnce DEF ServiceCrash, store, FilesGoOn, FilesAlike

LEMMA WholeCrashOnce ==
    ASSUME TypeOK, TypeOK', OnceInv, WholeCrash
    PROVE  OnceInv'
  BY CrashOnce DEF WholeCrash, FilesAlike

LEMMA InitOnce == Init => OnceInv
<1> SUFFICES ASSUME Init PROVE OnceInv
  OBVIOUS
<1>1. /\ DOMAIN rows = {} /\ DOMAIN toService = {} /\ DOMAIN todo = {} /\ DOMAIN encoders = {} /\ DOMAIN toStore = {}
      /\ DOMAIN files = {} /\ todo = <<>> /\ restoring = "off" /\ \A r \in Requests : admit[r].step = "none"
  BY DEF Init, Idle
<1>2. \A r \in FromRecording : r \in Requests
  BY EncodeAssumption
<1>3. WorkInv /\ RestoreInv /\ AdmitInv /\ MessageInv
  BY <1>1, <1>2 DEF WorkInv, RestoreInv, AdmitInv, MessageInv
<1>4. FreshInv /\ LeftInv /\ PendingInv /\ RemovalInv
  BY <1>1 DEF FreshInv, NoFile, LeftInv, PendingInv, RemovalInv
<1>5. FirstInv
  BY <1>1 DEF FirstInv
<1> QED BY <1>3, <1>4, <1>5 DEF OnceInv

\* Every step but a failing call keeps them.
LEMMA NextOnce ==
    ASSUME TypeOK, TypeOK', QueueInv, OutputInv, OnceInv, [Next]_vars, Faultless'
    PROVE  OnceInv'
<1>1. ~FailingStep
  BY FaultIsCounted
<1>2. CASE UNCHANGED vars \/ TimerFires \/ SuspendBegins \/ SuspendEnds
  BY <1>2, ClockOnce
<1>3. ASSUME NEW r \in Requests, TakeLock(r) \/ Acquire(r) \/ PushEnter(r) \/ EnqueueFromRecording(r)
      PROVE  OnceInv'
  BY <1>3, TakeLockOnce, AcquireOnce, PushEnterOnce, EnqueueFromRecordingOnce
<1>4. CASE HandOver \/ StoreStep \/ CheckQueue
  BY <1>4, HandOverOnce, StoreStepOnce, CheckQueueOnce
<1>5. CASE ServiceStart \/ RestoreNext \/ RestoreEnd \/ WholeCrash
  BY <1>5, ServiceStartOnce, RestoreNextOnce, RestoreEndOnce, WholeCrashOnce
<1>6. ~RetryList
  BY DEF RetryList, OutputInv, PhaseInv
<1>7. ASSUME NEW i \in DOMAIN encoders,
             \/ StartDone(i) \/ ExitWell(i) \/ ExitBadly(i) \/ Register(i, TRUE)
             \/ DeleteOriginal(i) \/ Finalize(i) \/ ReleaseEncoder(i)
             \/ CancelRunning(i) \/ CancelWaiting(i)
      PROVE  OnceInv'
  BY <1>7, StartDoneOnce, ExitWellOnce, ExitBadlyOnce, RegisterOnce, DeleteOriginalOnce,
     FinalizeOnce, ReleaseEncoderOnce, CancelWaitingOnce DEF CancelRunning
<1>8. ASSUME NEW n \in 0 .. Len(toStore), ServiceCrash(n)
      PROVE  OnceInv'
  BY <1>8, ServiceCrashOnce
<1>9. ASSUME FailingStep
      PROVE  OnceInv'
  BY <1>1, <1>9
<1> QED BY <1>2, <1>3, <1>4, <1>5, <1>6, <1>7, <1>8, <1>9 DEF Next, Progress, Environment, FailingStep

-----------------------------------------------------------------------------
(* The theorems about the outputs. *)

\* As long as no list() fails, and whatever else fails: each output belongs to one conversion, what
\* a restoration still judges (judgeRestorableRecord) is none's, nothing is at work while the list
\* is under way, and what was registered stays whole. deleteEncodedFile and the clean-up after
\* a crash delete by these.
THEOREM OutputsAreApart == Spec => [](Unforced => OutputInv)
<1>1. Init => TypeOK /\ QueueInv /\ OutputInv
  BY InitTypes, InitQueues, InitOutputs
<1> DEFINE Inv == TypeOK /\ QueueInv /\ (Unforced => OutputInv)
<1>2. Inv /\ [Next]_vars => Inv'
  BY NextKeeps, NextCounts, NextOutputs
<1>3. Init => Inv
  BY <1>1
<1>4. Inv => (Unforced => OutputInv)
  OBVIOUS
<1> HIDE DEF Inv
<1> QED BY <1>2, <1>3, <1>4, PTL DEF Spec

LEMMA FaultlessIsUnforced == Faultless => Unforced
  BY DEF Faultless, Unforced

\* As long as no call fails, over every crash: a record has one conversion at a time, an operation
\* is asked for once, by the one who works for the record, and a conversion that may still be
\* registered is the first of its request (restoreRecord, releaseRecordedUseForEncoder).
THEOREM WorkedForOnce == Spec => [](Faultless => OnceInv)
<1> DEFINE Inv == TypeOK /\ QueueInv /\ (Unforced => OutputInv) /\ (Faultless => OnceInv)
<1>1. Init => Inv
  BY InitTypes, InitQueues, InitOutputs, InitOnce
<1>2. Inv /\ [Next]_vars => Inv'
  BY NextKeeps, NextCounts, NextOutputs, FaultlessIsUnforced, NextOnce
<1>3. Inv => (Faultless => OnceInv)
  OBVIOUS
<1> HIDE DEF Inv
<1> QED BY <1>1, <1>2, <1>3, PTL DEF Spec

\* A conversion that has ended well is kept, over crashes and failing calls: what is deleted as
\* interrupted was never registered, an original goes only after a conversion of it was
\* registered; and without failing calls a request is converted once (restoreRecord, finishEncode).
THEOREM FinishedIsKept == Spec => []FinishedKept
<1>1. TypeOK /\ (Unforced => OutputInv) /\ (Faultless => OnceInv) => FinishedKept
  <2> SUFFICES ASSUME TypeOK, Unforced => OutputInv, Faultless => OnceInv, faults.list = 0
               PROVE  /\ \A f \in DOMAIN files : files[f].registered => files[f].state = "whole"
                      /\ \A s \in Sources \ sources :
                            \E f \in DOMAIN files : files[f].registered /\ SourceOf[files[f].req] = s
                      /\ faults.fault = 0 =>
                            \A f, g \in DOMAIN files :
                                (files[f].registered /\ files[g].registered /\ files[f].req = files[g].req) => f = g
    BY DEF FinishedKept
  <2>1. KeptInv
    BY DEF Unforced, OutputInv
  <2>2. ASSUME faults.fault = 0, NEW f \in DOMAIN files, NEW g \in DOMAIN files,
               files[f].registered, files[g].registered, files[f].req = files[g].req
        PROVE  f = g
    <3>1. FirstInv
      BY <2>2 DEF Faultless, OnceInv
    <3>2. files[f].req \in Requests
      <4>1. files \in Seq(Outputs)
        BY DEF TypeOK
      <4>2. files[f] \in Outputs
        BY <4>1
      <4> QED BY <4>2 DEF Outputs
    <3>3. Registered(files[f].req, f, files) /\ Registered(files[f].req, g, files)
      BY <2>2 DEF Registered
    <3> QED BY <3>1, <3>2, <3>3 DEF FirstInv
  <2> QED BY <2>1, <2>2 DEF KeptInv
<1> QED BY <1>1, TypeCorrect, OutputsAreApart, WorkedForOnce, PTL

\* The store begins to look for a free id at one that may be given: after a restart too, when
\* load finds it behind the last of orderByAcceptance.
LEMMA LoadedIsAnId ==
    ASSUME TypeOK
    PROVE  LoadedNextId \in Ids
<1>1. MaxId \in Nat \ {0} /\ \A id \in Ids : Advance(id) \in Ids
  BY EncodeAssumption DEF Advance, Ids
<1>2. CASE rows = <<>>
  BY <1>1, <1>2 DEF LoadedNextId, Ids
<1>3. CASE rows # <<>>
  <2> DEFINE n == Cardinality(RowIds)
             order == OrderByAcceptance(RowIds)
  <2>1. RowIds \in SUBSET Ids
    BY RowParts DEF RowIds
  <2>2. IsFiniteSet(RowIds) /\ n \in Nat /\ order \in [1 .. n -> RowIds]
    BY <2>1, OrderIsComplete
  <2>3. n # 0
    <3>1. rows \in Seq(Records)
      BY DEF TypeOK
    <3>2. 1 \in DOMAIN rows
      BY <1>3, <3>1
    <3>3. RowIds # {}
      BY <3>2 DEF RowIds
    <3> QED BY <2>2, <3>3, FS_EmptySet
  <2> HIDE DEF n, order
  <2>4. order[n] \in RowIds /\ Len(order) = n
    BY <2>2, <2>3
  <2>5. Last(order) \in Ids
    BY <2>1, <2>4 DEF Last
  <2> QED BY <1>1, <1>3, <2>5 DEF LoadedNextId, order
<1> QED BY <1>2, <1>3

LEMMA NextIdStays ==
    ASSUME TypeOK, nextId \in Ids, [Next]_vars
    PROVE  nextId' \in Ids
<1>1. \A id \in Ids : Advance(id) \in Ids
  BY EncodeAssumption DEF Advance, Ids
<1>2. \A r, id : AddRecord(r, id) /\ id \in Ids => nextId' \in Ids
  BY <1>1 DEF AddRecord
<1>3. CASE UNCHANGED vars
  BY <1>3 DEF vars, store
<1>4. ASSUME NEW r \in Requests, TakeLock(r) \/ Acquire(r) \/ PushEnter(r) \/ EnqueueFromRecording(r) \/ AcquireRefused(r)
      PROVE  nextId' \in Ids
  BY <1>2, <1>4 DEF TakeLock, Acquire, PushEnter, EnqueueFromRecording, AcquireRefused, store
<1>5. CASE HandOver \/ CheckQueue \/ TimerFires \/ SuspendEnds \/ SuspendBegins
  BY <1>5 DEF HandOver, CheckQueue, TimerFires, SuspendEnds, SuspendBegins, store
<1>6. CASE StoreStep
  BY <1>2, <1>6 DEF StoreStep, DeleteRecord, store
<1>7. CASE ServiceStart \/ RetryList \/ RestoreNext \/ RestoreEnd \/ RestoreNextFails
  BY <1>7 DEF ServiceStart, RetryList, RestoreNext, RestoreEnd, RestoreNextFails, store
<1>8. ASSUME NEW i \in DOMAIN encoders,
             \/ StartDone(i) \/ ExitWell(i) \/ ExitBadly(i) \/ Register(i, TRUE) \/ Register(i, FALSE)
             \/ DeleteOriginal(i) \/ Finalize(i) \/ ReleaseEncoder(i)
             \/ StartFails(i) \/ CancelRunning(i) \/ CancelWaiting(i)
      PROVE  nextId' \in Ids
  BY <1>8 DEF StartDone, ExitWell, ExitBadly, Register, DeleteOriginal, Finalize, ReleaseEncoder,
              StartFails, CancelRunning, CancelWaiting, store
<1>9. ASSUME NEW i \in DOMAIN toStore, NEW dropped \in BOOLEAN, CallFails(i, dropped)
      PROVE  nextId' \in Ids
  BY <1>9 DEF CallFails, store
<1>10. CASE WholeCrash \/ \E n \in 0 .. Len(toStore) : ServiceCrash(n)
  BY <1>10, LoadedIsAnId DEF WholeCrash, ServiceCrash, store
<1> QED BY <1>3, <1>4, <1>5, <1>6, <1>7, <1>8, <1>9, <1>10 DEF Next, Progress, Environment

\* insertOnce is given an id between 1 and Number.MAX_SAFE_INTEGER, also after the store has been
\* read again and the order of the acceptances was recovered from the ids alone.
THEOREM NextIdIsAnId == Spec => [](nextId \in Ids)
<1> DEFINE Inv == TypeOK /\ QueueInv /\ nextId \in Ids
<1>1. Init => Inv
  BY EncodeAssumption, InitTypes, InitQueues DEF Init, Ids
<1>2. Inv /\ [Next]_vars => Inv'
  BY NextKeeps, NextIdStays
<1>3. Inv => nextId \in Ids
  OBVIOUS
<1> HIDE DEF Inv
<1> QED BY <1>1, <1>2, <1>3, PTL DEF Spec

-----------------------------------------------------------------------------
(* The gap behind the last id. *)

\* The list ascends.
LEMMA AscendingIsSorted ==
    ASSUME NEW S \in SUBSET Nat, IsFiniteSet(S)
    PROVE  \A i, j \in 1 .. Cardinality(S) : i < j => Ascending(S)[i] < Ascending(S)[j]
<1> DEFINE Upto(x) == {y \in S : y <= x}
           n == Cardinality(S)
           A == Ascending(S)
<1>1. n \in Nat /\ A \in [1 .. n -> S] /\ \A i \in 1 .. n : Cardinality(Upto(A[i])) = i
  BY AscendingList
<1> HIDE DEF n, A
<1> SUFFICES ASSUME NEW i \in 1 .. n, NEW j \in 1 .. n, i < j, ~(A[i] < A[j])
             PROVE  FALSE
  BY DEF n, A
<1>2. A[j] <= A[i] /\ A[i] \in Nat /\ A[j] \in Nat /\ \A z \in S : z \in Nat
  <2>1. A[i] \in S /\ A[j] \in S
    BY <1>1
  <2>2. \A z \in S : z \in Nat
    OBVIOUS
  <2>3. A[i] \in Nat /\ A[j] \in Nat
    BY <2>1, <2>2
  <2>4. A[j] <= A[i]
    BY <2>3
  <2> QED BY <2>2, <2>3, <2>4
<1>3. \A z \in S : z <= A[j] => z <= A[i]
  BY <1>2
<1>4. Upto(A[j]) \subseteq Upto(A[i])
  BY <1>3
<1>5. Cardinality(Upto(A[j])) <= Cardinality(Upto(A[i]))
  BY FS_Subset, <1>4
<1> QED BY <1>1, <1>5

\* If no two neighbours are further apart than c, the last is not far from the first.
LEMMA NeighboursSpan ==
    ASSUME NEW n \in Nat \ {0}, NEW A \in [1 .. n -> Nat], NEW c \in Nat,
           \A i \in 2 .. n : A[i] - A[i - 1] <= c
    PROVE  A[n] <= A[1] + (n - 1) * c
<1> DEFINE far == {i \in 1 .. n : ~(A[i] <= A[1] + (i - 1) * c)}
<1> SUFFICES ASSUME far # {} PROVE FALSE
  <2>1. n \in 1 .. n
    OBVIOUS
  <2> QED BY <2>1
<1>1. far \in SUBSET Nat
  OBVIOUS
<1>2. PICK i \in far : \A k \in far : i <= k
  <2> HIDE DEF far
  <2>1. Min(far) \in far /\ \A k \in far : Min(far) <= k
    BY <1>1, MinIsLeast
  <2> QED BY <2>1
<1>3. i # 1
  BY <1>2
<1>4. i \in 2 .. n /\ i - 1 \in 1 .. n
  BY <1>2, <1>3
<1>5. A[i - 1] <= A[1] + (i - 1 - 1) * c
  BY <1>2, <1>4
<1>6. (i - 1) * c = (i - 1 - 1) * c + c
  BY <1>4
<1>7. A[i] - A[i - 1] <= c /\ A[i] \in Nat /\ A[i - 1] \in Nat /\ A[1] \in Nat /\ (i - 1 - 1) * c \in Int
  BY <1>4
<1>8. A[i] <= A[1] + (i - 1) * c
  <2>1. PICK p \in Int : p = (i - 1 - 1) * c
    BY <1>7
  <2>2. PICK q : q = (i - 1) * c
    OBVIOUS
  <2>3. q = p + c /\ A[i - 1] <= A[1] + p
    BY <1>5, <1>6, <2>1, <2>2
  <2>4. \A x, y, z \in Nat : x - y <= c /\ y <= z + p => x <= z + q
    BY <2>1, <2>3
  <2>5. A[i] <= A[1] + q
    BY <1>7, <2>3, <2>4
  <2> QED BY <2>2, <2>5
<1> QED BY <1>2, <1>8

LEMMA DistanceIs ==
    ASSUME NEW id \in Ids, NEW next \in Ids
    PROVE  (id + MaxId - next) % MaxId = IF id >= next THEN id - next ELSE id + MaxId - next
  BY EncodeAssumption DEF Ids

\* Behind the last id of orderByAcceptance there is room, if the ids are many against the rows:
\* after a restart the next c ids are free.
LEMMA LoadedIsBehind ==
    ASSUME NEW S \in SUBSET Ids, S # {}, NEW c \in Nat, NEW N \in Nat, Cardinality(S) + c <= N, N * N < MaxId
    PROVE  LET next == Advance(Last(OrderByAcceptance(S)))
           IN  next \in Ids /\ \A id \in S : (id + MaxId - next) % MaxId >= c
<1> DEFINE n == Cardinality(S)
           A == Ascending(S)
           gaps == {GapBefore(A, i) : i \in 1 .. Len(A)}
           g == Max(gaps)
           starts == {i \in 1 .. Len(A) : GapBefore(A, i) = g}
           start == Min(starts)
           last == Last(OrderByAcceptance(S))
           next == Advance(last)
<1>1. MaxId \in Nat /\ S \in SUBSET Nat /\ \A x \in S : x \in Nat /\ 1 <= x /\ x <= MaxId
  BY EncodeAssumption DEF Ids
<1>2. IsFiniteSet(S)
  BY OrderIsComplete
<1>3. /\ n \in Nat /\ A \in [1 .. n -> S] /\ \A x \in S : \E i \in 1 .. n : A[i] = x
      /\ \A i, j \in 1 .. n : i < j => A[i] < A[j]
  BY <1>1, <1>2, AscendingList, AscendingIsSorted
<1>4. n # 0 /\ c + 1 <= N /\ n <= N
  BY <1>2, FS_EmptySet, <1>3
<1>5. c < MaxId
  BY <1>4, <1>1
<1> HIDE DEF A, n
<1>6. A \in Seq(S) /\ Len(A) = n
  BY <1>3
<1>7. \A i \in 1 .. n : A[i] \in Nat /\ 1 <= A[i] /\ A[i] <= MaxId
  BY <1>1, <1>3
<1>8. CASE n = 1
  <2>1. OrderByAcceptance(S) = A
    BY <1>6, <1>8 DEF A, OrderByAcceptance
  <2>2. last = A[1] /\ 1 \in 1 .. n
    <3>1. Last(A) = A[1] /\ 1 \in 1 .. n
      BY <1>6, <1>8 DEF Last
    <3> QED BY <2>1, <3>1
  <2>3. last \in Ids /\ \A id \in S : id = last
    BY <1>3, <1>8, <2>2
  <2> HIDE DEF last
  <2>4. next \in Ids
    BY <1>1, <2>3 DEF Advance, Ids
  <2>5. (last + MaxId - next) % MaxId >= c
    BY <2>3, <2>4, DistanceIs, <1>1, <1>5 DEF Advance, Ids
  <2> HIDE DEF next
  <2>6. next \in Ids /\ \A id \in S : (id + MaxId - next) % MaxId >= c
    BY <2>3, <2>4, <2>5
  <2> QED BY <2>6 DEF next, last
<1>9. ASSUME n > 1
      PROVE  next \in Ids /\ \A id \in S : (id + MaxId - next) % MaxId >= c
  <2>1. Last(A) = A[n] /\ 1 \in 1 .. n /\ n \in 1 .. n /\ \A i \in 2 .. n : i \in 1 .. n /\ i - 1 \in 1 .. n
    BY <1>3, <1>6, <1>9 DEF Last
  <2>2. /\ GapBefore(A, 1) = MaxId - A[n] + A[1]
        /\ \A i \in 2 .. n : GapBefore(A, i) = A[i] - A[i - 1]
    BY <1>3, <2>1 DEF GapBefore
  <2>3. \A i \in 1 .. n : GapBefore(A, i) \in Int /\ GapBefore(A, i) <= MaxId + MaxId
    <3> SUFFICES ASSUME NEW i \in 1 .. n
                 PROVE  GapBefore(A, i) \in Int /\ GapBefore(A, i) <= MaxId + MaxId
      OBVIOUS
    <3>1. i = 1 \/ i \in 2 .. n
      BY <1>3
    <3> QED BY <1>1, <1>7, <2>1, <2>2, <3>1
  <2>4. g \in gaps /\ \A x \in gaps : x <= g
    <3>1. gaps \in SUBSET Int /\ gaps # {} /\ \A x \in gaps : x <= MaxId + MaxId
      BY <1>6, <2>1, <2>3
    <3>2. MaxId + MaxId \in Int
      BY <1>1
    <3> HIDE DEF gaps
    <3> QED BY <3>1, <3>2, MaxIsGreatest
  <2>5. \A i \in 1 .. n : GapBefore(A, i) <= g
    BY <1>6, <2>4
  <2>6. start \in 1 .. n /\ GapBefore(A, start) = g
    <3>1. starts \in SUBSET Nat /\ starts # {}
      <4>1. PICK i \in 1 .. Len(A) : GapBefore(A, i) = g
        BY <2>4
      <4>2. i \in starts
        BY <4>1
      <4>3. starts \in SUBSET Nat
        OBVIOUS
      <4> QED BY <4>2, <4>3
    <3>2. start \in starts
      BY <3>1, MinIsLeast
    <3> QED BY <1>6, <3>2
  <2>7. /\ last = IF start = 1 THEN A[n] ELSE A[start - 1]
    <3>1. OrderByAcceptance(S) = SubSeq(A, start, n) \o SubSeq(A, 1, start - 1)
      <4>1. OrderByAcceptance(S) = IF Len(A) <= 1 THEN A ELSE SubSeq(A, start, Len(A)) \o SubSeq(A, 1, start - 1)
        BY DEF OrderByAcceptance, A
      <4> HIDE DEF start
      <4>2. Len(A) = n
        BY <1>6
      <4>3. ~(Len(A) <= 1)
        BY <1>3, <1>9, <4>2
      <4>4. OrderByAcceptance(S) = SubSeq(A, start, Len(A)) \o SubSeq(A, 1, start - 1)
        BY ONLY <4>1, <4>3
      <4> QED BY <4>2, <4>4
    <3>10. start \in Nat /\ 1 <= start /\ start <= n
      BY <1>3, <2>6
    <3> HIDE DEF start
    <3>2. /\ SubSeq(A, start, n) \in Seq(S) /\ Len(SubSeq(A, start, n)) = n - start + 1
          /\ \A i \in 1 .. n - start + 1 : SubSeq(A, start, n)[i] = A[start + i - 1]
      BY <1>3, <1>6, <3>10, SubSeqProperties
    <3>3. /\ SubSeq(A, 1, start - 1) \in Seq(S) /\ Len(SubSeq(A, 1, start - 1)) = start - 1
          /\ \A i \in 1 .. start - 1 : SubSeq(A, 1, start - 1)[i] = A[i]
      BY <1>3, <1>6, <3>10, SubSeqProperties
    <3>4. PICK one \in Seq(S) : one = SubSeq(A, start, n)
      BY <3>2
    <3>5. PICK two \in Seq(S) : two = SubSeq(A, 1, start - 1)
      BY <3>3
    <3>6. /\ Len(one \o two) = n
          /\ (one \o two)[n] = IF n <= Len(one) THEN one[n] ELSE two[n - Len(one)]
      <4>1. Len(one) + Len(two) = n /\ n \in 1 .. Len(one) + Len(two)
        BY <1>3, <2>1, <2>6, <3>2, <3>3, <3>4, <3>5
      <4> QED BY <4>1, ConcatProperties
    <3>7. last = (one \o two)[n]
      BY <3>1, <3>4, <3>5, <3>6 DEF Last
    <3>8. CASE start = 1
      <4>1. n <= Len(one) /\ n \in 1 .. n - start + 1 /\ start + n - 1 = n
        BY <1>3, <2>1, <3>2, <3>4, <3>8
      <4> QED BY <3>2, <3>4, <3>6, <3>7, <3>8, <4>1
    <3>9. CASE start # 1
      <4>1. ~(n <= Len(one)) /\ n - Len(one) = start - 1 /\ start - 1 \in 1 .. start - 1
        BY <1>3, <2>6, <3>2, <3>4, <3>9
      <4> QED BY <3>3, <3>5, <3>6, <3>7, <3>9, <4>1
    <3> QED BY <3>8, <3>9
  <2> HIDE DEF gaps, g, start, last
  <2>8. g \in Int /\ g >= c + 1
    <3>1. g \in Int
      BY <2>3, <2>6
    <3> SUFFICES ASSUME ~(g >= c + 1) PROVE FALSE
      BY <3>1
    <3>2. g <= c
      BY <3>1
    <3>3. \A i \in 2 .. n : A[i] - A[i - 1] <= c
      <4> SUFFICES ASSUME NEW i \in 2 .. n PROVE A[i] - A[i - 1] <= c
        OBVIOUS
      <4>1. i \in 1 .. n /\ i - 1 \in 1 .. n /\ GapBefore(A, i) = A[i] - A[i - 1]
        BY <2>1, <2>2
      <4>2. A[i] \in Nat /\ A[i - 1] \in Nat /\ A[i] - A[i - 1] <= g
        BY <1>7, <2>5, <4>1
      <4> QED BY <3>1, <3>2, <4>2
    <3>4. A[n] <= A[1] + (n - 1) * c
      BY <1>1, <1>3, <1>4, <3>3, NeighboursSpan
    <3>5. MaxId - A[n] + A[1] <= c
      BY <1>1, <1>7, <2>1, <2>2, <2>5, <3>1, <3>2
    <3>6. MaxId <= (n - 1) * c + c
      <4>1. PICK p \in Int : p = (n - 1) * c
        BY <1>3
      <4>2. A[n] \in Nat /\ A[1] \in Nat /\ A[n] <= A[1] + p
        BY <1>7, <2>1, <3>4, <4>1
      <4>3. \A x, y \in Nat : x <= y + p /\ MaxId - x + y <= c => MaxId <= p + c
        BY <1>1, <4>1
      <4>4. MaxId <= p + c
        BY <3>5, <4>2, <4>3
      <4> QED BY <4>1, <4>4
    <3>7. (n - 1) * c + c = n * c
      BY <1>3
    <3>8. n * c <= n * N
      BY <1>3, <1>4
    <3>9. n * N <= N * N
      BY <1>3, <1>4
    <3>10. PICK x \in Int : x = n * c
      BY <1>3
    <3>11. PICK y \in Int : y = n * N
      BY <1>3
    <3>12. PICK z \in Int : z = N * N
      OBVIOUS
    <3>13. MaxId <= x /\ x <= y /\ y <= z /\ z < MaxId
      BY <3>6, <3>7, <3>8, <3>9, <3>10, <3>11, <3>12
    <3> QED BY <1>1, <3>10, <3>11, <3>12, <3>13
  <2>9. last \in S /\ last \in Nat /\ 1 <= last /\ last <= MaxId
    BY <1>1, <1>3, <2>1, <2>6, <2>7
  <2>10. next \in Ids /\ next = IF last = MaxId THEN 1 ELSE last + 1
    BY <1>1, <2>9 DEF Advance, Ids
  <2> HIDE DEF next
  <2>11. ASSUME NEW id \in S
         PROVE  (id + MaxId - next) % MaxId >= c
    <3>1. (id + MaxId - next) % MaxId = IF id >= next THEN id - next ELSE id + MaxId - next
      BY <2>10, DistanceIs
    <3>2. PICK k \in 1 .. n : A[k] = id
      BY <1>3
    <3>3. id \in Nat /\ 1 <= id /\ id <= MaxId
      BY <1>1
    <3>4. A[1] <= id /\ A[1] \in Nat /\ 1 <= A[1]
      BY <1>3, <2>1, <3>2, <1>7, <3>3
    <3>5. CASE start = 1
      <4>1. last = A[n] /\ g = MaxId - A[n] + A[1]
        BY <2>2, <2>6, <2>7, <3>5
      <4>2. id <= last
        <5>1. k = n \/ k < n
          BY <1>3
        <5>2. id = A[n] \/ id < A[n]
          BY <1>3, <2>1, <3>2, <5>1
        <5> QED BY <2>9, <3>3, <4>1, <5>2
      <4>3. g = MaxId - last + A[1]
        BY <4>1
      <4>4. CASE last = MaxId
        BY <1>1, <2>8, <2>10, <3>1, <3>3, <3>4, <4>3, <4>4
      <4>5. CASE last # MaxId
        BY <1>1, <2>8, <2>9, <2>10, <3>1, <3>3, <3>4, <4>2, <4>3, <4>5
      <4> QED BY <4>4, <4>5
    <3>6. CASE start # 1
      <4>1. start \in 2 .. n /\ start - 1 \in 1 .. n /\ last = A[start - 1] /\ g = A[start] - last
        BY <1>3, <2>2, <2>6, <2>7, <3>6
      <4>2. A[start] \in Nat /\ A[start] <= MaxId
        BY <1>7, <2>6
      <4>3. next = last + 1
        BY <1>1, <2>8, <2>9, <2>10, <4>1, <4>2
      <4>4. A[start] <= id \/ id <= last
        <5>1. k = start \/ start < k \/ k = start - 1 \/ k < start - 1
          BY <1>3, <2>6
        <5>2. A[start] = id \/ A[start] < id \/ id = last \/ id < last
          BY <1>3, <2>6, <3>2, <4>1, <5>1
        <5> QED BY <2>9, <3>3, <4>2, <5>2
      <4>5. A[1] <= last
        BY <1>3, <4>1, <2>1, <2>9, <3>4
      <4>6. MaxId - A[start] >= 0 /\ MaxId - last >= g
        BY <1>1, <2>8, <2>9, <4>1, <4>2
      <4> QED BY <1>1, <2>8, <2>9, <3>1, <3>3, <3>4, <4>1, <4>2, <4>3, <4>4, <4>5, <4>6
    <3> QED BY <3>5, <3>6
  <2> QED BY <2>10, <2>11
<1>10. n = 1 \/ n > 1
  BY <1>3, <1>4
<1> QED BY <1>8, <1>9, <1>10

-----------------------------------------------------------------------------
(* The ids over a step that adds no record. *)

LEMMA OperationsAreOver ==
    ASSUME TypeOK, RecordInv, JobsKept, OperationsEnd
    PROVE  \A i \in DOMAIN toStore' : Ends(toStore'[i])
<1> SUFFICES ASSUME NEW i \in DOMAIN toStore', OldOperation(toStore'[i])
             PROVE  Ends(toStore'[i])
  BY DEF OperationsEnd
<1>1. PICK j \in DOMAIN toStore : /\ toStore[j].op = toStore'[i].op /\ toStore[j].req = toStore'[i].req
                                  /\ toStore[j].id = toStore'[i].id
  BY DEF OldOperation
<1>2. toStore[j].req \in Requests
  BY OperationParts
<1>3. toStore'[i].op = "remove" => Tied(toStore'[i].req, toStore'[i].id)
  BY <1>1 DEF Tied
<1>4. toStore'[i].op \in {"remove", "abandon"} => job'[toStore'[i].req] = "over"
  BY <1>1, <1>2 DEF RecordInv, JobsKept
<1> QED BY <1>3, <1>4 DEF Ends

LEMMA TiesBefore ==
    ASSUME NothingNew, tokens' \subseteq tokens, \A i \in DOMAIN toStore' : Ends(toStore'[i]),
           NEW r, NEW a, Tied(r, a)'
    PROVE  Tied(r, a)
  BY NamesBefore DEF NothingNew, Tied, Ends

LEMMA ComingBefore ==
    ASSUME NothingNew
    PROVE  Coming' \subseteq Coming
  BY DEF Coming, NothingNew, JobsKept

LEMMA ComingCount ==
    ASSUME EnoughIds, NEW S, S \subseteq Coming
    PROVE  IsFiniteSet(S) /\ Cardinality(S) \in Nat /\ Cardinality(S) <= Cardinality(Coming)
  BY FS_Subset, FS_CardinalityType DEF Coming, EnoughIds

LEMMA DistanceType ==
    ASSUME NEW id \in Ids, nextId \in Ids
    PROVE  /\ Distance(id) \in Nat
           /\ Distance(id) = IF id >= nextId THEN id - nextId ELSE id + MaxId - nextId
  BY EncodeAssumption, DistanceIs DEF Ids, Distance

LEMMA IdsHold ==
    ASSUME EnoughIds, TypeOK, nextId \in Ids, IdInv, NothingNew, UNCHANGED nextId, tokens' \subseteq tokens,
           \A id \in listed' : Used(id), OperationsEnd
    PROVE  TieInv' /\ AheadInv'
<1>1. \A i \in DOMAIN toStore' : Ends(toStore'[i])
  BY OperationsAreOver DEF IdInv, NothingNew
<1>2. \A r, a : Tied(r, a)' => Tied(r, a)
  BY <1>1, TiesBefore
<1>3. Coming' \subseteq Coming
  BY ComingBefore
<1>4. TieInv'
  BY <1>2, <1>3 DEF IdInv, TieInv
<1>5. AheadInv'
  BY <1>2, <1>3, ComingCount, DistanceType DEF AheadInv, Used, IdInv, Distance
<1> QED BY <1>4, <1>5

\* The records over a step that leaves them alone.
LEMMA RecordsHold ==
    ASSUME TypeOK, RecordInv, NothingNew, UNCHANGED rows, NoneOpened, OperationsEnd
    PROVE  RecordInv'
  BY OperationsAreOver DEF NothingNew, Ends, RecordInv, NoneOpened

LEMMA StepHoldsIds ==
    ASSUME EnoughIds, TypeOK, nextId \in Ids, IdInv, NothingNew, UNCHANGED store, listed' \subseteq listed,
           NoneOpened, OperationsEnd
    PROVE  IdInv'
  BY IdsHold, RecordsHold DEF Used, store, IdInv

LEMMA QuietIds ==
    ASSUME EnoughIds, TypeOK, nextId \in Ids, IdInv, NothingNew, UNCHANGED <<store, toStore, listed>>, NoneOpened
    PROVE  IdInv'
  BY StepHoldsIds DEF OperationsEnd, OldOperation

LEMMA SentIds ==
    ASSUME EnoughIds, TypeOK, nextId \in Ids, IdInv, NothingNew, UNCHANGED <<store, listed>>, NoneOpened,
           NEW op \in Operations, Send(op), Ends(op)
    PROVE  IdInv'
  BY SendTypes, StepHoldsIds DEF OperationsEnd, OldOperation

LEMMA RemovalSentIds ==
    ASSUME EnoughIds, TypeOK, nextId \in Ids, IdInv, NothingNew, UNCHANGED <<store, listed>>,
           NEW r \in Requests, NEW id \in Nat, NEW by \in {"encoder", "restore", "admit"},
           by = "admit" => r \in FromRecording,
           Send(Op("remove", id, r, NoPath, by)), Named(r, id), job' = [job EXCEPT ![r] = "over"]
    PROVE  IdInv'
<1>1. PICK op : op = Op("remove", id, r, NoPath, by)
  OBVIOUS
<1>2. op \in Operations /\ op.op = "remove" /\ op.req = r /\ op.id = id
  BY <1>1 DEF Op, Operations, NoPath
<1>3. job'[r] = "over" /\ NoneOpened
  BY DEF TypeOK, NoneOpened
<1>4. Ends(op)
  BY <1>2, <1>3 DEF Ends, Tied
<1> QED BY <1>1, <1>2, <1>3, <1>4, SentIds

\* Steps of the encoders, of the clock and of the admission.
LEMMA EncoderStepIds ==
    ASSUME EnoughIds, TypeOK, QueueInv, nextId \in Ids, IdInv, NEW i \in DOMAIN encoders,
           \/ StartDone(i) \/ ExitWell(i) \/ ExitBadly(i) \/ Register(i, TRUE) \/ Register(i, FALSE)
           \/ DeleteOriginal(i) \/ Finalize(i) \/ StartFails(i) \/ CancelRunning(i)
    PROVE  IdInv'
<1>1. NothingNew
  BY StartDoneKeeps, ExitWellKeeps, ExitBadlyKeeps, RegisterKeeps, DeleteOriginalKeeps, FinalizeKeeps,
     StartFailsKeeps DEF CancelRunning
<1>2. UNCHANGED <<store, toStore, listed, job>>
  BY DEF StartDone, ExitWell, ExitBadly, Register, DeleteOriginal, Finalize, StartFails, CancelRunning, restoration
<1>3. NoneOpened
  BY <1>2 DEF NoneOpened
<1> QED BY <1>1, <1>2, <1>3, QuietIds

LEMMA EncoderEndIds ==
    ASSUME EnoughIds, TypeOK, QueueInv, nextId \in Ids, IdInv, NEW i \in DOMAIN encoders,
           ReleaseEncoder(i) \/ CancelWaiting(i)
    PROVE  IdInv'
  BY ReleaseEncoderKeeps, CancelWaitingKeeps, EncoderParts, OwnNames, RemovalSentIds DEF ReleaseEncoder,
     CancelWaiting, restoration

LEMMA ClockIds ==
    ASSUME EnoughIds, TypeOK, QueueInv, nextId \in Ids, IdInv,
           UNCHANGED vars \/ TimerFires \/ SuspendBegins \/ SuspendEnds \/ RestoreEnd
    PROVE  IdInv'
<1>1. UNCHANGED <<rows, toService, todo, admit, encoders, toStore, job, store, listed>>
  BY DEF vars, TimerFires, SuspendBegins, SuspendEnds, RestoreEnd, store, restoration
<1>2. TypeOK'
  <2>1. CASE UNCHANGED vars
    BY <2>1 DEF TypeOK, vars, store, restoration, wake, disk
  <2> QED BY <2>1, TimerFiresKeeps, SuspendBeginsKeeps, SuspendEndsKeeps, RestoreEndKeeps
<1>3. NothingNew /\ NoneOpened
  BY <1>1, <1>2, QuietKeeps DEF NoneOpened
<1> QED BY <1>1, <1>3, QuietIds

LEMMA AdmissionIds ==
    ASSUME EnoughIds, TypeOK, QueueInv, nextId \in Ids, IdInv, NEW r \in Requests,
           TakeLock(r) \/ PushEnter(r) \/ Acquire(r) \/ AcquireRefused(r)
    PROVE  IdInv'
<1>1. NothingNew
  BY TakeLockKeeps, PushEnterKeeps, AcquireKeeps, AcquireRefusedKeeps
<1>2. UNCHANGED <<store, listed>>
  BY DEF TakeLock, PushEnter, Acquire, AcquireRefused, restoration
<1>3. NoneOpened
  <2>1. job' = job \/ job' = [job EXCEPT ![r] = "over"]
    BY DEF TakeLock, PushEnter, Acquire, AcquireRefused
  <2> QED BY <2>1 DEF NoneOpened, TypeOK
<1>4. CASE UNCHANGED toStore
  BY <1>1, <1>2, <1>3, <1>4, QuietIds
<1>5. CASE Send(Op("add", 0, r, NoPath, "admit"))
  BY <1>1, <1>2, <1>3, <1>5, SentIds DEF Op, Operations, NoPath, Ends
<1>6. CASE AcquireRefused(r) /\ r \in FromRecording
  BY <1>6, <1>1, <1>2, RemovalSentIds DEF AcquireRefused, Named, TypeOK, Admissions
<1> QED BY <1>4, <1>5, <1>6 DEF TakeLock, PushEnter, Acquire, AcquireRefused

LEMMA HandOverIds ==
    ASSUME EnoughIds, TypeOK, QueueInv, nextId \in Ids, IdInv, HandOver
    PROVE  IdInv'
  BY HandOverKeeps, MessageTypes, EncodeAssumption, QuietIds, RemovalSentIds DEF HandOver, restoration, Ids,
     NoneOpened

LEMMA CheckQueueIds ==
    ASSUME EnoughIds, TypeOK, QueueInv, nextId \in Ids, IdInv, CheckQueue
    PROVE  IdInv'
<1>1. NothingNew
  BY CheckQueueKeeps
<1>2. UNCHANGED <<store, listed, job>> /\ NoneOpened
  BY DEF CheckQueue, restoration, NoneOpened
<1>3. CASE UNCHANGED toStore
  BY <1>1, <1>2, <1>3, QuietIds
<1>4. CASE Waiting # {} /\ Send(Op("output", encoders[Min(Waiting)].id, encoders[Min(Waiting)].req, Len(files) + 1, "encoder"))
  <2>1. Min(Waiting) \in DOMAIN encoders
    <3>1. Waiting \in SUBSET Nat
      BY LenProperties DEF Waiting, TypeOK
    <3>2. Min(Waiting) \in Waiting
      BY <1>4, <3>1, MinIsLeast
    <3> QED BY <3>2 DEF Waiting
  <2>2. PICK i \in DOMAIN encoders : i = Min(Waiting)
    BY <2>1
  <2>3. PICK op : op = Op("output", encoders[i].id, encoders[i].req, Len(files) + 1, "encoder")
    OBVIOUS
  <2>4. encoders[i].id \in Nat /\ encoders[i].req \in Requests /\ Len(files) + 1 \in Nat
    BY EncoderParts, LenProperties DEF TypeOK
  <2>5. op \in Operations /\ Ends(op)
    BY <2>3, <2>4 DEF Op, Operations, Ends
  <2> QED BY <1>1, <1>2, <1>4, <2>2, <2>3, <2>5, SentIds
<1> QED BY <1>3, <1>4 DEF CheckQueue

LEMMA RestorationIds ==
    ASSUME EnoughIds, TypeOK, QueueInv, nextId \in Ids, IdInv, ServiceStart \/ RetryList
    PROVE  IdInv'
<1>1. NothingNew
  BY ServiceStartKeeps, RetryListKeeps
<1>2. UNCHANGED <<store, listed, job>> /\ NoneOpened /\ StartRestoration
  BY DEF ServiceStart, RetryList, StartRestoration, NoneOpened
<1>3. PICK op : op = Op("list", 0, CHOOSE r \in Requests : TRUE, NoPath, "restore")
  OBVIOUS
<1>4. op \in Operations /\ Ends(op) /\ Send(op)
  BY EncodeAssumption, <1>2, <1>3 DEF StartRestoration, Op, Operations, NoPath, Ends
<1> QED BY <1>1, <1>2, <1>4, SentIds

LEMMA RestoreNextIds ==
    ASSUME EnoughIds, TypeOK, QueueInv, nextId \in Ids, IdInv, RestoreNext \/ RestoreNextFails
    PROVE  IdInv'
  BY RestoreNextKeeps, RestoreNextFailsKeeps, RecordTypes, QuietIds, RemovalSentIds DEF RestoreNext, RestoreNextFails,
     RestoreReady, NoneOpened

LEMMA CallFailsIds ==
    ASSUME EnoughIds, TypeOK, QueueInv, nextId \in Ids, IdInv,
           NEW i \in DOMAIN toStore, NEW dropped \in BOOLEAN, CallFails(i, dropped)
    PROVE  IdInv'
<1>1. NothingNew
  BY CallFailsKeeps
<1>2. PICK rest : rest = Rest(i, dropped)
  OBVIOUS
<1>3. PICK d \in {0, 1} : d = IF dropped THEN 1 ELSE 0
  OBVIOUS
<1>4. PICK op : op = toStore[i]
  OBVIOUS
<1>5. op \in Operations /\ op.req \in Requests
  BY <1>4, OperationParts
<1>6. rest \in Seq(Operations) /\ \A k \in DOMAIN rest : OldOperation(rest[k])
  <2>1. /\ rest \in Seq(Operations)
        /\ \A k \in DOMAIN rest : /\ k + d \in DOMAIN toStore /\ rest[k].op = toStore[k + d].op
                                  /\ rest[k].req = toStore[k + d].req /\ rest[k].id = toStore[k + d].id
    BY <1>2, <1>3, RestTypes DEF CallFails
  <2> QED BY <2>1 DEF OldOperation
<1>7. UNCHANGED store
  BY DEF CallFails
<1>8. CASE AddFailed(op.req, rest)
  <2>1. PICK o : o = Op("abandon", 0, op.req, NoPath, "nobody")
    OBVIOUS
  <2>2. /\ toStore' = Append(rest, o) /\ job' = [job EXCEPT ![op.req] = "over"] /\ UNCHANGED listed
    BY <1>8, <2>1 DEF AddFailed, restoration
  <2>3. o \in Operations /\ o.op = "abandon" /\ o.req = op.req
    BY <1>5, <2>1 DEF Op, Operations, NoPath
  <2>4. \A k \in DOMAIN toStore' : (k \in DOMAIN rest /\ toStore'[k] = rest[k]) \/ toStore'[k] = o
    BY <1>6, <2>2, <2>3, AppendProperties, LenProperties
  <2>5. job'[op.req] = "over" /\ NoneOpened
    BY <1>5, <2>2 DEF TypeOK, NoneOpened
  <2>6. Ends(o)
    BY <2>3, <2>5 DEF Ends
  <2>7. OperationsEnd
    BY <1>6, <2>4, <2>6 DEF OperationsEnd
  <2> QED BY <1>1, <1>7, <2>2, <2>5, <2>7, StepHoldsIds
<1>9. ASSUME toStore' = rest, UNCHANGED <<listed, job>>
      PROVE  IdInv'
  BY <1>6, <1>9, <1>1, <1>7, StepHoldsIds DEF OperationsEnd, NoneOpened
<1>10. CASE ListFailed /\ toStore' = rest
  BY <1>9, <1>10 DEF ListFailed
<1>11. CASE Returned(op) /\ toStore' = rest
  BY <1>5, <1>9, <1>11, ReturnedKeeps
<1> QED BY <1>2, <1>4, <1>8, <1>10, <1>11 DEF CallFails, Rest

LEMMA ServiceCrashIds ==
    ASSUME EnoughIds, TypeOK, QueueInv, nextId \in Ids, IdInv, NEW n \in 0 .. Len(toStore), ServiceCrash(n)
    PROVE  IdInv'
<1>1. NothingNew /\ UNCHANGED store
  BY ServiceCrashKeeps DEF ServiceCrash
<1>2. listed' \subseteq listed /\ NoneOpened
  BY DEF ServiceCrash, ServiceGone, NoneOpened
<1>3. OperationsEnd
  <2>1. \A i \in 1 .. n : i \in DOMAIN toStore
    BY LenProperties DEF TypeOK
  <2>2. \A i \in DOMAIN toStore : /\ [toStore[i] EXCEPT !.by = "nobody"].op = toStore[i].op
                                  /\ [toStore[i] EXCEPT !.by = "nobody"].req = toStore[i].req
                                  /\ [toStore[i] EXCEPT !.by = "nobody"].id = toStore[i].id
    BY OperationParts DEF Operations
  <2>3. toStore' = [i \in 1 .. n |-> [toStore[i] EXCEPT !.by = "nobody"]]
    BY DEF ServiceCrash
  <2>4. \A i \in DOMAIN toStore' : i \in DOMAIN toStore /\ toStore'[i] = [toStore[i] EXCEPT !.by = "nobody"]
    BY <2>1, <2>3
  <2> QED BY <2>2, <2>4 DEF OperationsEnd, OldOperation
<1> QED BY <1>1, <1>2, <1>3, StepHoldsIds

\* The store that is read again goes on behind the ids of its rows, with room for all that are to come.
LEMMA WholeCrashIds ==
    ASSUME EnoughIds, TypeOK, QueueInv, nextId \in Ids, IdInv, WholeCrash
    PROVE  IdInv'
<1>1. NothingNew /\ NoneOpened
  BY WholeCrashKeeps DEF WholeCrash, ServiceGone, NoneOpened
<1>2. /\ toStore' = <<>> /\ tokens' = {} /\ listed' = {} /\ todo' = <<>> /\ encoders' = <<>> /\ toService' = <<>>
      /\ nextId' = LoadedNextId /\ UNCHANGED rows /\ \A r \in FromRecording : admit'[r].step = "none"
  BY EncodeAssumption DEF WholeCrash, ServiceGone, Idle
<1>3. DOMAIN toStore' = {}
  BY <1>2
<1>4. OperationsEnd /\ \A i \in DOMAIN toStore' : Ends(toStore'[i])
  BY <1>3 DEF OperationsEnd
<1>5. RecordInv'
  BY <1>1, <1>2, <1>4, RecordsHold DEF IdInv
<1>6. \A r, a : Tied(r, a)' => Tied(r, a)
  BY <1>1, <1>2, <1>4, TiesBefore
<1>7. Coming' \subseteq Coming
  BY <1>1, ComingBefore
<1>8. TieInv'
  BY <1>6, <1>7 DEF IdInv, TieInv
<1>9. ASSUME NEW id, Used(id)' PROVE id \in RowIds
  BY <1>2, <1>3, <1>9 DEF Used, Tied, Named, RowIds
<1>10. ASSUME RowIds # {}
       PROVE  AheadInv'
  <2> DEFINE c == Cardinality(Coming')
             N == Cardinality(Requests)
             owner == [id \in RowIds |-> CHOOSE r \in Requests : Tied(r, id)]
  <2>1. RowIds \in SUBSET Ids /\ \A id \in RowIds : id \in Nat
    BY RowParts DEF RowIds
  <2>2. IsFiniteSet(Coming') /\ c \in Nat /\ N \in Nat
    BY <1>7, ComingCount, FS_CardinalityType DEF EnoughIds
  <2>3. \A id \in RowIds : owner[id] \in Requests /\ Tied(owner[id], id)
    <3> SUFFICES ASSUME NEW id \in RowIds PROVE owner[id] \in Requests /\ Tied(owner[id], id)
      OBVIOUS
    <3>1. PICK k \in DOMAIN rows : rows[k].id = id
      BY DEF RowIds
    <3>2. rows[k].req \in Requests /\ Tied(rows[k].req, id)
      BY <3>1, RowParts DEF Tied, Named
    <3> QED BY <3>2
  <2>4. owner \in Injection(RowIds, Requests \ Coming')
    BY <1>7, <2>1, <2>3 DEF IdInv, TieInv, Injection, IsInjective
  <2>5. Cardinality(RowIds) \in Nat /\ Cardinality(RowIds) + c <= N
    <3>1. Requests \cap Coming' = Coming'
      BY DEF Coming
    <3>2. IsFiniteSet(Requests \ Coming') /\ Cardinality(Requests \ Coming') = N - c
      BY <3>1, FS_Difference DEF EnoughIds
    <3> HIDE DEF c, N, owner
    <3>3. IsFiniteSet(RowIds) /\ Cardinality(RowIds) <= Cardinality(Requests \ Coming')
      BY <2>4, <3>2, FS_Injection
    <3>4. Cardinality(RowIds) \in Nat
      BY <3>3, FS_CardinalityType
    <3> QED BY <2>2, <3>2, <3>3, <3>4
  <2> DEFINE next == Advance(Last(OrderByAcceptance(RowIds)))
  <2>6. next \in Ids /\ \A id \in RowIds : (id + MaxId - next) % MaxId >= c
    BY <1>10, <2>1, <2>2, <2>5, LoadedIsBehind DEF EnoughIds
  <2>7. nextId' = next
    BY <1>10, <1>2 DEF RowIds, LoadedNextId
  <2> HIDE DEF next, c
  <2>8. \A id \in Ids : Used(id)' => Distance(id)' >= c
    BY <1>9, <2>6, <2>7 DEF Distance
  <2> QED BY <2>8 DEF AheadInv, c
<1>11. ASSUME RowIds = {}
       PROVE  AheadInv'
  BY <1>9, <1>11 DEF AheadInv
<1> QED BY <1>5, <1>8, <1>10, <1>11 DEF IdInv

\* A record is added under the next id, which nobody knows.
LEMMA NextIsUnused ==
    ASSUME EnoughIds, TypeOK, nextId \in Ids, IdInv, NEW r \in Coming, NEW id \in Ids, AddRecord(r, id)
    PROVE  id = nextId /\ ~Used(id) /\ id \notin RowIds
<1>1. Cardinality(Coming) \in Nat /\ Cardinality(Coming) # 0
  BY ComingCount, FS_EmptySet
<1>2. Distance(nextId) = 0
  BY DistanceType, EncodeAssumption DEF Ids
<1>3. ~Used(nextId)
  BY <1>1, <1>2 DEF IdInv, AheadInv
<1>4. nextId \notin RowIds
  BY <1>3, RowParts DEF Used, Tied, Named, RowIds
<1>5. id = nextId
  BY <1>4, DistanceType, EncodeAssumption, <1>2 DEF AddRecord, IsNextFree, Ids
<1> QED BY <1>3, <1>4, <1>5

LEMMA AddedIds ==
    ASSUME EnoughIds, TypeOK, nextId \in Ids, IdInv, NEW r \in Coming, NEW id \in Ids,
           AddRecord(r, id), OneNew(r, id), tokens' \subseteq tokens \cup {[req |-> r, id |-> id]}, listed' \subseteq listed,
           \A s \in Requests : s # r /\ job'[s] = "open" => job[s] = "open", OperationsEnd
    PROVE  IdInv'
<1>1. id = nextId /\ ~Used(id) /\ id \notin RowIds
  BY NextIsUnused
<1>2. \A i \in DOMAIN toStore' : Ends(toStore'[i])
  BY OperationsAreOver DEF IdInv, OneNew
<1>3. r \in Requests /\ id \in Nat
  BY EncodeAssumption DEF Coming, Ids
<1>4. ASSUME NEW s, NEW a, Tied(s, a)'
      PROVE  Tied(s, a) \/ (s = r /\ a = id)
  BY AddedName, <1>2, <1>4 DEF OneNew, Tied, Ends
<1>5. Coming' \subseteq Coming \ {r}
  BY DEF Coming, OneNew, JobsKept
<1>6. \A a \in Nat : ~Tied(r, a)
  BY <1>3 DEF IdInv, TieInv
<1>7. \A s \in Requests : ~Tied(s, id)
  BY <1>1 DEF Used
<1>8. TieInv'
  BY <1>4, <1>7, <1>6, <1>5 DEF IdInv, TieInv
<1>9. AheadInv'
  <2> SUFFICES ASSUME NEW x \in Ids, Used(x)'
               PROVE  Distance(x)' >= Cardinality(Coming')
    BY DEF AheadInv
  <2>1. Used(x) \/ x = id
    BY <1>4 DEF Used
  <2>2. /\ Cardinality(Coming') \in Nat /\ Cardinality(Coming) \in Nat /\ Cardinality(Coming) # 0
        /\ Cardinality(Coming') <= Cardinality(Coming) - 1
    <3>1. IsFiniteSet(Coming) /\ Cardinality(Coming) \in Nat
      BY ComingCount
    <3>2. IsFiniteSet(Coming \ {r}) /\ Cardinality(Coming \ {r}) = Cardinality(Coming) - 1
      BY <3>1, FS_RemoveElement
    <3>3. IsFiniteSet(Coming') /\ Cardinality(Coming') <= Cardinality(Coming \ {r}) /\ Cardinality(Coming') \in Nat
      BY <1>5, <3>2, FS_Subset, FS_CardinalityType
    <3>4. Cardinality(Coming) # 0
      BY <3>1, FS_EmptySet
    <3> QED BY <3>1, <3>2, <3>3, <3>4
  <2>3. Cardinality(Coming) <= MaxId - 1
    BY FS_Subset, FS_CardinalityType, EncodeAssumption, <2>2 DEF EnoughIds, Coming
  <2>4. MaxId \in Nat \ {0} /\ x \in 1 .. MaxId /\ nextId \in 1 .. MaxId
    BY EncodeAssumption DEF Ids
  <2>5. nextId' = IF nextId = MaxId THEN 1 ELSE nextId + 1
    BY <1>1 DEF AddRecord, Advance
  <2>6. nextId' \in Ids
    BY <2>4, <2>5 DEF Ids
  <2>7. Distance(x)' = IF x >= nextId' THEN x - nextId' ELSE x + MaxId - nextId'
    BY <2>6, DistanceIs DEF Distance
  <2>8. Distance(x) \in Nat /\ Distance(x) = IF x >= nextId THEN x - nextId ELSE x + MaxId - nextId
    BY DistanceType
  <2>9. CASE x = nextId
    BY <2>2, <2>3, <2>4, <2>5, <2>7, <2>9
  <2>10. CASE x # nextId
    <3>1. Distance(x) >= Cardinality(Coming)
      BY <1>1, <2>1, <2>10 DEF IdInv, AheadInv
    <3> QED BY <2>2, <2>4, <2>5, <2>7, <2>8, <2>10, <3>1
  <2> QED BY <2>9, <2>10
<1>10. RecordInv'
  <2>1. /\ \A k \in DOMAIN rows' : (k \in DOMAIN rows /\ rows'[k] = rows[k]) \/ (k = Len(rows) + 1 /\ rows'[k].id = id)
        /\ \A k \in DOMAIN rows : k \in DOMAIN rows' /\ rows'[k] = rows[k]
        /\ Len(rows) + 1 \in DOMAIN rows' /\ rows'[Len(rows) + 1].req = r
    <3>1. PICK record : record = [id |-> id, req |-> r, out |-> NoPath]
      OBVIOUS
    <3>2. rows' = Append(rows, record) /\ record.id = id /\ record.req = r /\ record \in Records
      BY <1>3, <3>1 DEF AddRecord, Records, NoPath
    <3>3. rows \in Seq(Records) /\ Len(rows) \in Nat /\ DOMAIN rows = 1 .. Len(rows)
      BY LenProperties DEF TypeOK
    <3>4. /\ rows' \in Seq(Records) /\ Len(rows') = Len(rows) + 1
          /\ \A k \in 1 .. Len(rows) : rows'[k] = rows[k]
          /\ rows'[Len(rows) + 1] = record
      BY <3>2, <3>3, AppendProperties
    <3>5. DOMAIN rows' = 1 .. Len(rows) + 1
      BY <3>4, LenProperties
    <3> QED BY <3>2, <3>3, <3>4, <3>5
  <2>2. \A k \in DOMAIN rows : rows[k].id # id
    BY <1>1 DEF RowIds
  <2>3. \A k, l \in DOMAIN rows' : rows'[k].id = rows'[l].id => k = l
    BY <2>1, <2>2 DEF IdInv, RecordInv
  <2>4. \A s \in Requests : job'[s] = "open" => \E k \in DOMAIN rows' : rows'[k].req = s
    BY <2>1 DEF IdInv, RecordInv
  <2>5. (\A i \in DOMAIN toStore : toStore[i].op \in {"remove", "abandon"} => job[toStore[i].req] = "over")'
    BY <1>2 DEF Ends
  <2> QED BY <2>3, <2>4, <2>5 DEF RecordInv
<1> QED BY <1>8, <1>9, <1>10 DEF IdInv

LEMMA EnqueueFromRecordingIds ==
    ASSUME EnoughIds, TypeOK, QueueInv, nextId \in Ids, IdInv, NEW r \in Requests, EnqueueFromRecording(r)
    PROVE  IdInv'
<1>1. PICK id \in Ids : AddRecord(r, id) /\ OneNew(r, id)
  BY EnqueueFromRecordingKeeps
<1>2. UNCHANGED <<tokens, listed, toStore>> /\ r \in Coming
  BY DEF EnqueueFromRecording, restoration, Coming
<1>3. \A s \in Requests : s # r /\ job'[s] = "open" => job[s] = "open"
  BY DEF EnqueueFromRecording, TypeOK
<1>4. OperationsEnd
  BY <1>2 DEF OperationsEnd, OldOperation
<1> QED BY <1>1, <1>2, <1>3, <1>4, AddedIds

\* A record of a request that is over is deleted.
LEMMA DeletedRecords ==
    ASSUME TypeOK, RecordInv, NothingNew, NoneOpened, OperationsEnd, NEW id, DeleteRecord(id),
           \A k \in DOMAIN rows : rows[k].id = id => job[rows[k].req] = "over"
    PROVE  RecordInv'
  BY RowGoes, OperationsAreOver DEF RecordInv, NoneOpened, NothingNew, Ends

LEMMA StoreStepIds ==
    ASSUME EnoughIds, TypeOK, QueueInv, nextId \in Ids, IdInv, StoreStep
    PROVE  IdInv'
<1>1. PICK op : op = Head(toStore)
  OBVIOUS
<1>2. /\ toStore # <<>> /\ toStore' = Tail(toStore) /\ UNCHANGED <<toService, up, disk, faults>>
  BY DEF StoreStep
<1>3. /\ 1 \in DOMAIN toStore /\ op = toStore[1] /\ op \in Operations /\ op.req \in Requests /\ op.id \in Nat
      /\ \A k \in DOMAIN toStore' : k + 1 \in DOMAIN toStore /\ toStore'[k] = toStore[k + 1]
  BY <1>1, <1>2, OldestOp, OperationParts
<1>4. OperationsEnd
  BY <1>3 DEF OperationsEnd, OldOperation
<1>5. CASE op.op = "add"
  <2>1. PICK id \in Ids : /\ AddRecord(op.req, id)
                          /\ tokens' = tokens \cup {[req |-> op.req, id |-> id]}
                          /\ IF op.by = "admit" THEN AddAnswered(op.req, id) ELSE NobodyWaits
    BY <1>1, <1>5 DEF StoreStep
  <2>2. OneNew(op.req, id)
    BY <1>1, <1>2, <1>5, <2>1, RecordStored
  <2>3. op.req \in Coming
    BY <1>3, <1>5 DEF Coming
  <2>4. UNCHANGED listed /\ \A s \in Requests : s # op.req /\ job'[s] = "open" => job[s] = "open"
    BY <2>1 DEF AddAnswered, NobodyWaits, restoration, TypeOK
  <2> QED BY <1>4, <2>1, <2>2, <2>3, <2>4, AddedIds
<1>6. op.op # "add" => NothingNew
  BY <1>1, StoreStepKeeps
<1>7. ASSUME op.op # "add", UNCHANGED <<nextId, job>>, tokens' \subseteq tokens, listed' \subseteq listed \cup RowIds
      PROVE  TieInv' /\ AheadInv'
  BY RowParts, <1>7, <1>4, <1>6, IdsHold DEF Used, Tied, Named, RowIds
<1>8. UNCHANGED job => NoneOpened
  BY DEF NoneOpened
<1>9. CASE op.op = "abandon"
  <2>1. NobodyWaits
    BY <1>1, <1>9 DEF StoreStep
  <2>2. UNCHANGED <<job, listed>>
    BY <2>1 DEF NobodyWaits, restoration
  <2>3. CASE UNCHANGED store
    <3>1. UNCHANGED <<nextId, tokens, rows>>
      BY <2>3 DEF store
    <3> QED BY <1>4, <1>6, <1>7, <1>8, <1>9, <2>2, <3>1, RecordsHold DEF IdInv
  <2>4. ASSUME NEW t \in tokens, t.req = op.req, DeleteRecord(t.id)
        PROVE  IdInv'
    <3>1. UNCHANGED nextId /\ tokens' \subseteq tokens
      BY <2>4 DEF DeleteRecord
    <3>2. ASSUME NEW k \in DOMAIN rows, rows[k].id = t.id PROVE job[rows[k].req] = "over"
      BY <3>2, RowParts, <2>4, <1>3, <1>9 DEF Tied, Named, IdInv, TieInv, RecordInv
    <3> QED BY <1>4, <1>6, <1>7, <1>8, <1>9, <2>2, <2>4, <3>1, <3>2, DeletedRecords DEF IdInv
  <2> QED BY <1>1, <1>9, <2>3, <2>4 DEF StoreStep
<1>10. CASE op.op = "remove"
  <2>1. DeleteRecord(op.id) /\ Returned(op)
    BY <1>1, <1>10 DEF StoreStep
  <2>2. UNCHANGED <<job, listed>>
    BY <1>3, <2>1, ReturnedKeeps
  <2>3. UNCHANGED nextId /\ tokens' \subseteq tokens
    BY <2>1 DEF DeleteRecord
  <2>4. ASSUME NEW k \in DOMAIN rows, rows[k].id = op.id PROVE job[rows[k].req] = "over"
    BY <2>4, RowParts, <1>3, <1>10 DEF Tied, Named, IdInv, TieInv, RecordInv
  <2> QED BY <1>4, <1>6, <1>7, <1>8, <1>10, <2>1, <2>2, <2>3, <2>4, DeletedRecords DEF IdInv
<1>11. CASE op.op = "output"
  <2>1. /\ Returned(op) /\ UNCHANGED <<nextId, tokens>>
        /\ rows' = [i \in DOMAIN rows |->
                       IF rows[i].id = op.id THEN [rows[i] EXCEPT !.out = op.out] ELSE rows[i]]
    BY <1>1, <1>11 DEF StoreStep
  <2>2. UNCHANGED <<job, listed>>
    BY <1>3, <2>1, ReturnedKeeps
  <2>3. DOMAIN rows' = DOMAIN rows /\ \A k \in DOMAIN rows : rows'[k].id = rows[k].id /\ rows'[k].req = rows[k].req
    BY RowParts, <2>1 DEF Records
  <2>4. RecordInv'
    <3>1. (\A i \in DOMAIN toStore : toStore[i].op \in {"remove", "abandon"} => job[toStore[i].req] = "over")'
      BY <1>4, <1>6, <1>11, OperationsAreOver DEF IdInv, NothingNew, Ends
    <3>2. \A k, l \in DOMAIN rows' : rows'[k].id = rows'[l].id => k = l
      BY <2>3 DEF IdInv, RecordInv
    <3>3. \A r \in Requests : job'[r] = "open" => \E k \in DOMAIN rows' : rows'[k].req = r
      BY <2>2, <2>3 DEF IdInv, RecordInv
    <3> QED BY <3>1, <3>2, <3>3 DEF RecordInv
  <2> QED BY <1>7, <1>11, <2>1, <2>2, <2>4 DEF IdInv
<1>12. CASE op.op = "list"
  <2>1. UNCHANGED store /\ UNCHANGED job /\ listed' \subseteq listed \cup RowIds
    BY <1>1, <1>12 DEF StoreStep, Listed, NobodyWaits, restoration
  <2>2. UNCHANGED <<nextId, tokens, rows>>
    BY <2>1 DEF store
  <2> QED BY <1>4, <1>6, <1>7, <1>8, <1>12, <2>1, <2>2, RecordsHold DEF IdInv
<1> QED BY <1>1, <1>5, <1>9, <1>10, <1>11, <1>12 DEF StoreStep

-----------------------------------------------------------------------------
(* The list that a restoration waits for. *)

LEMMA ListHolds ==
    ASSUME ListInv, UNCHANGED up, restoring' = restoring \/ (restoring = "restoring" /\ restoring' = "off" /\ todo = <<>>),
           todo' = todo \/ restoring = "restoring", restoring' = "off" => UNCHANGED todo,
           \A i \in DOMAIN toStore' : (i \in DOMAIN toStore /\ toStore'[i] = toStore[i]) \/ ~IsList(toStore'[i])
    PROVE  ListInv'
  BY DEF ListInv, IsList

LEMMA ListAfterSend ==
    ASSUME TypeOK, ListInv, UNCHANGED <<up, restoring>>, todo' = todo \/ restoring = "restoring",
           NEW op \in Operations, Send(op), op.op # "list"
    PROVE  ListInv'
  BY SendIsLast, ListHolds DEF IsList

LEMMA QuietList ==
    ASSUME ListInv, UNCHANGED <<up, restoring, todo, toStore>>
    PROVE  ListInv'
  BY DEF ListInv, IsList

LEMMA EncoderStepList ==
    ASSUME TypeOK, ListInv, NEW i \in DOMAIN encoders,
           \/ StartDone(i) \/ ExitWell(i) \/ ExitBadly(i) \/ Register(i, TRUE) \/ Register(i, FALSE)
           \/ DeleteOriginal(i) \/ Finalize(i) \/ StartFails(i) \/ CancelRunning(i)
    PROVE  ListInv'
<1>1. UNCHANGED <<up, restoring, todo, toStore>>
  BY DEF StartDone, ExitWell, ExitBadly, Register, DeleteOriginal, Finalize, StartFails, CancelRunning, restoration
<1> QED BY <1>1, QuietList

LEMMA EncoderEndList ==
    ASSUME TypeOK, ListInv, NEW i \in DOMAIN encoders, ReleaseEncoder(i) \/ CancelWaiting(i)
    PROVE  ListInv'
<1>1. PICK op : op = Op("remove", encoders[i].id, encoders[i].req, NoPath, "encoder")
  OBVIOUS
<1>2. op \in Operations /\ op.op # "list"
  BY <1>1, EncoderParts DEF Op, Operations, NoPath
<1>3. Send(op) /\ UNCHANGED <<up, restoring, todo>>
  BY <1>1 DEF ReleaseEncoder, CancelWaiting, restoration
<1> QED BY <1>2, <1>3, ListAfterSend

LEMMA ClockList ==
    ASSUME TypeOK, ListInv, UNCHANGED vars \/ TimerFires \/ SuspendBegins \/ SuspendEnds \/ RestoreEnd
    PROVE  ListInv'
<1>1. CASE RestoreEnd
  BY <1>1, ListHolds DEF RestoreEnd
<1>2. CASE ~RestoreEnd
  BY <1>2, QuietList DEF vars, TimerFires, SuspendBegins, SuspendEnds, restoration
<1> QED BY <1>1, <1>2

LEMMA AdmissionList ==
    ASSUME TypeOK, ListInv, NEW r \in Requests,
           TakeLock(r) \/ PushEnter(r) \/ EnqueueFromRecording(r) \/ Acquire(r) \/ AcquireRefused(r)
    PROVE  ListInv'
<1>1. UNCHANGED <<up, restoring, todo>>
  BY DEF TakeLock, PushEnter, EnqueueFromRecording, Acquire, AcquireRefused, restoration
<1>2. CASE UNCHANGED toStore
  BY <1>1, <1>2, QuietList
<1>3. CASE Send(Op("add", 0, r, NoPath, "admit"))
  BY <1>1, <1>3, ListAfterSend DEF Op, Operations, NoPath
<1>4. CASE r \in FromRecording /\ Send(Op("remove", admit[r].id, r, NoPath, "admit"))
  BY <1>4, <1>1, ListAfterSend DEF Op, Operations, NoPath, TypeOK, Admissions
<1> QED BY <1>2, <1>3, <1>4 DEF TakeLock, PushEnter, EnqueueFromRecording, Acquire, AcquireRefused

LEMMA HandOverList ==
    ASSUME TypeOK, ListInv, HandOver
    PROVE  ListInv'
<1>1. UNCHANGED <<up, restoring, todo>>
  BY DEF HandOver, restoration
<1>2. PICK m : m = Head(toService)
  OBVIOUS
<1>3. CASE UNCHANGED toStore
  BY <1>1, <1>3, QuietList
<1>4. CASE Send(Op("remove", m.id, m.req, NoPath, "admit"))
  <2>1. PICK op : op = Op("remove", m.id, m.req, NoPath, "admit")
    OBVIOUS
  <2>2. m.req \in FromRecording /\ m.req \in Requests /\ m.id \in Nat
    BY <1>2, MessageTypes, EncodeAssumption DEF HandOver, Ids
  <2>3. op \in Operations /\ op.op # "list"
    BY <2>1, <2>2 DEF Op, Operations, NoPath
  <2> QED BY <1>1, <1>4, <2>1, <2>3, ListAfterSend
<1> QED BY <1>2, <1>3, <1>4 DEF HandOver

LEMMA CheckQueueList ==
    ASSUME TypeOK, ListInv, CheckQueue
    PROVE  ListInv'
<1>1. UNCHANGED <<up, restoring, todo>>
  BY DEF CheckQueue, restoration
<1>2. CASE UNCHANGED toStore
  BY <1>1, <1>2, QuietList
<1>3. CASE Waiting # {} /\ Send(Op("output", encoders[Min(Waiting)].id, encoders[Min(Waiting)].req, Len(files) + 1, "encoder"))
  <2>1. Min(Waiting) \in DOMAIN encoders
    <3>1. Waiting \in SUBSET Nat
      BY LenProperties DEF Waiting, TypeOK
    <3>2. Min(Waiting) \in Waiting
      BY <1>3, <3>1, MinIsLeast
    <3> QED BY <3>2 DEF Waiting
  <2>2. PICK i \in DOMAIN encoders : i = Min(Waiting)
    BY <2>1
  <2>3. PICK op : op = Op("output", encoders[i].id, encoders[i].req, Len(files) + 1, "encoder")
    OBVIOUS
  <2>4. encoders[i].id \in Nat /\ encoders[i].req \in Requests /\ Len(files) + 1 \in Nat
    BY EncoderParts, LenProperties DEF TypeOK
  <2>5. op \in Operations /\ op.op # "list"
    BY <2>3, <2>4 DEF Op, Operations
  <2> QED BY <1>1, <1>3, <2>2, <2>3, <2>5, ListAfterSend
<1> QED BY <1>2, <1>3 DEF CheckQueue

LEMMA RestorationList ==
    ASSUME TypeOK, ListInv, ServiceStart \/ RetryList
    PROVE  ListInv'
<1>1. PICK op : op = Op("list", 0, CHOOSE r \in Requests : TRUE, NoPath, "restore")
  OBVIOUS
<1>2. op \in Operations
  BY EncodeAssumption, <1>1 DEF Op, Operations, NoPath
<1>3. restoring' = "listing" /\ Send(op) /\ UNCHANGED todo /\ up'
  BY <1>1 DEF ServiceStart, RetryList, StartRestoration, ListInv
<1>4. todo = <<>> /\ \A i \in DOMAIN toStore : ~IsList(toStore[i])
  BY DEF ServiceStart, RetryList, ListInv
<1>5. \A i \in DOMAIN toStore' : (i \in DOMAIN toStore /\ toStore'[i] = toStore[i]) \/ i = Len(toStore) + 1
  BY <1>2, <1>3, SendIsLast
<1>6. \A i \in DOMAIN toStore' : IsList(toStore'[i]) => i = Len(toStore) + 1
  BY <1>4, <1>5
<1>7. (\A i, j \in DOMAIN toStore : IsList(toStore[i]) /\ IsList(toStore[j]) => i = j)'
  BY <1>6 DEF IsList
<1> QED BY <1>3, <1>4, <1>7 DEF ListInv

LEMMA RestoreNextList ==
    ASSUME TypeOK, ListInv, RestoreNext \/ RestoreNextFails
    PROVE  ListInv'
<1>1. UNCHANGED <<up, restoring>> /\ restoring = "restoring" /\ todo # <<>>
  BY DEF RestoreNext, RestoreNextFails, RestoreReady
<1>2. PICK record : record = Head(todo)
  OBVIOUS
<1>3. CASE UNCHANGED toStore
  BY <1>1, <1>3, ListHolds
<1>4. CASE Send(Op("remove", record.id, record.req, NoPath, "restore"))
  BY <1>1, <1>2, RecordTypes, <1>4, ListAfterSend DEF Op, Operations, NoPath
<1> QED BY <1>2, <1>3, <1>4 DEF RestoreNext, RestoreNextFails

\* The lists that are left were there before, d places further on.
LEMMA ListsLeft ==
    ASSUME ListInv, NEW ops \in Seq(Operations), NEW d \in {0, 1},
           \A i \in DOMAIN ops : i + d \in DOMAIN toStore /\ (IsList(ops[i]) => IsList(toStore[i + d]))
    PROVE  \A i, j \in DOMAIN ops : IsList(ops[i]) /\ IsList(ops[j]) => i = j
  BY LenProperties DEF ListInv

LEMMA StoreStepList ==
    ASSUME TypeOK, QueueInv, ListInv, StoreStep
    PROVE  ListInv'
<1>1. PICK op : op = Head(toStore)
  OBVIOUS
<1>2. toStore # <<>> /\ toStore' = Tail(toStore) /\ UNCHANGED up
  BY DEF StoreStep
<1>3. /\ 1 \in DOMAIN toStore /\ op = toStore[1] /\ op \in Operations
      /\ \A k \in DOMAIN toStore' : k + 1 \in DOMAIN toStore /\ k + 1 # 1 /\ toStore'[k] = toStore[k + 1]
  BY <1>1, <1>2, OldestOp
<1>4. (\A i, j \in DOMAIN toStore : IsList(toStore[i]) /\ IsList(toStore[j]) => i = j)'
  <2>1. toStore' \in Seq(Operations)
    BY <1>2, TailTypes
  <2>2. \A i \in DOMAIN toStore' : i + 1 \in DOMAIN toStore /\ (IsList(toStore'[i]) => IsList(toStore[i + 1]))
    BY <1>3
  <2>3. \A i, j \in DOMAIN toStore' : IsList(toStore'[i]) /\ IsList(toStore'[j]) => i = j
    BY ONLY ListInv, <2>1, <2>2, ListsLeft
  <2> QED BY <2>3 DEF IsList
<1>5. CASE IsList(op)
  BY <1>1, <1>5, <1>3, <1>2, <1>4 DEF StoreStep, IsList, Listed, ListInv
<1>6. CASE ~IsList(op)
  <2>1. UNCHANGED <<restoring, todo>>
    BY <1>3, ReturnedKeeps, <1>1, <1>6 DEF StoreStep, IsList, AddAnswered, NobodyWaits, restoration
  <2> QED BY <1>2, <1>3, <1>4, <2>1 DEF ListInv, IsList
<1> QED BY <1>5, <1>6

LEMMA CallFailsList ==
    ASSUME TypeOK, QueueInv, ListInv, NEW i \in DOMAIN toStore, NEW dropped \in BOOLEAN, CallFails(i, dropped)
    PROVE  ListInv'
<1>1. PICK rest : rest = Rest(i, dropped)
  OBVIOUS
<1>2. PICK d \in {0, 1} : d = IF dropped THEN 1 ELSE 0
  OBVIOUS
<1>3. PICK op : op = toStore[i]
  OBVIOUS
<1>4. op \in Operations /\ op.req \in Requests /\ UNCHANGED up
  BY <1>3, OperationParts DEF CallFails
<1>5. /\ rest \in Seq(Operations)
      /\ \A k \in DOMAIN rest : /\ k + d \in DOMAIN toStore /\ rest[k].op = toStore[k + d].op
                                /\ rest[k].by = IF k + d = i THEN "nobody" ELSE toStore[k + d].by
  BY <1>1, <1>2, RestTypes DEF CallFails
<1>6. \A k \in DOMAIN rest : (k + d \in DOMAIN toStore /\ k + d # i) \/ ~IsList(rest[k])
  BY <1>5 DEF IsList
<1>7. \A k \in DOMAIN rest : k + d \in DOMAIN toStore /\ (IsList(rest[k]) => IsList(toStore[k + d]))
  BY <1>5, <1>6 DEF IsList
<1>8. \A k, l \in DOMAIN rest : IsList(rest[k]) /\ IsList(rest[l]) => k = l
  BY ONLY ListInv, <1>5, <1>7, ListsLeft
<1>9. CASE AddFailed(op.req, rest)
  <2>1. PICK o : o = Op("abandon", 0, op.req, NoPath, "nobody")
    OBVIOUS
  <2>2. toStore' = Append(rest, o) /\ UNCHANGED <<restoring, todo>> /\ ~IsList(o)
    BY <1>9, <2>1 DEF AddFailed, restoration, IsList, Op
  <2>3. o \in Operations
    BY <1>4, <2>1 DEF Op, Operations, NoPath
  <2>4. \A k \in DOMAIN toStore' : (k \in DOMAIN rest /\ toStore'[k] = rest[k]) \/ toStore'[k] = o
    BY <1>5, <2>2, <2>3, AppendProperties, LenProperties
  <2>5. \A k \in DOMAIN toStore' : IsList(toStore'[k]) => k \in DOMAIN rest /\ IsList(rest[k])
    BY <2>2, <2>4
  <2> QED BY <1>4, <1>7, <1>8, <2>2, <2>5 DEF ListInv, IsList
<1>10. CASE ListFailed /\ toStore' = rest /\ op.op = "list" /\ op.by = "restore"
  BY <1>10, <1>3, <1>6, <1>7, <1>4 DEF ListFailed, IsList, ListInv
<1>11. CASE Returned(op) /\ toStore' = rest
  BY <1>4, <1>11, ReturnedKeeps, <1>7, <1>8 DEF ListInv, IsList
<1> QED BY <1>1, <1>3, <1>9, <1>10, <1>11 DEF CallFails, Rest

LEMMA CrashList ==
    ASSUME TypeOK, ListInv, WholeCrash \/ \E n \in 0 .. Len(toStore) : ServiceCrash(n)
    PROVE  ListInv'
<1>1. ~up' /\ restoring' = "off" /\ todo' = <<>>
  BY DEF WholeCrash, ServiceCrash, ServiceGone
<1>2. \A k \in DOMAIN toStore' : ~IsList(toStore'[k])
  <2>1. CASE WholeCrash
    BY <2>1 DEF WholeCrash
  <2>2. ASSUME NEW n \in 0 .. Len(toStore), ServiceCrash(n) PROVE \A k \in DOMAIN toStore' : ~IsList(toStore'[k])
    <3>1. \A k \in DOMAIN toStore : [toStore[k] EXCEPT !.by = "nobody"].by = "nobody"
      BY OperationParts DEF Operations
    <3>2. \A k \in 1 .. n : k \in DOMAIN toStore
      BY LenProperties DEF TypeOK
    <3>3. toStore' = [k \in 1 .. n |-> [toStore[k] EXCEPT !.by = "nobody"]]
      BY <2>2 DEF ServiceCrash
    <3>4. \A k \in DOMAIN toStore' : toStore'[k].by = "nobody"
      BY <3>1, <3>2, <3>3
    <3> QED BY <3>4 DEF IsList
  <2> QED BY <2>1, <2>2
<1> QED BY <1>1, <1>2 DEF ListInv, IsList

-----------------------------------------------------------------------------
(* Every record is known by the service, as long as no call but list fails. *)

LEMMA CoverStays ==
    ASSUME CoverInv, ThroughList' => ThroughList, NoNewRow, EncodersStay, AdmissionsStay, RemovalsStay,
           UNCHANGED <<todo, listed, toService>>
    PROVE  CoverInv'
<1> SUFFICES ASSUME ThroughList', NEW id \in Nat, NEW r \in Requests, HasRow(id, r, rows')
             PROVE  Covered(id, r)'
  BY DEF CoverInv
<1>1. Covered(id, r)
  BY DEF CoverInv, NoNewRow
<1> QED BY <1>1 DEF Covered, EncodersStay, AdmissionsStay, RemovalsStay

LEMMA SameStay ==
    /\ UNCHANGED rows => NoNewRow
    /\ UNCHANGED encoders => EncodersStay
    /\ UNCHANGED admit => AdmissionsStay
    /\ UNCHANGED toStore => RemovalsStay
  BY DEF NoNewRow, EncodersStay, AdmissionsStay, RemovalsStay

LEMMA QuietBehind ==
    ASSUME BehindInv, UNCHANGED <<toStore, up>>
    PROVE  BehindInv'
  BY DEF BehindInv, IsList

LEMMA SentBehind ==
    ASSUME TypeOK, BehindInv, UNCHANGED up, NEW op \in Operations, Send(op), op.op = "add" => op.by = "admit"
    PROVE  BehindInv' /\ RemovalsStay /\ (op.op = "remove" => Removing(op.id, toStore'))
  BY SendTypes DEF BehindInv, IsList, RemovalsStay, Removing

LEMMA EncoderStepStays ==
    ASSUME TypeOK, NEW i \in DOMAIN encoders,
           \/ StartDone(i) \/ ExitWell(i) \/ ExitBadly(i) \/ Register(i, TRUE) \/ Register(i, FALSE)
           \/ DeleteOriginal(i) \/ Finalize(i) \/ StartFails(i) \/ CancelRunning(i)
           \/ ReleaseEncoder(i) \/ CancelWaiting(i)
    PROVE  EncodersStay
<1>1. ASSUME NEW e, encoders' = [encoders EXCEPT ![i] = e], e.id = encoders[i].id
      PROVE  EncodersStay
  BY <1>1 DEF EncodersStay, HasEncoder
<1>2. encoders[i] \in EncoderStates
  BY EncoderParts
<1>3. ASSUME NEW st, StepEncoder(i, st) PROVE EncodersStay
  BY <1>2, <1>3, <1>1 DEF EncoderStates, StepEncoder
<1>4. ASSUME NEW st, encoders' = [encoders EXCEPT ![i].settle = st] PROVE EncodersStay
  BY <1>2, <1>4, <1>1 DEF EncoderStates
<1>5. ASSUME NEW st, encoders' = [encoders EXCEPT ![i].step = st, ![i].wakes = TRUE] PROVE EncodersStay
  BY <1>2, <1>5, <1>1 DEF EncoderStates
<1>6. ASSUME NEW st, encoders' = [encoders EXCEPT ![i].step = "exited", ![i].settle = st] PROVE EncodersStay
  BY <1>2, <1>6, <1>1 DEF EncoderStates
<1>7. CASE StartDone(i) \/ ExitBadly(i) \/ Finalize(i) \/ CancelRunning(i) \/ ReleaseEncoder(i)
  BY <1>3, <1>7 DEF StartDone, ExitBadly, Finalize, CancelRunning, ReleaseEncoder
<1>8. CASE Register(i, TRUE) \/ Register(i, FALSE) \/ DeleteOriginal(i)
  BY <1>4, <1>8 DEF Register, DeleteOriginal
<1>9. CASE StartFails(i) \/ CancelWaiting(i)
  BY <1>5, <1>9 DEF StartFails, CancelWaiting
<1>10. CASE ExitWell(i)
  BY <1>6, <1>10 DEF ExitWell
<1> QED BY <1>7, <1>8, <1>9, <1>10

LEMMA EncoderStepKnown ==
    ASSUME TypeOK, KnownInv, NEW i \in DOMAIN encoders,
           \/ StartDone(i) \/ ExitWell(i) \/ ExitBadly(i) \/ Register(i, TRUE) \/ Register(i, FALSE)
           \/ DeleteOriginal(i) \/ Finalize(i) \/ StartFails(i) \/ CancelRunning(i)
    PROVE  KnownInv'
<1>1. UNCHANGED <<rows, toStore, toService, up, restoring, todo, listed, admit>>
  BY DEF StartDone, ExitWell, ExitBadly, Register, DeleteOriginal, Finalize, StartFails, CancelRunning, restoration, store
<1>2. EncodersStay
  BY EncoderStepStays
<1>3. ThroughList' => ThroughList
  BY <1>1 DEF ThroughList
<1> QED BY <1>1, <1>2, <1>3, SameStay, CoverStays, QuietBehind DEF KnownInv

LEMMA EncoderEndKnown ==
    ASSUME TypeOK, KnownInv, NEW i \in DOMAIN encoders, ReleaseEncoder(i) \/ CancelWaiting(i)
    PROVE  KnownInv'
<1>1. PICK op : op = Op("remove", encoders[i].id, encoders[i].req, NoPath, "encoder")
  OBVIOUS
<1>2. op \in Operations /\ op.op # "add"
  BY <1>1, EncoderParts DEF Op, Operations, NoPath
<1>3. Send(op) /\ UNCHANGED <<rows, toService, up, restoring, todo, listed, admit>>
  BY <1>1 DEF ReleaseEncoder, CancelWaiting, restoration, store
<1>4. EncodersStay
  BY EncoderStepStays
<1>5. ThroughList' => ThroughList
  BY <1>3 DEF ThroughList
<1> QED BY <1>2, <1>3, <1>4, <1>5, SameStay, CoverStays, SentBehind DEF KnownInv

LEMMA ClockKnown ==
    ASSUME TypeOK, KnownInv, UNCHANGED vars \/ TimerFires \/ SuspendBegins \/ SuspendEnds \/ RestoreEnd
    PROVE  KnownInv'
<1>1. UNCHANGED <<rows, toStore, toService, up, todo, listed, admit, encoders>>
  BY DEF vars, TimerFires, SuspendBegins, SuspendEnds, RestoreEnd, restoration, store
<1>2. ThroughList' => ThroughList
  BY <1>1 DEF ThroughList, vars, TimerFires, SuspendBegins, SuspendEnds, RestoreEnd, restoration
<1> QED BY <1>1, <1>2, SameStay, CoverStays, QuietBehind DEF KnownInv

LEMMA CheckQueueKnown ==
    ASSUME TypeOK, KnownInv, CheckQueue
    PROVE  KnownInv'
<1>1. UNCHANGED <<rows, toService, up, restoring, todo, listed, admit>> /\ (ThroughList' => ThroughList)
  BY DEF CheckQueue, restoration, store, ThroughList
<1>2. CASE UNCHANGED <<encoders, toStore>>
  BY <1>1, <1>2, SameStay, CoverStays, QuietBehind DEF KnownInv
<1>3. CASE Waiting # {} /\ ~UNCHANGED <<encoders, toStore>>
  <2>1. Min(Waiting) \in DOMAIN encoders
    <3>1. Waiting \in SUBSET Nat
      BY LenProperties DEF Waiting, TypeOK
    <3>2. Min(Waiting) \in Waiting
      BY <1>3, <3>1, MinIsLeast
    <3> QED BY <3>2 DEF Waiting
  <2>2. PICK i \in DOMAIN encoders : i = Min(Waiting)
    BY <2>1
  <2>3. PICK op : op = Op("output", encoders[i].id, encoders[i].req, Len(files) + 1, "encoder")
    OBVIOUS
  <2>4. encoders[i].id \in Nat /\ encoders[i].req \in Requests /\ Len(files) + 1 \in Nat /\ encoders[i] \in EncoderStates
    BY EncoderParts, LenProperties DEF TypeOK
  <2>5. op \in Operations /\ op.op # "add"
    BY <2>3, <2>4 DEF Op, Operations
  <2>6. ASSUME NEW e \in EncoderStates, e.id = encoders[i].id, encoders' = Append(RemoveAt(encoders, i), e)
        PROVE  EncodersStay
    <3>1. encoders \in Seq(EncoderStates) /\ DOMAIN encoders = 1 .. Len(encoders) /\ Len(encoders) \in Nat
      BY LenProperties DEF TypeOK
    <3>2. /\ DOMAIN encoders' = DOMAIN encoders
          /\ \A k \in DOMAIN encoders : encoders'[k] = IF k = Len(encoders) THEN e ELSE encoders[Shift(i, k)]
      <4>1. /\ DOMAIN Append(RemoveAt(encoders, i), e) = DOMAIN encoders
            /\ \A k \in DOMAIN encoders : Append(RemoveAt(encoders, i), e)[k]
                                           = IF k = Len(encoders) THEN e ELSE encoders[Shift(i, k)]
        <5>1. encoders \in Seq(EncoderStates) /\ i \in DOMAIN encoders /\ e \in EncoderStates
          BY <3>1
        <5> QED BY ONLY <5>1, EncodersMove
      <4> QED BY <2>6, <4>1
    <3>3. \A k \in DOMAIN encoders : k # i => \E l \in DOMAIN encoders : l # Len(encoders) /\ Shift(i, l) = k
      <4> SUFFICES ASSUME NEW k \in DOMAIN encoders, k # i
                   PROVE  \E l \in DOMAIN encoders : l # Len(encoders) /\ Shift(i, l) = k
        OBVIOUS
      <4>1. CASE k < i
        BY <3>1, <4>1 DEF Shift
      <4>2. CASE ~(k < i)
        <5>1. k - 1 \in DOMAIN encoders /\ k - 1 # Len(encoders) /\ Shift(i, k - 1) = k
          BY <3>1, <4>2 DEF Shift
        <5> QED BY <5>1
      <4> QED BY <4>1, <4>2
    <3>4. ASSUME NEW k \in DOMAIN encoders
          PROVE  \E l \in DOMAIN encoders' : encoders'[l].id = encoders[k].id
      <4>1. CASE k = i
        <5>1. Len(encoders) \in DOMAIN encoders
          BY <3>1
        <5> QED BY <2>6, <3>2, <4>1, <5>1
      <4>2. CASE k # i
        BY <3>2, <3>3, <4>2
      <4> QED BY <4>1, <4>2
    <3> QED BY <3>4 DEF EncodersStay, HasEncoder
  <2>7. EncodersStay
    BY <2>4, <1>3, <2>2, <2>6 DEF EncoderStates, QueuedSteps, CheckQueue
  <2>8. UNCHANGED toStore \/ Send(op)
    BY <1>3, <2>2, <2>3 DEF CheckQueue
  <2>9. BehindInv' /\ RemovalsStay
    BY <1>1, <2>5, <2>8, SameStay, QuietBehind, SentBehind DEF KnownInv
  <2> QED BY <1>1, <2>7, <2>9, SameStay, CoverStays DEF KnownInv
<1> QED BY <1>2, <1>3 DEF CheckQueue

LEMMA RestorationKnown ==
    ASSUME TypeOK, ListInv, KnownInv, ServiceStart \/ RetryList
    PROVE  KnownInv'
<1>1. PICK op : op = Op("list", 0, CHOOSE r \in Requests : TRUE, NoPath, "restore")
  OBVIOUS
<1>2. op \in Operations /\ IsList(op)
  BY EncodeAssumption, <1>1 DEF Op, Operations, NoPath, IsList
<1>3. restoring' = "listing" /\ Send(op)
  BY <1>1 DEF ServiceStart, RetryList, StartRestoration
<1>4. CoverInv'
  BY <1>3 DEF CoverInv, ThroughList
<1>5. /\ DOMAIN toStore' = DOMAIN toStore \cup {Len(toStore) + 1}
      /\ \A k \in DOMAIN toStore : toStore'[k] = toStore[k]
      /\ toStore'[Len(toStore) + 1] = op
  BY <1>2, <1>3, SendTypes
<1>6. \A i \in DOMAIN toStore : i < Len(toStore) + 1
  BY LenProperties DEF TypeOK
<1>7. BehindInv'
  BY <1>2, <1>5, <1>6 DEF BehindInv, IsList
<1> QED BY <1>4, <1>7 DEF KnownInv

LEMMA CrashKnown ==
    ASSUME WholeCrash \/ \E n \in 0 .. Len(toStore) : ServiceCrash(n)
    PROVE  KnownInv'
<1>1. ~up'
  BY DEF WholeCrash, ServiceCrash, ServiceGone
<1> QED BY <1>1 DEF KnownInv, BehindInv, CoverInv, ThroughList, IsList

LEMMA FaultRaises ==
    ASSUME TypeOK, Fault
    PROVE  ~NoFault'
  BY DEF TypeOK, Fault, Disturb, NoFault

LEMMA RowIsTied ==
    ASSUME NEW id, NEW r, HasRow(id, r, rows)
    PROVE  Tied(r, id) /\ Named(r, id)
  BY DEF HasRow, Tied, Named

\* What is in use is known by its record.
LEMMA InUseCovers ==
    ASSUME TypeOK, IdInv, NEW id \in Nat, NEW r \in Requests, HasRow(id, r, rows), InUse(id)
    PROVE  HasEncoder(id, encoders) \/ admit[r].step # "none"
<1>1. CASE \E i \in Queued : encoders[i].id = id
  BY <1>1, QueuedByStep DEF HasEncoder
<1>2. CASE \E s \in FromRecording : admit[s].step # "none" /\ admit[s].id = id
  BY <1>2, EncodeAssumption, RowIsTied DEF Tied, Named, IdInv, TieInv
<1> QED BY <1>1, <1>2 DEF InUse

\* A conversion is appended.
LEMMA AppendedStays ==
    ASSUME TypeOK, NEW r \in Requests, NEW id \in Nat, encoders' = Append(encoders, NewEncoder(id, r))
    PROVE  EncodersStay /\ HasEncoder(id, encoders')
<1>1. encoders \in Seq(EncoderStates) /\ DOMAIN encoders = 1 .. Len(encoders) /\ Len(encoders) \in Nat
  BY LenProperties DEF TypeOK
<1>2. PICK e : e = NewEncoder(id, r)
  OBVIOUS
<1>3. e \in EncoderStates /\ e.id = id /\ encoders' = Append(encoders, e)
  BY <1>2 DEF NewEncoder, EncoderStates, QueuedSteps, NoPath
<1>4. /\ encoders' \in Seq(EncoderStates) /\ Len(encoders') = Len(encoders) + 1
      /\ \A k \in 1 .. Len(encoders) : encoders'[k] = encoders[k]
      /\ encoders'[Len(encoders) + 1] = e
  BY <1>1, <1>3, AppendProperties
<1>5. DOMAIN encoders' = 1 .. Len(encoders) + 1
  BY <1>4, LenProperties
<1>6. \A k \in DOMAIN encoders : k \in DOMAIN encoders' /\ encoders'[k] = encoders[k]
  BY <1>1, <1>4, <1>5
<1>7. Len(encoders) + 1 \in DOMAIN encoders'
  BY <1>1, <1>5
<1> QED BY <1>3, <1>4, <1>6, <1>7 DEF EncodersStay, HasEncoder

\* An admission that has an id goes over into a conversion that has it.
LEMMA EnqueueCovers ==
    ASSUME TypeOK, NEW r \in Requests, NEW id \in Nat, Enqueue(r, id)
    PROVE  /\ EncodersStay /\ HasEncoder(id, encoders')
           /\ \A s \in Requests : s # r => admit'[s] = admit[s]
  BY AppendedStays DEF Enqueue, TypeOK

LEMMA AdmissionKnown ==
    ASSUME TypeOK, QueueInv, KnownInv, NEW r \in Requests, TakeLock(r) \/ PushEnter(r)
    PROVE  KnownInv'
<1>1. UNCHANGED <<rows, toStore, toService, up, restoring, todo, listed, encoders>> /\ (ThroughList' => ThroughList)
  BY DEF TakeLock, PushEnter, restoration, store, ThroughList
<1>2. AdmissionsStay
  <2>1. CASE UNCHANGED admit
    BY <2>1 DEF AdmissionsStay
  <2>2. ASSUME NEW st \in {"lock", "lease"}, admit' = [admit EXCEPT ![r].step = st] PROVE AdmissionsStay
    BY <2>2 DEF AdmissionsStay, TypeOK, Admissions
  <2> QED BY <2>1, <2>2 DEF TakeLock, PushEnter
<1> QED BY <1>1, <1>2, SameStay, CoverStays, QuietBehind DEF KnownInv

LEMMA AcquireKnown ==
    ASSUME TypeOK, QueueInv, IdInv, KnownInv, NEW r \in Requests, Acquire(r)
    PROVE  KnownInv'
<1>1. UNCHANGED <<rows, toService, up, restoring, todo, listed>> /\ (ThroughList' => ThroughList)
  BY DEF Acquire, restoration, store, ThroughList
<1>2. CASE r \notin FromRecording
  <2>1. PICK op : op = Op("add", 0, r, NoPath, "admit")
    OBVIOUS
  <2>2. op \in Operations /\ op.by = "admit"
    BY <2>1 DEF Op, Operations, NoPath
  <2>3. Send(op) /\ UNCHANGED encoders
    BY <1>2, <2>1 DEF Acquire
  <2>4. AdmissionsStay
    <3>1. admit' = [admit EXCEPT ![r].step = "adding"] /\ admit[r].step # "none"
      BY <1>2 DEF Acquire
    <3>2. admit \in [Requests -> Admissions]
      BY DEF TypeOK
    <3>3. [admit[r] EXCEPT !.step = "adding"].step = "adding"
      BY <3>2 DEF Admissions
    <3>4. \A s \in Requests : admit'[s].step = IF s = r THEN "adding" ELSE admit[s].step
      BY <3>1, <3>2, <3>3
    <3> QED BY <3>1, <3>4 DEF AdmissionsStay
  <2> QED BY <1>1, <2>2, <2>3, <2>4, SameStay, CoverStays, SentBehind DEF KnownInv
<1>3. CASE r \in FromRecording
  <2>1. UNCHANGED toStore /\ Enqueue(r, admit[r].id) /\ admit[r].id \in Nat /\ admit[r].step # "none"
    BY <1>3 DEF Acquire, TypeOK, Admissions
  <2>2. BehindInv'
    BY <1>1, <2>1, QuietBehind DEF KnownInv
  <2>3. EncodersStay /\ HasEncoder(admit[r].id, encoders') /\ \A s \in Requests : s # r => admit'[s] = admit[s]
    BY <2>1, EnqueueCovers
  <2>4. CoverInv'
    <3> SUFFICES ASSUME ThroughList', NEW id \in Nat, NEW s \in Requests, HasRow(id, s, rows')
                 PROVE  Covered(id, s)'
      BY DEF CoverInv
    <3>1. HasRow(id, s, rows) /\ Covered(id, s)
      BY <1>1 DEF KnownInv, CoverInv
    <3>2. CASE s # r
      BY <1>1, <2>1, <2>3, <3>1, <3>2 DEF Covered, EncodersStay
    <3>3. CASE s = r
      <4>1. Named(r, id) /\ Named(r, admit[r].id)
        BY <1>3, <2>1, <3>1, <3>3, RowIsTied DEF Named
      <4>2. id = admit[r].id
        BY <2>1, <4>1 DEF QueueInv, OneName
      <4> QED BY <2>3, <4>2 DEF Covered
    <3> QED BY <3>2, <3>3
  <2> QED BY <2>2, <2>4 DEF KnownInv
<1> QED BY <1>2, <1>3

\* A message is handed over: who has its record is busy with it, or is admitted now.
LEMMA HandOverKnown ==
    ASSUME TypeOK, QueueInv, IdInv, KnownInv, HandOver
    PROVE  KnownInv'
<1>1. /\ UNCHANGED <<rows, up, restoring, todo, listed, encoders>> /\ (ThroughList' => ThroughList)
      /\ toService # <<>> /\ toService' = Tail(toService)
  BY DEF HandOver, restoration, store, ThroughList
<1>2. PICK m : m = Head(toService)
  OBVIOUS
<1>3. m.req \in FromRecording /\ m.req \in Requests /\ m.id \in Nat /\ Named(m.req, m.id)
  BY <1>1, <1>2, MessageTypes, EncodeAssumption DEF Ids
<1>4. \/ (InUse(m.id) \/ m.id \in listed) /\ UNCHANGED <<admit, toStore>>
      \/ /\ admit' = [admit EXCEPT ![m.req] = [step |-> "rejecting", id |-> m.id]]
         /\ Send(Op("remove", m.id, m.req, NoPath, "admit"))
      \/ /\ admit' = [admit EXCEPT ![m.req] = [step |-> "lock", id |-> m.id]]
         /\ UNCHANGED toStore
  BY <1>2 DEF HandOver
<1>5. BehindInv' /\ RemovalsStay
  <2>1. CASE UNCHANGED toStore
    BY <1>1, <2>1, SameStay, QuietBehind DEF KnownInv
  <2>2. CASE Send(Op("remove", m.id, m.req, NoPath, "admit"))
    BY <1>3, <1>1, <2>2, SentBehind DEF Op, Operations, NoPath, KnownInv
  <2> QED BY <1>4, <2>1, <2>2
<1>6. AdmissionsStay
  <2>1. ASSUME NEW st \in {"lock", "rejecting"}, admit' = [admit EXCEPT ![m.req] = [step |-> st, id |-> m.id]]
        PROVE  AdmissionsStay
    BY <1>3, <2>1 DEF AdmissionsStay, TypeOK
  <2> QED BY <1>4, <2>1, SameStay
<1>7. CoverInv'
  <2> SUFFICES ASSUME ThroughList', NEW id \in Nat, NEW r \in Requests, HasRow(id, r, rows')
               PROVE  Covered(id, r)'
    BY DEF CoverInv
  <2>1. HasRow(id, r, rows) /\ Covered(id, r)
    BY <1>1 DEF KnownInv, CoverInv
  <2>2. CASE ~(id \notin listed /\ \E i \in DOMAIN toService : toService[i].id = id)
    BY <1>1, <1>5, <1>6, <2>1, <2>2 DEF Covered, AdmissionsStay, RemovalsStay
  <2>3. ASSUME id \notin listed, NEW i \in DOMAIN toService, toService[i].id = id, i # 1
        PROVE  Covered(id, r)'
    <3>1. \E k \in DOMAIN toService' : toService'[k].id = id
      <4>1. toService \in Seq([id : Ids, req : FromRecording])
        BY DEF TypeOK
      <4>2. DOMAIN toService = 1 .. Len(toService) /\ Len(toService) \in Nat
        BY <4>1, LenProperties
      <4>3. /\ toService' \in Seq([id : Ids, req : FromRecording]) /\ Len(toService') = Len(toService) - 1
            /\ \A k \in 1 .. Len(toService') : toService'[k] = toService[k + 1]
        BY <1>1, <4>1, HeadTailProperties
      <4>4. DOMAIN toService' = 1 .. Len(toService')
        BY <4>3, LenProperties
      <4>5. i - 1 \in 1 .. Len(toService') /\ (i - 1) + 1 = i
        BY <2>3, <4>2, <4>3
      <4> QED BY <2>3, <4>3, <4>4, <4>5
    <3> QED BY <1>1, <2>3, <3>1 DEF Covered
  <2>4. CASE id \notin listed /\ toService[1].id = id
    <3>1. m.id = id
      BY <1>1, <1>2, <2>4, OldestMessage
    <3>2. CASE InUse(m.id) \/ m.id \in listed
      <4>1. HasEncoder(id, encoders) \/ admit[r].step # "none"
        BY <2>1, <2>4, <3>1, <3>2, InUseCovers
      <4> QED BY <1>1, <1>6, <4>1 DEF Covered, AdmissionsStay
    <3>3. CASE admit'[m.req].step # "none"
      BY <1>3, <2>1, <3>1, RowIsTied, <3>3 DEF Tied, IdInv, TieInv, Covered
    <3> QED BY <1>3, <1>4, <3>2, <3>3 DEF TypeOK
  <2> QED BY <2>2, <2>3, <2>4
<1> QED BY <1>5, <1>7 DEF KnownInv

\* A record is added with its message, whose id no list has had.
LEMMA EnqueueFromRecordingKnown ==
    ASSUME EnoughIds, TypeOK, QueueInv, nextId \in Ids, IdInv, KnownInv, NEW r \in Requests, EnqueueFromRecording(r)
    PROVE  KnownInv'
<1>1. UNCHANGED <<toStore, up, restoring, todo, listed, admit, encoders>> /\ r \in Coming /\ r \in FromRecording
  BY DEF EnqueueFromRecording, restoration, Coming
<1>2. PICK id \in Ids : /\ AddRecord(r, id)
                        /\ toService' = IF up THEN Append(toService, [id |-> id, req |-> r]) ELSE toService
  BY DEF EnqueueFromRecording
<1>3. id \notin listed
  BY <1>1, <1>2, NextIsUnused DEF Used
<1>4. BehindInv'
  BY <1>1, QuietBehind DEF KnownInv
<1>5. CoverInv'
  <2> SUFFICES ASSUME ThroughList', NEW a \in Nat, NEW s \in Requests, HasRow(a, s, rows')
               PROVE  Covered(a, s)'
    BY DEF CoverInv
  <2>1. ThroughList /\ up
    BY <1>1 DEF ThroughList
  <2>2. /\ \A k \in DOMAIN toService : k \in DOMAIN toService' /\ toService'[k] = toService[k]
        /\ \E k \in DOMAIN toService' : toService'[k].id = id
    <3>1. PICK m : m = [id |-> id, req |-> r]
      OBVIOUS
    <3>2. m \in [id : Ids, req : FromRecording] /\ m.id = id /\ toService' = Append(toService, m)
      BY <1>1, <1>2, <2>1, <3>1
    <3>3. toService \in Seq([id : Ids, req : FromRecording])
      BY DEF TypeOK
    <3>4. DOMAIN toService = 1 .. Len(toService) /\ Len(toService) \in Nat
      BY <3>3, LenProperties
    <3>5. /\ toService' \in Seq([id : Ids, req : FromRecording]) /\ Len(toService') = Len(toService) + 1
          /\ \A k \in 1 .. Len(toService) : toService'[k] = toService[k]
          /\ toService'[Len(toService) + 1] = m
      BY <3>2, <3>3, AppendProperties
    <3>6. DOMAIN toService' = 1 .. Len(toService) + 1
      BY <3>5, LenProperties
    <3>7. Len(toService) + 1 \in DOMAIN toService' /\ \A k \in DOMAIN toService : k \in DOMAIN toService'
      BY <3>4, <3>6
    <3> QED BY <3>2, <3>4, <3>5, <3>7
  <2>3. HasRow(a, s, rows) \/ (a = id /\ s = r)
    BY <1>2, RecordAdded DEF HasRow
  <2>4. CASE HasRow(a, s, rows)
    BY <2>1, <2>4, <1>1, <2>2 DEF KnownInv, CoverInv, Covered
  <2>5. CASE a = id
    BY <1>1, <1>3, <2>2, <2>5 DEF Covered
  <2> QED BY <2>3, <2>4, <2>5
<1> QED BY <1>4, <1>5 DEF KnownInv

\* The restoration goes on with a record: it is in use, or removed, or queued now.
LEMMA RestoreNextKnown ==
    ASSUME TypeOK, QueueInv, IdInv, KnownInv, RestoreNext
    PROVE  KnownInv'
<1>1. /\ UNCHANGED <<rows, toService, up, restoring, listed, admit>> /\ (ThroughList' => ThroughList)
      /\ todo # <<>> /\ todo' = Tail(todo)
  BY DEF RestoreNext, RestoreReady, store, ThroughList
<1>2. PICK record : record = Head(todo)
  OBVIOUS
<1>3. record.req \in Requests /\ record.id \in Nat
  BY <1>1, <1>2, RecordTypes
<1>4. \/ InUse(record.id) /\ UNCHANGED <<toStore, encoders>>
      \/ Send(Op("remove", record.id, record.req, NoPath, "restore")) /\ UNCHANGED encoders
      \/ encoders' = Append(encoders, NewEncoder(record.id, record.req)) /\ UNCHANGED toStore
  BY <1>2 DEF RestoreNext
<1>5. BehindInv' /\ RemovalsStay /\ EncodersStay /\ (InUse(record.id) \/ Removing(record.id, toStore') \/ HasEncoder(record.id, encoders'))
  <2>1. CASE InUse(record.id) /\ UNCHANGED <<toStore, encoders>>
    BY <1>1, <2>1, SameStay, QuietBehind DEF KnownInv
  <2>2. CASE Send(Op("remove", record.id, record.req, NoPath, "restore")) /\ UNCHANGED encoders
    BY <1>3, <1>1, <2>2, SameStay, SentBehind DEF Op, Operations, NoPath, KnownInv
  <2>3. CASE encoders' = Append(encoders, NewEncoder(record.id, record.req)) /\ UNCHANGED toStore
    <3>1. EncodersStay /\ HasEncoder(record.id, encoders')
      BY <1>3, <2>3, AppendedStays
    <3> QED BY <1>1, <2>3, <3>1, SameStay, QuietBehind DEF KnownInv
  <2> QED BY <1>4, <2>1, <2>2, <2>3
<1>6. \A i \in DOMAIN todo : i = 1 \/ \E k \in DOMAIN todo' : todo'[k] = todo[i]
  <2>1. todo \in Seq(Records) /\ Len(todo) \in Nat /\ DOMAIN todo = 1 .. Len(todo)
    BY LenProperties DEF TypeOK
  <2>2. /\ todo' \in Seq(Records) /\ Len(todo') = Len(todo) - 1
        /\ \A k \in 1 .. Len(todo') : todo'[k] = todo[k + 1]
    BY <1>1, <2>1, HeadTailProperties
  <2>3. DOMAIN todo' = 1 .. Len(todo')
    BY <2>2, LenProperties
  <2> SUFFICES ASSUME NEW i \in DOMAIN todo, i # 1 PROVE \E k \in DOMAIN todo' : todo'[k] = todo[i]
    OBVIOUS
  <2>4. i - 1 \in 1 .. Len(todo') /\ (i - 1) + 1 = i
    BY <2>1, <2>2
  <2> QED BY <2>2, <2>3, <2>4
<1>7. record = todo[1]
  BY <1>1, <1>2, HeadTailProperties DEF TypeOK
<1>8. CoverInv'
  <2> SUFFICES ASSUME ThroughList', NEW id \in Nat, NEW r \in Requests, HasRow(id, r, rows')
               PROVE  Covered(id, r)'
    BY DEF CoverInv
  <2>1. HasRow(id, r, rows) /\ Covered(id, r)
    BY <1>1 DEF KnownInv, CoverInv
  <2>2. CASE record.id = id
    BY <2>1, InUseCovers, <1>1, <1>5, <2>2 DEF Covered, EncodersStay
  <2>3. CASE record.id # id
    <3>1. (\E i \in DOMAIN todo : todo[i].id = id) => \E k \in DOMAIN todo' : todo'[k].id = id
      BY <1>6, <1>7, <2>3
    <3> QED BY <1>1, <1>5, <2>1, <3>1 DEF Covered, EncodersStay, RemovalsStay
  <2> QED BY <2>2, <2>3
<1> QED BY <1>5, <1>8 DEF KnownInv

\* The operations that are left when the oldest one is done.
LEMMA TailKnown ==
    ASSUME TypeOK, BehindInv, toStore # <<>>, toStore' = Tail(toStore), UNCHANGED up
    PROVE  /\ BehindInv'
           /\ \A id : Removing(id, toStore) =>
                 Removing(id, toStore') \/ (Head(toStore).op = "remove" /\ Head(toStore).id = id)
<1>1. /\ Len(toStore) \in Nat \ {0} /\ DOMAIN toStore = 1 .. Len(toStore) /\ DOMAIN toStore' = 1 .. Len(toStore) - 1
      /\ \A k \in 1 .. Len(toStore) - 1 : toStore'[k] = toStore[k + 1]
      /\ Head(toStore) = toStore[1]
  BY TailTypes
<1>2. \A i \in DOMAIN toStore : i # 1 => i - 1 \in DOMAIN toStore' /\ toStore'[i - 1] = toStore[i]
  <2> SUFFICES ASSUME NEW i \in DOMAIN toStore, i # 1
               PROVE  i - 1 \in DOMAIN toStore' /\ toStore'[i - 1] = toStore[i]
    OBVIOUS
  <2>1. i - 1 \in 1 .. Len(toStore) - 1 /\ (i - 1) + 1 = i
    BY <1>1
  <2> QED BY <1>1, <2>1
<1>3. BehindInv'
  <2> SUFFICES ASSUME NEW i \in DOMAIN toStore', toStore'[i].op = "add", toStore'[i].by # "admit", up'
               PROVE  \E j \in DOMAIN toStore' : i < j /\ IsList(toStore'[j])
    BY DEF BehindInv, IsList
  <2>1. i \in Nat /\ i + 1 \in DOMAIN toStore /\ toStore'[i] = toStore[i + 1] /\ i >= 1
    BY <1>1
  <2>2. PICK j \in DOMAIN toStore : i + 1 < j /\ IsList(toStore[j])
    BY <2>1 DEF BehindInv
  <2>3. j - 1 \in DOMAIN toStore' /\ toStore'[j - 1] = toStore[j] /\ i < j - 1
    <3>1. j \in Nat /\ j # 1 /\ i < j - 1
      BY <1>1, <2>1, <2>2
    <3> QED BY <1>2, <3>1
  <2> QED BY <2>2, <2>3
<1>4. ASSUME NEW id, Removing(id, toStore)
      PROVE  Removing(id, toStore') \/ (Head(toStore).op = "remove" /\ Head(toStore).id = id)
  <2>1. PICK i \in DOMAIN toStore : toStore[i].op = "remove" /\ toStore[i].id = id
    BY <1>4 DEF Removing
  <2>2. CASE i = 1
    BY <1>1, <2>1, <2>2
  <2>3. CASE i # 1
    BY <1>2, <2>1, <2>3 DEF Removing
  <2> QED BY <2>2, <2>3
<1> QED BY <1>3, <1>4

\* What covers a record goes on doing so when the oldest operation is answered, but for the record it removes.
LEMMA ReturnedStays ==
    ASSUME TypeOK, QueueInv, NEW op \in Operations, Returned(op)
    PROVE  /\ \A id : HasEncoder(id, encoders) => HasEncoder(id, encoders') \/ (op.op = "remove" /\ id = op.id)
           /\ \A r \in Requests : admit[r].step # "none" =>
                 admit'[r].step # "none" \/ (op.op = "remove" /\ r = op.req)
<1>1. encoders \in Seq(EncoderStates) /\ DOMAIN encoders = 1 .. Len(encoders) /\ Len(encoders) \in Nat
  BY LenProperties DEF TypeOK
<1>2. CASE op.op = "output" /\ op.by = "encoder"
  BY <1>2, EncoderParts DEF Returned, EncoderStates, OutputRecorded, HasEncoder
<1>3. CASE op.op = "remove" /\ op.by = "encoder"
  <2>1. PICK i \in DOMAIN encoders : encoders[i].id = op.id /\ WithoutEncoder(i) /\ UNCHANGED admit
    BY <1>3 DEF Returned, EncoderDone
  <2>2. /\ DOMAIN encoders' = 1 .. Len(encoders) - 1
        /\ \A k \in 1 .. Len(encoders) - 1 : Shift(i, k) \in DOMAIN encoders \ {i} /\ encoders'[k] = encoders[Shift(i, k)]
    <3>1. encoders \in Seq(EncoderStates) /\ i \in DOMAIN encoders
      BY <1>1
    <3>2. /\ DOMAIN RemoveAt(encoders, i) = 1 .. Len(encoders) - 1
          /\ \A k \in 1 .. Len(encoders) - 1 : /\ Shift(i, k) \in DOMAIN encoders \ {i}
                                               /\ RemoveAt(encoders, i)[k] = encoders[Shift(i, k)]
      BY ONLY <3>1, EncodersShrink
    <3> QED BY <2>1, <3>2 DEF WithoutEncoder
  <2>3. ASSUME NEW m \in DOMAIN encoders, m # i
        PROVE  \E k \in DOMAIN encoders' : encoders'[k] = encoders[m]
    <3>1. CASE m < i
      BY <1>1, <3>1, <2>2 DEF Shift
    <3>2. CASE ~(m < i)
      <4>1. m - 1 \in 1 .. Len(encoders) - 1 /\ Shift(i, m - 1) = m
        BY <1>1, <2>3, <3>2 DEF Shift
      <4> QED BY <2>2, <4>1
    <3> QED BY <3>1, <3>2
  <2> QED BY <1>3, <2>1, <2>3 DEF HasEncoder
<1>4. CASE op.op = "remove" /\ op.by = "admit"
  BY <1>4 DEF Returned, Operations, RejectionDone, TypeOK
<1>5. CASE /\ ~(op.op = "output" /\ op.by = "encoder") /\ ~(op.op = "remove" /\ op.by = "encoder")
           /\ ~(op.op = "remove" /\ op.by = "admit")
  BY <1>5 DEF Returned, NobodyWaits
<1> QED BY <1>2, <1>3, <1>4, <1>5

\* A record is added for the admission that waits for it; the one that nobody waits for is
\* done while no service runs, or before the list that will have it.
LEMMA AddedKnown ==
    ASSUME TypeOK, QueueInv, ListInv, KnownInv, toStore # <<>>, toStore' = Tail(toStore), UNCHANGED <<toService, up>>,
           NEW op, op = Head(toStore), op.op = "add", NEW id \in Ids, AddRecord(op.req, id),
           IF op.by = "admit" THEN AddAnswered(op.req, id) ELSE NobodyWaits
    PROVE  KnownInv'
<1>1. 1 \in DOMAIN toStore /\ op = toStore[1] /\ op.req \in Requests /\ id \in Nat
  BY OldestOp, OperationParts, EncodeAssumption DEF Ids
<1>2. BehindInv' /\ RemovalsStay
  BY TailKnown DEF KnownInv, RemovalsStay
<1>3. UNCHANGED <<restoring, todo, listed>>
  BY DEF AddAnswered, NobodyWaits, restoration
<1>4. CASE op.by # "admit"
  BY <1>1, <1>4, <1>3, <1>2 DEF KnownInv, BehindInv, ListInv, CoverInv, ThroughList
<1>5. CASE op.by = "admit"
  <2>1. Enqueue(op.req, id)
    BY <1>5 DEF AddAnswered
  <2>2. EncodersStay /\ HasEncoder(id, encoders') /\ \A s \in Requests : s # op.req => admit'[s] = admit[s]
    BY <1>1, <2>1, EnqueueCovers
  <2>3. CoverInv'
    <3> SUFFICES ASSUME ThroughList', NEW a \in Nat, NEW s \in Requests, HasRow(a, s, rows')
                 PROVE  Covered(a, s)'
      BY DEF CoverInv
    <3>1. HasRow(a, s, rows) \/ (a = id /\ s = op.req)
      BY <1>1, RecordAdded DEF HasRow
    <3>2. CASE HasRow(a, s, rows)
      <4>1. Covered(a, s)
        BY <1>3, <3>2 DEF KnownInv, CoverInv, ThroughList
      <4>2. s # op.req
        BY <1>1, <3>2, RowIsTied DEF QueueInv, OneAdd
      <4> QED BY <1>2, <1>3, <2>2, <4>1, <4>2 DEF Covered, EncodersStay, RemovalsStay
    <3>3. CASE a = id
      BY <2>2, <3>3 DEF Covered
    <3> QED BY <3>1, <3>2, <3>3
  <2> QED BY <1>2, <2>3 DEF KnownInv
<1> QED BY <1>4, <1>5

\* A record is removed, and who worked for it is done.
LEMMA RemovedKnown ==
    ASSUME TypeOK, QueueInv, IdInv, KnownInv, toStore # <<>>, toStore' = Tail(toStore), UNCHANGED <<toService, up>>,
           NEW op, op = Head(toStore), op.op = "remove", DeleteRecord(op.id), Returned(op)
    PROVE  KnownInv'
<1>1. 1 \in DOMAIN toStore /\ op = toStore[1] /\ op \in Operations /\ op.req \in Requests /\ op.id \in Nat
  BY OldestOp, OperationParts
<1>2. BehindInv' /\ \A id : Removing(id, toStore) => Removing(id, toStore') \/ op.id = id
  BY TailKnown DEF KnownInv
<1>3. UNCHANGED <<restoring, todo, listed>>
  BY <1>1, ReturnedKeeps
<1>4. /\ \A id : HasEncoder(id, encoders) => HasEncoder(id, encoders') \/ id = op.id
      /\ \A r \in Requests : admit[r].step # "none" => admit'[r].step # "none" \/ r = op.req
  BY <1>1, ReturnedStays
<1>5. \A k \in DOMAIN rows' : rows'[k].id # op.id /\ \E l \in DOMAIN rows : rows'[k] = rows[l]
  BY RowGoes DEF IdInv, RecordInv
<1>6. CoverInv'
  <2> SUFFICES ASSUME ThroughList', NEW id \in Nat, NEW r \in Requests, HasRow(id, r, rows')
               PROVE  Covered(id, r)'
    BY DEF CoverInv
  <2>1. HasRow(id, r, rows) /\ id # op.id
    BY <1>5 DEF HasRow
  <2>2. Covered(id, r)
    BY <1>3, <2>1 DEF KnownInv, CoverInv, ThroughList
  <2>3. r # op.req
    BY <1>1, <2>1, RowIsTied DEF Tied, IdInv, TieInv
  <2> QED BY <1>2, <1>3, <1>4, <2>1, <2>2, <2>3 DEF Covered
<1> QED BY <1>2, <1>6 DEF KnownInv

LEMMA StoreStepKnown ==
    ASSUME TypeOK, QueueInv, IdInv, ListInv, KnownInv, StoreStep
    PROVE  KnownInv'
<1>1. PICK op : op = Head(toStore)
  OBVIOUS
<1>2. toStore # <<>> /\ toStore' = Tail(toStore) /\ UNCHANGED <<toService, up>>
  BY DEF StoreStep
<1>3. 1 \in DOMAIN toStore /\ op = toStore[1] /\ op \in Operations
  BY <1>1, <1>2, OldestOp
<1>4. BehindInv' /\ (op.op # "remove" => RemovalsStay)
  BY <1>1, <1>2, TailKnown DEF KnownInv, RemovalsStay
<1>5. ASSUME op.op # "remove", UNCHANGED <<restoring, todo, listed>>, NoNewRow, EncodersStay, AdmissionsStay
      PROVE  KnownInv'
  BY <1>2, <1>5, <1>4, CoverStays DEF ThroughList, KnownInv
<1>6. CASE op.op = "add"
  BY <1>1, <1>6, <1>2, AddedKnown DEF StoreStep
<1>7. CASE op.op = "abandon"
  <2>1. NobodyWaits
    BY <1>1, <1>7 DEF StoreStep
  <2>2. NoNewRow
    <3>1. ASSUME NEW id, DeleteRecord(id) PROVE NoNewRow
      BY <3>1, RowGoes DEF IdInv, RecordInv, NoNewRow, HasRow
    <3> QED BY <1>1, <1>7, <3>1, SameStay DEF StoreStep, store
  <2> QED BY <1>5, <1>7, <2>1, <2>2, SameStay DEF NobodyWaits, restoration
<1>8. CASE op.op = "output"
  <2>1. /\ Returned(op)
        /\ rows' = [i \in DOMAIN rows |->
                       IF rows[i].id = op.id THEN [rows[i] EXCEPT !.out = op.out] ELSE rows[i]]
    BY <1>1, <1>8 DEF StoreStep
  <2>2. NoNewRow
    BY RowParts, <2>1 DEF Records, NoNewRow, HasRow
  <2>3. UNCHANGED <<restoring, todo, listed>>
    BY <1>3, <2>1, ReturnedKeeps
  <2>4. EncodersStay /\ AdmissionsStay
    BY <1>3, <1>8, <2>1, ReturnedStays DEF EncodersStay, AdmissionsStay
  <2> QED BY <1>5, <1>8, <2>2, <2>3, <2>4
<1>9. CASE op.op = "remove"
  BY <1>1, <1>9, <1>2, RemovedKnown DEF StoreStep
<1>10. CASE op.op = "list"
  <2>1. UNCHANGED rows /\ IF op.by = "restore" THEN Listed ELSE NobodyWaits
    BY <1>1, <1>10 DEF StoreStep, store
  <2>2. CASE op.by = "restore"
    <3>1. todo' \in ListedRecords
      BY <2>1, <2>2 DEF Listed
    <3>2. \A id \in RowIds : \E k \in DOMAIN todo' : todo'[k].id = id
      BY <3>1, ListedApart DEF IdInv, RecordInv
    <3>3. \A id, r : HasRow(id, r, rows') => id \in RowIds
      BY <2>1 DEF HasRow, RowIds
    <3>4. CoverInv'
      BY <3>2, <3>3 DEF CoverInv, Covered
    <3> QED BY <1>4, <3>4 DEF KnownInv
  <2>3. CASE op.by # "restore"
    BY <1>5, <1>10, <2>1, <2>3, SameStay DEF NobodyWaits, restoration
  <2> QED BY <2>2, <2>3
<1> QED BY <1>1, <1>6, <1>7, <1>8, <1>9, <1>10 DEF StoreStep

\* The list fails, and the timer will try again; any other call that fails is a fault.
LEMMA CallFailsKnown ==
    ASSUME TypeOK, KnownInv, NEW i \in DOMAIN toStore, NEW dropped \in BOOLEAN, CallFails(i, dropped), NoFault'
    PROVE  KnownInv'
<1>1. PICK op : op = toStore[i]
  OBVIOUS
<1>2. op.op = "list" /\ dropped
  BY <1>1, FaultRaises DEF CallFails
<1>3. i = 1 /\ ListFailed /\ toStore' = Tail(toStore) /\ UNCHANGED up
  BY <1>1, <1>2 DEF CallFails
<1>4. toStore # <<>>
  BY <1>3, LenProperties DEF TypeOK
<1>5. BehindInv'
  BY <1>3, <1>4, TailKnown DEF KnownInv
<1>6. CoverInv'
  BY <1>3 DEF ListFailed, CoverInv, ThroughList
<1> QED BY <1>5, <1>6 DEF KnownInv

-----------------------------------------------------------------------------

LEMMA NextIds ==
    ASSUME EnoughIds, TypeOK, QueueInv, nextId \in Ids, IdInv, ListInv, [Next]_vars
    PROVE  IdInv' /\ ListInv'
<1>1. CASE UNCHANGED vars \/ TimerFires \/ SuspendBegins \/ SuspendEnds \/ RestoreEnd
  BY <1>1, ClockIds, ClockList
<1>2. ASSUME NEW r \in Requests, TakeLock(r) \/ PushEnter(r) \/ Acquire(r) \/ AcquireRefused(r)
      PROVE  IdInv' /\ ListInv'
  BY <1>2, AdmissionIds, AdmissionList
<1>3. ASSUME NEW r \in Requests, EnqueueFromRecording(r) PROVE IdInv' /\ ListInv'
  BY <1>3, EnqueueFromRecordingIds, AdmissionList
<1>4. CASE HandOver
  BY <1>4, HandOverIds, HandOverList
<1>5. CASE StoreStep
  BY <1>5, StoreStepIds, StoreStepList
<1>6. CASE CheckQueue
  BY <1>6, CheckQueueIds, CheckQueueList
<1>7. CASE ServiceStart \/ RetryList
  BY <1>7, RestorationIds, RestorationList
<1>8. CASE RestoreNext \/ RestoreNextFails
  BY <1>8, RestoreNextIds, RestoreNextList
<1>9. ASSUME NEW i \in DOMAIN encoders,
             \/ StartDone(i) \/ ExitWell(i) \/ ExitBadly(i) \/ Register(i, TRUE) \/ Register(i, FALSE)
             \/ DeleteOriginal(i) \/ Finalize(i) \/ StartFails(i) \/ CancelRunning(i)
      PROVE  IdInv' /\ ListInv'
  BY <1>9, EncoderStepIds, EncoderStepList
<1>10. ASSUME NEW i \in DOMAIN encoders, ReleaseEncoder(i) \/ CancelWaiting(i) PROVE IdInv' /\ ListInv'
  BY <1>10, EncoderEndIds, EncoderEndList
<1>11. ASSUME NEW i \in DOMAIN toStore, NEW dropped \in BOOLEAN, CallFails(i, dropped) PROVE IdInv' /\ ListInv'
  BY <1>11, CallFailsIds, CallFailsList
<1>12. ASSUME NEW n \in 0 .. Len(toStore), ServiceCrash(n) PROVE IdInv' /\ ListInv'
  BY <1>12, ServiceCrashIds, CrashList
<1>13. CASE WholeCrash
  BY <1>13, WholeCrashIds, CrashList
<1> QED BY <1>1, <1>2, <1>3, <1>4, <1>5, <1>6, <1>7, <1>8, <1>9, <1>10, <1>11, <1>12, <1>13
        DEF Next, Progress, Environment

LEMMA NextKnown ==
    ASSUME EnoughIds, TypeOK, QueueInv, nextId \in Ids, IdInv, ListInv, KnownInv, [Next]_vars, NoFault'
    PROVE  KnownInv'
<1>1. CASE UNCHANGED vars \/ TimerFires \/ SuspendBegins \/ SuspendEnds \/ RestoreEnd
  BY <1>1, ClockKnown
<1>2. ASSUME NEW r \in Requests, TakeLock(r) \/ PushEnter(r) PROVE KnownInv'
  BY <1>2, AdmissionKnown
<1>3. ASSUME NEW r \in Requests, EnqueueFromRecording(r) PROVE KnownInv'
  BY <1>3, EnqueueFromRecordingKnown
<1>4. CASE HandOver
  BY <1>4, HandOverKnown
<1>5. CASE StoreStep
  BY <1>5, StoreStepKnown
<1>6. CASE CheckQueue
  BY <1>6, CheckQueueKnown
<1>7. CASE ServiceStart \/ RetryList
  BY <1>7, RestorationKnown
<1>8. CASE RestoreNext
  BY <1>8, RestoreNextKnown
<1>9. ASSUME NEW i \in DOMAIN encoders,
             \/ StartDone(i) \/ ExitWell(i) \/ ExitBadly(i) \/ Register(i, TRUE) \/ Register(i, FALSE)
             \/ DeleteOriginal(i) \/ Finalize(i) \/ StartFails(i) \/ CancelRunning(i)
      PROVE  KnownInv'
  BY <1>9, EncoderStepKnown
<1>10. ASSUME NEW i \in DOMAIN encoders, ReleaseEncoder(i) \/ CancelWaiting(i) PROVE KnownInv'
  BY <1>10, EncoderEndKnown
<1>11. ASSUME NEW i \in DOMAIN toStore, NEW dropped \in BOOLEAN, CallFails(i, dropped) PROVE KnownInv'
  BY <1>11, CallFailsKnown
<1>12. CASE WholeCrash \/ \E n \in 0 .. Len(toStore) : ServiceCrash(n)
  BY <1>12, CrashKnown
<1>13. ASSUME NEW r \in Requests, Acquire(r) PROVE KnownInv'
  BY <1>13, AcquireKnown
<1>14. CASE RestoreNextFails \/ \E r \in Requests : AcquireRefused(r)
  BY <1>14, FaultRaises DEF RestoreNextFails, AcquireRefused
<1> QED BY <1>1, <1>2, <1>3, <1>4, <1>5, <1>6, <1>7, <1>8, <1>9, <1>10, <1>11, <1>12, <1>13, <1>14
        DEF Next, Progress, Environment

LEMMA InitIds ==
    ASSUME EnoughIds, Init
    PROVE  IdInv /\ ListInv /\ KnownInv
<1>1. /\ DOMAIN rows = {} /\ DOMAIN toStore = {} /\ DOMAIN toService = {} /\ DOMAIN todo = {} /\ DOMAIN encoders = {}
      /\ tokens = {} /\ listed = {} /\ ~up /\ restoring = "off" /\ todo = <<>>
      /\ \A r \in Requests : admit[r].step = "none" /\ job[r] = "new"
  BY DEF Init, Idle
<1>2. \A r, a : ~Tied(r, a)
  BY <1>1, EncodeAssumption DEF Tied, Named
<1>3. TieInv /\ AheadInv
  BY <1>1, <1>2 DEF TieInv, AheadInv, Used
<1>4. RecordInv
  BY <1>1 DEF RecordInv
<1>5. ListInv /\ KnownInv
  BY <1>1 DEF ListInv, KnownInv, BehindInv, CoverInv, ThroughList
<1> QED BY <1>3, <1>4, <1>5 DEF IdInv

\* No accepted request is lost, over crashes and failing calls: its record is in the database
\* until its removal is asked for; and as long as no call but list() has failed, a service that
\* is through with its restoration knows every record.  The ids must suffice: an id that is
\* handed out again while something still remembers it would be taken for the old request's.
THEOREM NoRequestIsLost ==
    ASSUME EnoughIds
    PROVE  Spec => []NoRequestLost
<1> DEFINE Inv == /\ TypeOK /\ QueueInv /\ nextId \in Ids /\ IdInv /\ ListInv
                  /\ NoFault => KnownInv
<1>1. Init => Inv
  BY InitTypes, InitQueues, InitIds, EncodeAssumption DEF Init, Ids
<1>2. Inv /\ [Next]_vars => Inv'
  BY NextKeeps, NextIdStays, NextIds, NextCounts, NextKnown DEF NoFault
<1>3. Inv => NoRequestLost
  <2> SUFFICES ASSUME Inv PROVE NoRequestLost
    OBVIOUS
  <2>1. \A r \in Requests : job[r] = "open" => \E k \in DOMAIN rows : rows[k].req = r
    BY DEF IdInv, RecordInv
  <2>2. ASSUME up, restoring = "off", faults.fault = 0, NEW k \in DOMAIN rows
        PROVE  \/ \E i \in DOMAIN encoders : encoders[i].id = rows[k].id
               \/ \E i \in DOMAIN toService : toService[i].id = rows[k].id
               \/ admit[rows[k].req] # Idle
               \/ \E i \in DOMAIN toStore : toStore[i].op = "remove" /\ toStore[i].id = rows[k].id
    <3>1. Covered(rows[k].id, rows[k].req)
      BY <2>2, RowParts DEF NoFault, KnownInv, CoverInv, ThroughList, HasRow
    <3>2. DOMAIN todo = {}
      BY <2>2 DEF ListInv
    <3>3. admit[rows[k].req].step # "none" => admit[rows[k].req] # Idle
      BY DEF Idle
    <3> QED BY <3>1, <3>2, <3>3 DEF Covered, HasEncoder, Removing
  <2> QED BY <2>1, <2>2 DEF NoRequestLost
<1> HIDE DEF Inv
<1> QED BY <1>1, <1>2, <1>3, PTL DEF Spec
=============================================================================
