-------------------------- MODULE EPGUpdateProofs --------------------------
(***************************************************************************)
(* Theorems about EPGUpdate, for every set of programmes and every bound:   *)
(* the feed counts as alive only after a synchronisation that belongs to    *)
(* the connection there is; while it is alive, the table, the changes that  *)
(* are queued and the services that are marked account for all that the     *)
(* server holds; and a batch of changes that is postponed and put back in   *)
(* its reduced form loses nothing that was in it.                           *)
(***************************************************************************)
EXTENDS EPGUpdate, FiniteSetTheorems, SequenceTheorems, TLAPS

-----------------------------------------------------------------------------
(* The inductive invariant. *)

Event == [id : Programs, version : Nat]
Kinds == {"none", "sync", "poll", "onair", "updated", "program"}
Steps == {"idle", "fetch", "commit", "save"}
Causes == {"thinned", "old queue", "clean end", "mark lost", "sync failed", "row failed"}
Cycles == [kind : Kinds, step : Steps, gen : Nat, full : BOOLEAN, batch : Seq(Event),
           ids : SUBSET Programs, snapshot : [Programs -> Nat], renewed : SUBSET Programs]
Budgets == [{"ends", "failures", "crashes"} -> Nat]

\* The variables have the values that the code can give them.
TypeOK ==
    /\ product \in Products /\ server \in [Programs -> Nat] /\ changes \in 0 .. MaxChanges
    /\ feed \in {"open", "closed"} /\ window \in {"none", "open", "past"}
    /\ latest \in 0 .. MaxConnects /\ aborted \in BOOLEAN
    /\ syncs \in Seq(Nat) /\ alive \in BOOLEAN /\ pending \in BOOLEAN /\ due \in 0 .. 2
    /\ queue \in Seq(Event) /\ marks \in [onair : SUBSET Programs, updated : SUBSET Programs]
    /\ cycle \in Cycles
    /\ db \in [Programs -> Nat] /\ dirty \in BOOLEAN /\ synced \in 0 .. latest
    /\ budget \in Budgets /\ excuse \subseteq Causes

\* What a cycle of each kind is made of; Mirakurun's changes are queued, mirakc's are marked.
CycleFits ==
    /\ (cycle.step = "idle") <=> (cycle.kind = "none")
    /\ (cycle.step = "save") <=> (cycle.kind = "program")
    /\ cycle.kind # "program" => cycle.batch = <<>>
    /\ cycle.kind \in {"sync", "poll"} => cycle.ids = Programs
    /\ cycle.kind \in {"onair", "updated"} => product = "mirakc"
    /\ product = "mirakurun" => marks = NoMarks
    /\ product = "mirakc" => queue = <<>> /\ cycle.batch = <<>>

\* The synchronisations that wait are those of the last starts of the feed, in order, and
\* behind the one that is under way.
SyncsInOrder ==
    /\ \A i \in 1 .. Len(syncs) :
          /\ syncs[i] <= latest
          /\ cycle.kind = "sync" => cycle.gen < syncs[i]
          /\ \A j \in 1 .. Len(syncs) : i < j => syncs[i] < syncs[j]
    /\ cycle.kind = "sync" => cycle.gen <= latest

\* While the last start of the feed is still to be synchronised and has not been aborted,
\* its connection stands.
LatestIsOpen ==
    \/ "clean end" \in excuse \/ aborted \/ feed = "open"
    \/ /\ \A i \in 1 .. Len(syncs) : syncs[i] # latest
       /\ cycle.kind = "sync" => cycle.gen # latest

\* A feed that is alive has nothing left to synchronise and is not polled.
AliveIsSettled ==
    alive /\ "clean end" \notin excuse => syncs = <<>> /\ cycle.kind \notin {"sync", "poll"}

\* A connection that is synchronised is alive.
SyncedIsAlive ==
    /\ feed = "open" => ~aborted
    /\ feed = "open" /\ synced = latest => alive

Shape == TypeOK /\ CycleFits
FeedInv == SyncsInOrder /\ LatestIsOpen /\ AliveIsSettled /\ SyncedIsAlive /\ AliveIsSynced

\* The changes that have been reported and are not in the table: those that are being saved,
\* then those that are queued.
Awaiting == cycle.batch \o queue
Marked(p) == p \in marks.onair \cup marks.updated
Untroubled == feed = "open" /\ excuse = {}

\* On an untroubled connection the last change that waits for a programme is what the
\* server has.
QueueIsCurrent ==
    Untroubled => \A p \in Touched(Awaiting) : LastOf(Awaiting, p).version = server[p]

\* What the server has answered is what it has, up to the changes it has reported since.
AnswerIsCurrent ==
    Untroubled /\ cycle.step = "commit" =>
        /\ cycle.kind = "sync" /\ cycle.gen = latest =>
              \A p \in Programs : p \in Touched(queue) \/ Marked(p) \/ cycle.snapshot[p] = server[p]
        /\ cycle.kind = "onair" /\ synced = latest =>
              \A p \in cycle.ids : p \in cycle.renewed \cup marks.updated \/ cycle.snapshot[p] = server[p]
        /\ cycle.kind = "updated" /\ synced = latest =>
              \A p \in cycle.ids : p \in cycle.renewed \cup marks.onair \/ cycle.snapshot[p] = server[p]

\* Once the connection is synchronised, the table is what the server has, up to the changes
\* that wait and the services that are marked.
TableIsCurrent ==
    Untroubled /\ synced = latest =>
        \A p \in Programs : p \in Touched(Awaiting) \/ Marked(p) \/ db[p] = server[p]

GuideInv == QueueIsCurrent /\ AnswerIsCurrent /\ TableIsCurrent

\* While the feed is alive no change of the server is forgotten, unless one of the causes
\* that the code does not make good has occurred: a programme is in the table as the server
\* has it, or its last version waits in the queue, or its service is marked to be fetched.
NothingForgotten ==
    alive /\ excuse = {} =>
        \A p \in Programs :
            IF p \in Touched(Awaiting) THEN LastOf(Awaiting, p).version = server[p]
                                       ELSE Marked(p) \/ db[p] = server[p]

-----------------------------------------------------------------------------
(* A batch of changes, and the batch as it is put back. *)

\* The last change of a programme in a batch exists: deleteIndex and updateIndex look it up.
LEMMA LastOfProperties ==
    ASSUME NEW b \in Seq(Event), NEW p \in Touched(b)
    PROVE  /\ LastOf(b, p) \in Event /\ LastOf(b, p).id = p
           /\ \E i \in 1 .. Len(b) :
                 /\ b[i] = LastOf(b, p)
                 /\ \A j \in 1 .. Len(b) : b[j].id = p => j <= i
<1> DEFINE at == {i \in 1 .. Len(b) : b[i].id = p}
           back == {Len(b) - i : i \in at}
           last == CHOOSE i \in at : \A j \in at : j <= i
<1>1. Len(b) \in Nat /\ \A i \in 1 .. Len(b) : b[i] \in Event
  BY LenProperties, ElementOfSeq
<1>2. PICK k \in 1 .. Len(b) : b[k].id = p
  BY DEF Touched
<1>3. back \subseteq Nat
  BY <1>1
<1>4. Len(b) - k \in back
  BY <1>2
<1>5. PICK d \in back : \A e \in back : ~(<<e, d>> \in OpToRel(<, Nat))
  BY <1>3, <1>4, NatLessThanWellFounded, WFMin
<1>6. PICK i \in at : d = Len(b) - i
  BY <1>5
<1>7. \A j \in at : j <= i
  <2> SUFFICES ASSUME NEW j \in at, ~(j <= i) PROVE FALSE
    OBVIOUS
  <2>1. Len(b) - j \in back /\ Len(b) - j \in Nat /\ d \in Nat /\ Len(b) - j < d
    BY <1>1, <1>3, <1>6
  <2>2. <<Len(b) - j, d>> \in OpToRel(<, Nat)
    BY <2>1 DEF OpToRel
  <2> QED BY <1>5, <2>1, <2>2
<1>8. last \in at /\ \A j \in at : j <= last
  BY <1>7
<1>9. LastOf(b, p) = b[last]
  BY DEF LastOf
<1> QED BY <1>1, <1>8, <1>9

\* The last change of a programme is known by its place.
LEMMA LastOfIs ==
    ASSUME NEW b \in Seq(Event), NEW i \in 1 .. Len(b),
           \A j \in 1 .. Len(b) : b[j].id = b[i].id => j <= i
    PROVE  LastOf(b, b[i].id) = b[i]
<1>1. b[i].id \in Touched(b)
  BY DEF Touched
<1>2. PICK k \in 1 .. Len(b) : /\ b[k] = LastOf(b, b[i].id)
                               /\ \A j \in 1 .. Len(b) : b[j].id = b[i].id => j <= k
  BY <1>1, LastOfProperties
<1>3. b[k].id = b[i].id
  BY <1>1, <1>2, LastOfProperties
<1>4. k = i
  BY <1>2, <1>3, LenProperties
<1> QED BY <1>2, <1>4

\* A batch touches finitely many programmes.
LEMMA TouchedFinite ==
    ASSUME NEW b \in Seq(Event)
    PROVE  Touched(b) \subseteq Programs /\ IsFiniteSet(Touched(b))
<1>1. Len(b) \in Nat /\ \A i \in 1 .. Len(b) : b[i] \in Event
  BY LenProperties, ElementOfSeq
<1>2. Touched(b) \subseteq Programs
  BY <1>1 DEF Touched, Event
<1> DEFINE f == [i \in 1 .. Len(b) |-> b[i].id]
<1>3. f \in Surjection(1 .. Len(b), Touched(b))
  BY DEF Touched, Surjection
<1>4. IsFiniteSet(1 .. Len(b))
  BY <1>1, FS_Interval
<1>5. IsFiniteSet(Touched(b))
  BY <1>3, <1>4, FS_Surjection DEF ExistsSurjection
<1> QED BY <1>2, <1>5

\* The elements of a finite set can be put in a sequence, each once.
LEMMA SetToSeqProperties ==
    ASSUME NEW S, IsFiniteSet(S)
    PROVE  /\ Cardinality(S) \in Nat
           /\ SetToSeq(S) \in [1 .. Cardinality(S) -> S]
           /\ \A i, j \in 1 .. Cardinality(S) : SetToSeq(S)[i] = SetToSeq(S)[j] => i = j
           /\ \A x \in S : \E i \in 1 .. Cardinality(S) : SetToSeq(S)[i] = x
<1> DEFINE n == Cardinality(S)
           f == SetToSeq(S)
<1>1. n \in Nat /\ ExistsBijection(1 .. n, S)
  BY FS_CardinalityType
<1>2. PICK g : g \in Bijection(1 .. n, S)
  BY <1>1 DEF ExistsBijection
<1>3. g \in [1 .. n -> S] /\ IsInjective(g)
  BY <1>2 DEF Bijection, Injection, IsInjective
<1>4. f \in [1 .. n -> S] /\ IsInjective(f)
  BY <1>3 DEF SetToSeq
<1>5. f \in Injection(1 .. n, S)
  BY <1>4 DEF Injection, IsInjective
<1>6. IsFiniteSet(1 .. n) /\ Cardinality(1 .. n) = n
  BY <1>1, FS_Interval
<1>7. f \in Surjection(1 .. n, S)
  BY <1>5, <1>6, FS_Injection DEF ExistsInjection
<1> QED BY <1>1, <1>4, <1>7 DEF IsInjective, Surjection

\* The last changes of some of the programmes of a batch, each once.
EventsOf(b, ids) == [i \in 1 .. Cardinality(ids) |-> LastOf(b, SetToSeq(ids)[i])]

\* Every element of EventsOf is the last change of its programme, and every one of the
\* programmes has an element.
LEMMA EventsOfProperties ==
    ASSUME NEW b \in Seq(Event), NEW ids \in SUBSET Touched(b)
    PROVE  /\ EventsOf(b, ids) \in Seq(Event)
           /\ \A i \in 1 .. Len(EventsOf(b, ids)) :
                 /\ EventsOf(b, ids)[i].id \in ids
                 /\ EventsOf(b, ids)[i] = LastOf(b, EventsOf(b, ids)[i].id)
           /\ \A p \in ids : \E i \in 1 .. Len(EventsOf(b, ids)) : EventsOf(b, ids)[i].id = p
<1> DEFINE n == Cardinality(ids)
           f == SetToSeq(ids)
           z == EventsOf(b, ids)
<1>1. IsFiniteSet(ids)
  BY TouchedFinite, FS_Subset
<1>2. /\ n \in Nat /\ f \in [1 .. n -> ids]
      /\ \A p \in ids : \E i \in 1 .. n : f[i] = p
  BY <1>1, SetToSeqProperties
<1>3. \A i \in 1 .. n : /\ z[i] = LastOf(b, f[i]) /\ f[i] \in ids
                        /\ z[i] \in Event /\ z[i].id = f[i]
  BY <1>2, LastOfProperties DEF EventsOf
<1>4. z = [i \in 1 .. n |-> LastOf(b, f[i])]
  BY DEF EventsOf
<1> HIDE DEF z, f, n
<1>5. z \in [1 .. n -> Event]
  BY <1>3, <1>4
<1>6. z \in Seq(Event) /\ Len(z) = n
  BY <1>2, <1>5, SeqDef, LenProperties
<1>7. /\ \A i \in 1 .. Len(z) : z[i].id \in ids /\ z[i] = LastOf(b, z[i].id)
      /\ \A p \in ids : \E i \in 1 .. Len(z) : z[i].id = p
  <2>1. \A i \in 1 .. Len(z) : z[i].id \in ids /\ z[i] = LastOf(b, z[i].id)
    BY <1>3, <1>6
  <2>2. ASSUME NEW p \in ids PROVE \E i \in 1 .. Len(z) : z[i].id = p
    BY <1>2, <1>3, <1>6
  <2> QED BY <2>1, <2>2
<1> QED BY <1>6, <1>7 DEF z

\* It does not matter in which order three batches are put together.
LEMMA JoinedTwice ==
    \A a, b, c \in Seq(Event) : (a \o b) \o c = a \o (b \o c)
  BY ConcatAssociative

\* A sequence of changes behind another: its changes are the last ones.
LEMMA ConcatLast ==
    ASSUME NEW a \in Seq(Event), NEW b \in Seq(Event)
    PROVE  /\ a \o b \in Seq(Event)
           /\ Touched(a \o b) = Touched(a) \cup Touched(b)
           /\ \A p \in Touched(b) : LastOf(a \o b, p) = LastOf(b, p)
           /\ \A p \in Touched(a) \ Touched(b) : LastOf(a \o b, p) = LastOf(a, p)
<1> DEFINE z == a \o b
<1>1. /\ z \in Seq(Event) /\ Len(a) \in Nat /\ Len(b) \in Nat /\ Len(z) = Len(a) + Len(b)
      /\ \A i \in 1 .. Len(z) : z[i] = IF i <= Len(a) THEN a[i] ELSE b[i - Len(a)]
  BY ConcatProperties, LenProperties
<1> HIDE DEF z
<1>2. \A i \in 1 .. Len(a) : i \in 1 .. Len(z) /\ z[i] = a[i]
  BY <1>1
<1>3. \A i \in 1 .. Len(b) : Len(a) + i \in 1 .. Len(z) /\ z[Len(a) + i] = b[i]
  <2> SUFFICES ASSUME NEW i \in 1 .. Len(b)
               PROVE  Len(a) + i \in 1 .. Len(z) /\ z[Len(a) + i] = b[i]
    OBVIOUS
  <2>1. Len(a) + i \in 1 .. Len(z) /\ ~(Len(a) + i <= Len(a)) /\ Len(a) + i - Len(a) = i
    BY <1>1
  <2> QED BY <1>1, <2>1
<1>4. \A i \in 1 .. Len(z) : i \in 1 .. Len(a) \/ (i - Len(a) \in 1 .. Len(b) /\ z[i] = b[i - Len(a)])
  BY <1>1
<1>5. Touched(z) = Touched(a) \cup Touched(b)
  <2>1. Touched(z) \subseteq Touched(a) \cup Touched(b)
    BY <1>2, <1>4 DEF Touched
  <2>2. Touched(a) \subseteq Touched(z)
    BY <1>2 DEF Touched
  <2>3. Touched(b) \subseteq Touched(z)
    <3> SUFFICES ASSUME NEW i \in 1 .. Len(b) PROVE b[i].id \in Touched(z)
      BY DEF Touched
    <3> QED BY <1>3 DEF Touched
  <2> QED BY <2>1, <2>2, <2>3
<1>6. ASSUME NEW p \in Touched(b) PROVE LastOf(z, p) = LastOf(b, p)
  <2>1. PICK i \in 1 .. Len(b) : /\ b[i] = LastOf(b, p) /\ LastOf(b, p).id = p
                                 /\ \A j \in 1 .. Len(b) : b[j].id = p => j <= i
    BY LastOfProperties
  <2>2. Len(a) + i \in 1 .. Len(z) /\ z[Len(a) + i] = b[i] /\ z[Len(a) + i].id = p
    BY <1>3, <2>1
  <2>3. ASSUME NEW j \in 1 .. Len(z), z[j].id = p PROVE j <= Len(a) + i
    <3>1. CASE j \in 1 .. Len(a)
      BY <1>1, <3>1
    <3>2. CASE j - Len(a) \in 1 .. Len(b) /\ z[j] = b[j - Len(a)]
      <4>1. j - Len(a) <= i
        BY <2>1, <2>3, <3>2
      <4> QED BY <1>1, <4>1
    <3> QED BY <1>4, <3>1, <3>2
  <2>4. LastOf(z, z[Len(a) + i].id) = z[Len(a) + i]
    BY <1>1, <2>2, <2>3, LastOfIs
  <2> QED BY <2>1, <2>2, <2>4
<1>7. ASSUME NEW p \in Touched(a) \ Touched(b) PROVE LastOf(z, p) = LastOf(a, p)
  <2>1. PICK i \in 1 .. Len(a) : /\ a[i] = LastOf(a, p) /\ LastOf(a, p).id = p
                                 /\ \A j \in 1 .. Len(a) : a[j].id = p => j <= i
    BY LastOfProperties
  <2>2. i \in 1 .. Len(z) /\ z[i] = a[i] /\ z[i].id = p
    BY <1>2, <2>1
  <2>3. ASSUME NEW j \in 1 .. Len(z), z[j].id = p PROVE j <= i
    <3>1. CASE j \in 1 .. Len(a)
      BY <1>2, <2>1, <2>3, <3>1
    <3>2. CASE j - Len(a) \in 1 .. Len(b) /\ z[j] = b[j - Len(a)]
      BY <2>3, <3>2 DEF Touched
    <3> QED BY <1>4, <3>1, <3>2
  <2>4. LastOf(z, z[i].id) = z[i]
    BY <1>1, <2>2, <2>3, LastOfIs
  <2> QED BY <2>1, <2>2, <2>4
<1> QED BY <1>1, <1>5, <1>6, <1>7 DEF z

\* A batch that is put back in its reduced form has the same last change for every programme
\* and no other programme.
LEMMA ReducedProperties ==
    ASSUME NEW b \in Seq(Event)
    PROVE  /\ Reduced(b) \in Seq(Event)
           /\ Touched(Reduced(b)) = Touched(b)
           /\ \A p \in Touched(b) : LastOf(Reduced(b), p) = LastOf(b, p)
<1> DEFINE x == EventsOf(b, Removed(b))
           y == EventsOf(b, Updated(b))
           z == Reduced(b)
<1>1. Removed(b) \subseteq Touched(b) /\ Updated(b) = Touched(b) \ Removed(b)
  BY DEF Removed, Updated
<1>2. z = x \o y
  BY DEF Reduced, EventsOf
<1>3. /\ x \in Seq(Event) /\ y \in Seq(Event)
      /\ \A i \in 1 .. Len(x) : x[i].id \in Removed(b) /\ x[i] = LastOf(b, x[i].id)
      /\ \A i \in 1 .. Len(y) : y[i].id \in Updated(b) /\ y[i] = LastOf(b, y[i].id)
      /\ \A p \in Removed(b) : \E i \in 1 .. Len(x) : x[i].id = p
      /\ \A p \in Updated(b) : \E i \in 1 .. Len(y) : y[i].id = p
  BY <1>1, EventsOfProperties
<1> HIDE DEF x, y, z
<1>4. Touched(x) = Removed(b) /\ Touched(y) = Updated(b)
  BY <1>3 DEF Touched
<1>7. /\ z \in Seq(Event) /\ Touched(z) = Touched(x) \cup Touched(y)
      /\ \A p \in Touched(y) : LastOf(z, p) = LastOf(y, p)
      /\ \A p \in Touched(x) \ Touched(y) : LastOf(z, p) = LastOf(x, p)
  BY ONLY <1>2, <1>3, ConcatLast
<1>5. z \in Seq(Event) /\ Touched(z) = Touched(b)
  BY <1>1, <1>4, <1>7
<1>6. ASSUME NEW p \in Touched(b) PROVE LastOf(z, p) = LastOf(b, p)
  <2>1. CASE p \in Removed(b)
    <3>1. PICK i \in 1 .. Len(x) : x[i] = LastOf(x, p) /\ LastOf(x, p).id = p
      BY <1>3, <1>4, <2>1, LastOfProperties
    <3> QED BY <1>1, <1>3, <1>4, <1>7, <2>1, <3>1
  <2>2. CASE p \in Updated(b)
    <3>1. PICK i \in 1 .. Len(y) : y[i] = LastOf(y, p) /\ LastOf(y, p).id = p
      BY <1>3, <1>4, <2>2, LastOfProperties
    <3> QED BY <1>3, <1>4, <1>7, <2>2, <3>1
  <2> QED BY <1>1, <2>1, <2>2
<1> QED BY <1>5, <1>6 DEF z

\* What Mirakurun's adapter appends to the queue is the last change of its programme.
LEMMA AppendLast ==
    ASSUME NEW b \in Seq(Event), NEW e \in Event
    PROVE  /\ Append(b, e) \in Seq(Event)
           /\ Touched(Append(b, e)) = Touched(b) \cup {e.id}
           /\ LastOf(Append(b, e), e.id) = e
           /\ \A p \in Touched(b) \ {e.id} : LastOf(Append(b, e), p) = LastOf(b, p)
<1> DEFINE s == <<e>>
           z == Append(b, e)
<1>1. s \in Seq(Event) /\ Len(s) = 1 /\ s[1] = e
  OBVIOUS
<1>2. z = b \o s
  BY AppendIsConcat
<1> HIDE DEF s, z
<1>3. Touched(s) = {e.id}
  BY <1>1 DEF Touched
<1>4. LastOf(s, e.id) = e
  BY SMTT(30), <1>1, LastOfIs
<1>5. /\ z \in Seq(Event) /\ Touched(z) = Touched(b) \cup Touched(s)
      /\ \A p \in Touched(s) : LastOf(z, p) = LastOf(s, p)
      /\ \A p \in Touched(b) \ Touched(s) : LastOf(z, p) = LastOf(b, p)
  BY <1>1, <1>2, ConcatLast
<1> QED BY <1>3, <1>4, <1>5 DEF z

\* Nothing is lost by the reduction of a postponed batch: saved later, it leaves the same
\* table (saveProgram, deleteIndex and updateIndex), whichever rows fail.
THEOREM ReductionLosesNothing ==
    \A b \in Seq(Event) : \A lost \in SUBSET Programs : Saved(Reduced(b), lost) = Saved(b, lost)
BY ReducedProperties DEF Saved

-----------------------------------------------------------------------------
(* The steps and the inductive invariant. *)

\* Type correctness at the start.
LEMMA ShapeInit == Init => Shape
<1> SUFFICES ASSUME Init PROVE Shape
  OBVIOUS
<1>1. <<>> \in Seq(Event) /\ <<>> \in Seq(Nat)
  OBVIOUS
<1>2. cycle \in Cycles
  BY <1>1 DEF Init, Idle, Cycles, Kinds, Steps
<1>3. changes \in 0 .. MaxChanges /\ latest \in 0 .. MaxConnects
  BY EPGAssumption DEF Init
<1>8. budget \in Budgets
  <2>1. budget = [what \in {"ends", "failures", "crashes"} |-> 0]
    BY DEF Init
  <2> QED BY <2>1 DEF Budgets
<1>4. CycleFits
  BY DEF Init, CycleFits, Idle, NoMarks
<1>5. /\ server \in [Programs -> Nat] /\ db \in [Programs -> Nat]
      /\ marks \in [onair : SUBSET Programs, updated : SUBSET Programs] /\ excuse \subseteq Causes
  BY DEF Init, NoMarks
<1>6. /\ product \in Products /\ feed = "closed" /\ window = "none"
      /\ syncs = <<>> /\ queue = <<>>
  BY DEF Init
<1>9. /\ aborted \in BOOLEAN /\ alive \in BOOLEAN /\ pending \in BOOLEAN /\ dirty \in BOOLEAN
      /\ due \in 0 .. 2 /\ synced \in 0 .. latest
  <2>1. aborted = FALSE /\ alive = FALSE /\ pending = FALSE /\ dirty = FALSE
    BY DEF Init
  <2>2. due = 2 /\ synced = 0 /\ latest = 0
    BY DEF Init
  <2>3. due \in 0 .. 2 /\ synced \in 0 .. latest
    BY <2>2
  <2> QED BY <2>1, <2>3
<1>10. /\ product \in Products /\ feed \in {"open", "closed"} /\ window \in {"none", "open", "past"}
       /\ syncs \in Seq(Nat) /\ queue \in Seq(Event)
  BY <1>1, <1>6
<1>7. TypeOK
  BY <1>2, <1>3, <1>5, <1>8, <1>9, <1>10 DEF TypeOK
<1> QED BY <1>4, <1>7 DEF Shape

\* The bounds on what may go wrong are counted.
LEMMA SpendShape ==
    ASSUME Shape, NEW what \in {"ends", "failures", "crashes"}, NEW bound, Spend(what, bound)
    PROVE  budget' \in Budgets
BY DEF Spend, Shape, TypeOK, Budgets

\* The cycle of a service is marked anew when its service is reported (consumeChange).
LEMMA MarkShape ==
    ASSUME Shape, NEW p \in Programs, NEW kind \in {"onair", "updated"}, Mark(p, kind),
           product = "mirakc"
    PROVE  /\ marks' \in [onair : SUBSET Programs, updated : SUBSET Programs]
           /\ cycle' \in Cycles
           /\ cycle'.step = cycle.step /\ cycle'.kind = cycle.kind /\ cycle'.gen = cycle.gen
           /\ cycle'.batch = cycle.batch /\ cycle'.ids = cycle.ids
           /\ cycle'.snapshot = cycle.snapshot
           /\ \A q \in Programs : Marked(q) => Marked(q)'
           /\ Marked(p)'
           /\ cycle.renewed \subseteq cycle'.renewed
           /\ cycle.kind = kind => p \in cycle'.renewed
           /\ marks.onair \subseteq marks'.onair /\ marks.updated \subseteq marks'.updated
           /\ p \in marks'[kind]
<1>1. marks' \in [onair : SUBSET Programs, updated : SUBSET Programs]
  BY DEF Mark, Shape, TypeOK
<1>2. cycle' \in Cycles
  BY DEF Mark, Shape, TypeOK, Cycles
<1> QED BY <1>1, <1>2 DEF Mark, Shape, TypeOK, Cycles, Marked

\* A change on the server keeps the types.
LEMMA ShapeChange ==
    ASSUME Shape, NEW p \in Programs, Change(p)
    PROVE  Shape'
<1> USE DEF feedVars, stored
<1>1. PICK version \in {changes + 1} \cup (IF server[p] = 0 THEN {} ELSE {0}) :
          /\ server' = [server EXCEPT ![p] = version]
          /\ IF feed = "closed"
             THEN UNCHANGED <<window, queue, marks, cycle, excuse>>
             ELSE ReportProgram(p, version) \/ ReportOnAir(p) \/ ReportUpdated(p)
  BY DEF Change
<1>2. version \in Nat /\ changes' \in 0 .. MaxChanges
  BY EPGAssumption DEF Change, Shape, TypeOK
<1>3. server' \in [Programs -> Nat]
  BY <1>1, <1>2 DEF Shape, TypeOK
<1>4. /\ UNCHANGED <<product, feed, latest, aborted, syncs, alive, pending, due, stored, synced, budget>>
  BY DEF Change
<1>5. CASE feed = "closed"
  BY <1>1, <1>2, <1>3, <1>4, <1>5 DEF Shape, TypeOK, CycleFits
<1>6. CASE ReportProgram(p, version)
  <2>1. [id |-> p, version |-> version] \in Event
    BY <1>2 DEF Event
  <2>2. queue' \in Seq(Event)
    BY <1>6, <2>1, AppendLast DEF ReportProgram, Shape, TypeOK
  <2> QED BY <1>2, <1>3, <1>4, <1>6, <2>2 DEF ReportProgram, Shape, TypeOK, CycleFits
<1>7. CASE ReportOnAir(p)
  <2>1. Mark(p, "onair") /\ product = "mirakc" /\ UNCHANGED <<window, queue, excuse>>
    BY <1>7 DEF ReportOnAir
  <2>2. /\ marks' \in [onair : SUBSET Programs, updated : SUBSET Programs]
        /\ cycle' \in Cycles
        /\ cycle'.step = cycle.step /\ cycle'.kind = cycle.kind
        /\ cycle'.batch = cycle.batch /\ cycle'.ids = cycle.ids
    BY <2>1, MarkShape
  <2> QED BY <1>2, <1>3, <1>4, <2>1, <2>2 DEF Shape, TypeOK, CycleFits
<1>8. CASE ReportUpdated(p)
  <2>1. /\ product = "mirakc" /\ queue' = queue
        /\ window' = IF window = "none" THEN "open" ELSE window
    BY <1>8 DEF ReportUpdated
  <2>2. CASE window = "past"
    <3>1. Mark(p, "updated") /\ UNCHANGED excuse
      BY <1>8, <2>2 DEF ReportUpdated
    <3>2. /\ marks' \in [onair : SUBSET Programs, updated : SUBSET Programs]
          /\ cycle' \in Cycles
          /\ cycle'.step = cycle.step /\ cycle'.kind = cycle.kind
          /\ cycle'.batch = cycle.batch /\ cycle'.ids = cycle.ids
      BY <2>1, <3>1, MarkShape
    <3> QED BY <1>2, <1>3, <1>4, <2>1, <3>1, <3>2 DEF Shape, TypeOK, CycleFits
  <2>3. CASE window # "past"
    <3>1. excuse' \subseteq excuse \cup {"thinned"} /\ UNCHANGED <<marks, cycle>>
      BY <1>8, <2>3 DEF ReportUpdated
    <3>2. excuse' \subseteq Causes
      BY <3>1 DEF Shape, TypeOK, Causes
    <3> QED BY <1>2, <1>3, <1>4, <2>1, <3>1, <3>2 DEF Shape, TypeOK, CycleFits
  <2> QED BY <2>2, <2>3
<1> QED BY <1>1, <1>5, <1>6, <1>7, <1>8

\* Everything else that happens to the feed, and the passing of time, keep the types.
LEMMA ShapeFeed ==
    ASSUME Shape, WindowPasses \/ Connect \/ Abort \/ CleanEnd \/ Tick \/ TimePasses \/ Crash
    PROVE  Shape'
<1> USE EPGAssumption DEF feedVars, stored
<1>0. <<>> \in Seq(Event) /\ <<>> \in Seq(Nat) /\ Idle \in Cycles
  <2>1. <<>> \in Seq(Event) /\ <<>> \in Seq(Nat)
    OBVIOUS
  <2> QED BY <2>1 DEF Idle, Cycles, Kinds, Steps
<1>1. CASE WindowPasses
  BY <1>1 DEF WindowPasses, Shape, TypeOK, CycleFits
<1>2. CASE Connect
  <2>0. /\ latest + 1 \in Nat /\ syncs \in Seq(Nat) /\ latest \in 0 .. MaxConnects
        /\ synced \in 0 .. latest
    BY DEF Shape, TypeOK
  <2>1. latest' \in 0 .. MaxConnects /\ synced' \in 0 .. latest'
    <3>1. latest < MaxConnects /\ latest' = latest + 1 /\ synced' = synced
      BY <1>2 DEF Connect
    <3> QED BY <2>0, <3>1
  <2>3. syncs' \in Seq(Nat)
    <3>1. syncs' = Append(syncs, latest + 1)
      BY <1>2 DEF Connect
    <3> QED BY ONLY <2>0, <3>1, AppendProperties
  <2>2. excuse' \subseteq Causes
    BY <1>2 DEF Connect, Shape, TypeOK, Causes
  <2> QED BY <1>2, <2>1, <2>2, <2>3 DEF Connect, Shape, TypeOK, CycleFits
<1>3. CASE Abort
  BY <1>3 DEF Abort, Shape, TypeOK, CycleFits
<1>4. CASE CleanEnd
  <2>1. budget' \in Budgets
    BY <1>4, SpendShape DEF CleanEnd
  <2>2. excuse' \subseteq Causes
    BY <1>4 DEF CleanEnd, Shape, TypeOK, Causes
  <2> QED BY <1>4, <2>1, <2>2 DEF CleanEnd, Shape, TypeOK, CycleFits
<1>5. CASE Tick
  BY <1>5 DEF Tick, Shape, TypeOK, CycleFits
<1>6. CASE TimePasses
  BY <1>6 DEF TimePasses, Shape, TypeOK, CycleFits
<1>7. CASE Crash
  <2>1. budget' \in Budgets
    BY <1>7, SpendShape DEF Crash
  <2>2. CycleFits'
    <3>1. marks' = NoMarks /\ queue' = <<>> /\ cycle' = Idle /\ product' = product
      BY <1>7 DEF Crash
    <3>2. Idle.kind = "none" /\ Idle.step = "idle" /\ Idle.batch = <<>>
      BY DEF Idle
    <3> QED BY <3>1, <3>2 DEF CycleFits
  <2>3. NoMarks \in [onair : SUBSET Programs, updated : SUBSET Programs]
    BY DEF NoMarks
  <2> HIDE DEF Idle, NoMarks
  <2>4. TypeOK'
    <3>1. /\ feed' = "closed" /\ window' = "none" /\ aborted' = FALSE
          /\ alive' = FALSE /\ pending' = FALSE /\ due' = 2
      BY <1>7 DEF Crash
    <3>3. syncs' \in Seq(Nat) /\ queue' \in Seq(Event) /\ cycle' \in Cycles
      BY <1>0, <1>7 DEF Crash
    <3>4. marks' \in [onair : SUBSET Programs, updated : SUBSET Programs]
      BY <2>3, <1>7 DEF Crash
    <3>2. UNCHANGED <<product, server, changes, latest, stored, synced, excuse>>
      BY <1>7 DEF Crash
    <3>5. aborted' \in BOOLEAN /\ alive' \in BOOLEAN /\ pending' \in BOOLEAN
      BY <3>1
    <3>6. due' \in 0 .. 2
      BY <3>1
    <3>7. dirty' \in BOOLEAN
      BY <3>2 DEF Shape, TypeOK
    <3>8. synced' \in 0 .. latest' /\ excuse' \subseteq Causes
      BY <3>2 DEF Shape, TypeOK
    <3> QED BY <2>1, <3>1, <3>2, <3>3, <3>4, <3>5, <3>6, <3>7, <3>8 DEF Shape, TypeOK
  <2> QED BY <2>2, <2>4 DEF Shape
<1> QED BY <1>1, <1>2, <1>3, <1>4, <1>5, <1>6, <1>7


\* A cycle that asks the server has the shape of its kind.
LEMMA AskingShape ==
    ASSUME NEW kind \in {"sync", "poll", "onair", "updated"}, NEW gen \in Nat,
           NEW full \in BOOLEAN, NEW ids \in SUBSET Programs
    PROVE  /\ Asking(kind, gen, full, ids) \in Cycles
           /\ Asking(kind, gen, full, ids).kind = kind /\ Asking(kind, gen, full, ids).step = "fetch"
           /\ Asking(kind, gen, full, ids).gen = gen /\ Asking(kind, gen, full, ids).ids = ids
           /\ Asking(kind, gen, full, ids).batch = <<>> /\ Asking(kind, gen, full, ids).renewed = {}
<1>1. <<>> \in Seq(Event)
  OBVIOUS
<1> QED BY <1>1 DEF Asking, Idle, Cycles, Kinds, Steps

\* A cycle that asks the server for all programmes: a synchronisation or a poll (updateAll).
LEMMA AskingAllShape ==
    ASSUME NEW kind \in {"sync", "poll"}, NEW gen \in Nat, NEW full \in BOOLEAN,
           cycle' = Asking(kind, gen, full, Programs)
    PROVE  /\ cycle' \in Cycles /\ cycle'.kind = kind /\ cycle'.step = "fetch"
           /\ cycle'.gen = gen /\ cycle'.ids = Programs /\ cycle'.batch = <<>>
<1>1. kind \in {"sync", "poll", "onair", "updated"} /\ Programs \in SUBSET Programs
  OBVIOUS
<1>2. /\ Asking(kind, gen, full, Programs) \in Cycles
      /\ Asking(kind, gen, full, Programs).kind = kind
      /\ Asking(kind, gen, full, Programs).step = "fetch"
      /\ Asking(kind, gen, full, Programs).gen = gen
      /\ Asking(kind, gen, full, Programs).ids = Programs
      /\ Asking(kind, gen, full, Programs).batch = <<>>
  BY <1>1, AskingShape
<1> QED BY <1>2

\* A cycle that asks the server for the marked services (saveMirakcServices).
LEMMA AskingMarkedShape ==
    ASSUME NEW kind \in {"onair", "updated"}, NEW full \in BOOLEAN, NEW ids \in SUBSET Programs,
           cycle' = Asking(kind, 0, full, ids)
    PROVE  /\ cycle' \in Cycles /\ cycle'.kind = kind /\ cycle'.step = "fetch"
           /\ cycle'.ids = ids /\ cycle'.batch = <<>>
<1>1. kind \in {"sync", "poll", "onair", "updated"} /\ 0 \in Nat
  OBVIOUS
<1>2. /\ Asking(kind, 0, full, ids) \in Cycles
      /\ Asking(kind, 0, full, ids).kind = kind /\ Asking(kind, 0, full, ids).step = "fetch"
      /\ Asking(kind, 0, full, ids).ids = ids /\ Asking(kind, 0, full, ids).batch = <<>>
  BY <1>1, AskingShape
<1> QED BY <1>2

\* Between two cycles nothing is being saved.
LEMMA IdleShape ==
    /\ Idle \in Cycles /\ Idle.kind = "none" /\ Idle.step = "idle" /\ Idle.batch = <<>>
<1>1. <<>> \in Seq(Event)
  OBVIOUS
<1> QED BY <1>1 DEF Idle, Cycles, Kinds, Steps

\* What is known after the on-air services (AfterOnAir).
LEMMA AfterOnAirShape ==
    ASSUME Shape, NEW full \in BOOLEAN, AfterOnAir(full), product = "mirakc",
           marks' \in [onair : SUBSET Programs, updated : SUBSET Programs]
    PROVE  /\ due' \in 0 .. 2 /\ cycle' \in Cycles
           /\ cycle'.batch = <<>>
           /\ \/ cycle'.kind = "none" /\ cycle'.step = "idle"
              \/ cycle'.kind = "updated" /\ cycle'.step = "fetch"
<1>1. due' \in 0 .. 2
  BY DEF AfterOnAir, Shape, TypeOK
<1>2. marks'.updated \in SUBSET Programs
  OBVIOUS
<1>3. CASE cycle' = Asking("updated", 0, TRUE, marks'.updated)
  <2>1. cycle' \in Cycles /\ cycle'.batch = <<>> /\ cycle'.kind = "updated" /\ cycle'.step = "fetch"
    BY <1>2, <1>3, AskingMarkedShape
  <2> QED BY <1>1, <2>1
<1>4. CASE cycle' = Idle
  BY <1>1, <1>4, IdleShape
<1> QED BY <1>3, <1>4 DEF AfterOnAir

\* A batch that is written, if need be without some rows, leaves a version of every programme.
LEMMA SavedShape ==
    ASSUME Shape, NEW b \in Seq(Event), NEW lost
    PROVE  Saved(b, lost) \in [Programs -> Nat]
<1>1. ASSUME NEW p \in Programs
      PROVE  (IF p \in Touched(b) \ lost THEN LastOf(b, p).version ELSE db[p]) \in Nat
  <2>1. CASE p \in Touched(b) \ lost
    <3>1. LastOf(b, p) \in Event
      BY <2>1, LastOfProperties
    <3> QED BY <2>1, <3>1 DEF Event
  <2>2. CASE p \notin Touched(b) \ lost
    BY <2>2 DEF Shape, TypeOK
  <2> QED BY <2>1, <2>2
<1> QED BY <1>1 DEF Saved

\* The ways in which a periodic cycle begins (updatePeriodically).
LEMMA PeriodicCases ==
    ASSUME Shape, BeginPeriodic
    PROVE  \E full \in BOOLEAN :
              \/ /\ alive /\ product = "mirakurun" /\ BeginSave(full) /\ UNCHANGED marks
              \/ /\ alive /\ product = "mirakc" /\ cycle' = Asking("onair", 0, full, marks.onair)
                 /\ UNCHANGED <<due, queue, marks, dirty>>
              \/ /\ alive /\ product = "mirakc" /\ UNCHANGED <<marks, queue>> /\ AfterOnAir(full)
                 /\ dirty' = (dirty /\ ~full)
              \/ /\ ~alive /\ cycle' = Asking("poll", 0, TRUE, Programs)
                 /\ UNCHANGED <<due, queue, marks, dirty>>
              \/ UNCHANGED <<due, queue, marks, cycle, dirty>>
<1> DEFINE full == due >= 1
<1>1. full \in BOOLEAN
  OBVIOUS
<1>2. CASE alive /\ product = "mirakurun"
  <2>1. BeginSave(full) /\ UNCHANGED marks
    BY <1>2 DEF BeginPeriodic
  <2> HIDE DEF full
  <2> QED BY <1>1, <1>2, <2>1
<1>3. CASE alive /\ product = "mirakc" /\ marks.onair # {}
  <2>1. /\ cycle' = Asking("onair", 0, full, marks.onair)
        /\ UNCHANGED <<due, queue, marks, dirty>>
    BY <1>3 DEF BeginPeriodic
  <2> HIDE DEF full
  <2> QED BY <1>1, <1>3, <2>1
<1>4. CASE alive /\ product = "mirakc" /\ marks.onair = {}
  <2>1. UNCHANGED <<marks, queue>> /\ AfterOnAir(full) /\ dirty' = (dirty /\ ~full)
    BY <1>4 DEF BeginPeriodic
  <2> HIDE DEF full
  <2> QED BY <1>1, <1>4, <2>1
<1>5. CASE ~alive /\ due = 2
  <2>1. cycle' = Asking("poll", 0, TRUE, Programs) /\ UNCHANGED <<due, queue, marks, dirty>>
    BY <1>5 DEF BeginPeriodic
  <2> QED BY <1>1, <1>5, <2>1
<1>6. CASE ~alive /\ due # 2
  <2>1. UNCHANGED <<due, queue, marks, cycle, dirty>>
    BY <1>6 DEF BeginPeriodic
  <2> QED BY <1>1, <2>1
<1>7. product \in {"mirakurun", "mirakc"}
  BY EPGAssumption DEF Shape, TypeOK
<1> QED BY <1>2, <1>3, <1>4, <1>5, <1>6, <1>7

\* The beginnings of the cycles keep the types.
LEMMA ShapeBegin ==
    ASSUME Shape, BeginSync \/ BeginPeriodic
    PROVE  Shape'
<1> USE DEF feedVars, stored
<1>1. CASE BeginSync
  <2>1. syncs \in Seq(Nat) /\ syncs # <<>>
    BY <1>1 DEF BeginSync, Shape, TypeOK
  <2>2. Head(syncs) \in Nat /\ Tail(syncs) \in Seq(Nat)
    BY ONLY <2>1, HeadTailProperties
  <2>3. cycle' = Asking("sync", Head(syncs), FALSE, Programs) /\ syncs' = Tail(syncs)
    BY <1>1 DEF BeginSync
  <2>4. /\ cycle' \in Cycles /\ cycle'.kind = "sync" /\ cycle'.step = "fetch"
        /\ cycle'.ids = Programs /\ cycle'.batch = <<>>
    BY <2>2, <2>3, AskingAllShape
  <2>5. UNCHANGED <<product, server, changes, feedVars, alive, pending, due, queue, marks, stored,
                    synced, budget, excuse>>
    BY <1>1 DEF BeginSync
  <2>6. syncs' \in Seq(Nat)
    BY <2>2, <2>3
  <2> QED BY <2>4, <2>5, <2>6 DEF Shape, TypeOK, CycleFits
<1>2. CASE BeginPeriodic
  <2>1. /\ UNCHANGED <<product, server, changes, feedVars, syncs, alive, db, synced, budget, excuse>>
        /\ pending' = FALSE /\ cycle.step = "idle"
    BY <1>2 DEF BeginPeriodic
  <2>2. pending' \in BOOLEAN
    BY <2>1
  <2>3. /\ cycle' \in Cycles /\ due' \in 0 .. 2 /\ dirty' \in BOOLEAN /\ queue' \in Seq(Event)
        /\ marks' = marks
        /\ CycleFits'
    <3>1. PICK full \in BOOLEAN :
              \/ /\ alive /\ product = "mirakurun" /\ BeginSave(full) /\ UNCHANGED marks
              \/ /\ alive /\ product = "mirakc" /\ cycle' = Asking("onair", 0, full, marks.onair)
                 /\ UNCHANGED <<due, queue, marks, dirty>>
              \/ /\ alive /\ product = "mirakc" /\ UNCHANGED <<marks, queue>> /\ AfterOnAir(full)
                 /\ dirty' = (dirty /\ ~full)
              \/ /\ ~alive /\ cycle' = Asking("poll", 0, TRUE, Programs)
                 /\ UNCHANGED <<due, queue, marks, dirty>>
              \/ UNCHANGED <<due, queue, marks, cycle, dirty>>
      BY <1>2, PeriodicCases
    <3>2. CASE product = "mirakurun" /\ BeginSave(full) /\ UNCHANGED marks
      <4>1. CASE /\ cycle' = [Idle EXCEPT !.kind = "program", !.step = "save", !.full = full, !.batch = queue]
                 /\ queue' = <<>> /\ UNCHANGED <<due, dirty>>
        <5>1. queue' \in Seq(Event) /\ queue \in Seq(Event)
          BY <4>1 DEF Shape, TypeOK
        <5>2. /\ cycle' \in Cycles /\ cycle'.kind = "program" /\ cycle'.step = "save"
          BY <4>1, <5>1, IdleShape DEF Cycles, Kinds, Steps
        <5> QED BY <2>1, <3>2, <4>1, <5>1, <5>2 DEF Shape, TypeOK, CycleFits
      <4>2. CASE /\ queue' = Reduced(queue) /\ due' = IF full THEN 0 ELSE due
                 /\ dirty' = (dirty /\ ~full) /\ UNCHANGED cycle
        <5>1. queue' \in Seq(Event)
          BY <4>2, ReducedProperties DEF Shape, TypeOK
        <5>2. due' \in 0 .. 2
          BY <4>2 DEF Shape, TypeOK
        <5>3. dirty' \in BOOLEAN
          BY <4>2
        <5> QED BY <2>1, <3>2, <4>2, <5>1, <5>2, <5>3 DEF Shape, TypeOK, CycleFits
      <4> QED BY <3>2, <4>1, <4>2 DEF BeginSave
    <3>3. CASE /\ product = "mirakc" /\ cycle' = Asking("onair", 0, full, marks.onair)
               /\ UNCHANGED <<due, queue, marks, dirty>>
      <4>1. marks.onair \in SUBSET Programs
        BY DEF Shape, TypeOK
      <4>2. /\ cycle' \in Cycles /\ cycle'.kind = "onair" /\ cycle'.step = "fetch" /\ cycle'.batch = <<>>
        BY <3>3, <4>1, AskingMarkedShape
      <4> QED BY <2>1, <3>3, <4>2 DEF Shape, TypeOK, CycleFits
    <3>4. CASE /\ product = "mirakc" /\ UNCHANGED <<marks, queue>> /\ AfterOnAir(full)
               /\ dirty' = (dirty /\ ~full)
      <4>1. marks' \in [onair : SUBSET Programs, updated : SUBSET Programs]
        BY <3>4 DEF Shape, TypeOK
      <4>2. /\ due' \in 0 .. 2 /\ cycle' \in Cycles /\ cycle'.batch = <<>>
            /\ \/ cycle'.kind = "none" /\ cycle'.step = "idle"
               \/ cycle'.kind = "updated" /\ cycle'.step = "fetch"
        BY <3>4, <4>1, AfterOnAirShape
      <4>3. dirty' \in BOOLEAN
        BY <3>4
      <4> QED BY <2>1, <3>4, <4>2, <4>3 DEF Shape, TypeOK, CycleFits
    <3>5. CASE /\ cycle' = Asking("poll", 0, TRUE, Programs)
               /\ UNCHANGED <<due, queue, marks, dirty>>
      <4>2. /\ cycle' \in Cycles /\ cycle'.kind = "poll" /\ cycle'.step = "fetch"
            /\ cycle'.batch = <<>> /\ cycle'.ids = Programs
        BY <3>5, AskingAllShape
      <4> QED BY <2>1, <3>5, <4>2 DEF Shape, TypeOK, CycleFits
    <3>6. CASE UNCHANGED <<due, queue, marks, cycle, dirty>>
      BY <2>1, <3>6 DEF Shape, TypeOK, CycleFits
    <3> QED BY <3>1, <3>2, <3>3, <3>4, <3>5, <3>6
  <2> QED BY <2>1, <2>2, <2>3 DEF Shape, TypeOK
<1> QED BY <1>1, <1>2

\* The table with the answer of the server in it (ProgramDB.insert).
Written == [p \in Programs |-> IF p \in cycle.ids THEN cycle.snapshot[p] ELSE db[p]]

\* What a write does, by the kind of the cycle.
LEMMA CommitCases ==
    ASSUME Shape, Commit
    PROVE  /\ cycle.step = "commit" /\ db' = Written /\ Written \in [Programs -> Nat]
           /\ excuse' = excuse \cup (IF cycle.kind \in {"onair", "updated"} /\ cycle.renewed # {}
                                    THEN {"mark lost"} ELSE {})
           /\ UNCHANGED <<product, server, changes, feedVars, syncs, pending, queue, budget>>
           /\ \/ cycle.kind = "sync" /\ SyncOver /\ dirty' = FALSE
              \/ /\ cycle.kind = "poll" /\ cycle' = Idle /\ due' = 0 /\ dirty' = FALSE
                 /\ UNCHANGED <<alive, synced, marks>>
              \/ /\ cycle.kind = "onair" /\ marks' = [marks EXCEPT !.onair = @ \ cycle.ids]
                 /\ AfterOnAir(cycle.full) /\ dirty' \in BOOLEAN /\ UNCHANGED <<alive, synced>>
              \/ /\ cycle.kind = "updated" /\ marks' = [marks EXCEPT !.updated = @ \ cycle.ids]
                 /\ cycle' = Idle /\ dirty' \in BOOLEAN /\ UNCHANGED <<alive, synced, due>>
<1>1. cycle.step = "commit" /\ cycle.kind \in {"sync", "poll", "onair", "updated"}
  BY DEF Commit, Shape, CycleFits, TypeOK, Cycles, Kinds
<1>2. Written \in [Programs -> Nat]
  <2>1. ASSUME NEW p \in Programs
        PROVE  (IF p \in cycle.ids THEN cycle.snapshot[p] ELSE db[p]) \in Nat
    BY DEF Shape, TypeOK, Cycles
  <2> QED BY <2>1 DEF Written
<1>3. /\ db' = Written
      /\ excuse' = excuse \cup (IF cycle.kind \in {"onair", "updated"} /\ cycle.renewed # {}
                               THEN {"mark lost"} ELSE {})
      /\ UNCHANGED <<product, server, changes, feedVars, syncs, pending, queue, budget>>
  BY DEF Commit, Written
<1>4. CASE cycle.kind = "sync"
  BY <1>1, <1>2, <1>3, <1>4 DEF Commit
<1>5. CASE cycle.kind = "poll"
  BY <1>1, <1>2, <1>3, <1>5 DEF Commit, PollOver
<1>6. CASE cycle.kind = "onair"
  <2>1. /\ marks' = [marks EXCEPT !.onair = @ \ cycle.ids]
        /\ AfterOnAir(cycle.full) /\ UNCHANGED <<alive, synced>>
    BY <1>6 DEF Commit
  <2>2. dirty' \in BOOLEAN
    BY <1>6 DEF Commit
  <2> QED BY <1>1, <1>2, <1>3, <1>6, <2>1, <2>2
<1>7. CASE cycle.kind = "updated"
  <2>1. /\ marks' = [marks EXCEPT !.updated = @ \ cycle.ids]
        /\ cycle' = Idle /\ UNCHANGED <<alive, synced, due>>
    BY <1>7 DEF Commit
  <2>2. dirty' \in BOOLEAN
    BY <1>7 DEF Commit
  <2> QED BY <1>1, <1>2, <1>3, <1>7, <2>1, <2>2
<1> QED BY <1>1, <1>4, <1>5, <1>6, <1>7

\* The end of a synchronisation keeps the types.
LEMMA SyncOverShape ==
    ASSUME Shape, SyncsInOrder, SyncOver, cycle.kind = "sync"
    PROVE  /\ alive' \in BOOLEAN /\ synced' \in 0 .. latest /\ due' \in 0 .. 2
           /\ cycle' = Idle /\ marks' = marks
<1>1. alive' \in BOOLEAN
  BY DEF SyncOver, Enlivened, Shape, TypeOK
<1>2. synced' \in 0 .. latest
  BY DEF SyncOver, SyncsInOrder, Shape, TypeOK, Cycles
<1>3. due' \in 0 .. 2
  BY DEF SyncOver
<1> QED BY <1>1, <1>2, <1>3 DEF SyncOver

\* The end of a cycle keeps the types.
LEMMA ShapeEnd ==
    ASSUME Shape, SyncsInOrder, Commit \/ CycleFails
    PROVE  Shape'
<1> USE DEF feedVars, stored
<1>1. CASE Commit
  <2>1. /\ db' \in [Programs -> Nat]
        /\ UNCHANGED <<product, server, changes, feedVars, syncs, pending, queue, budget>>
    BY <1>1, CommitCases
  <2>2. excuse' \subseteq Causes
    <3>1. excuse' \subseteq excuse \cup {"mark lost"}
      BY <1>1, CommitCases
    <3> QED BY <3>1 DEF Shape, TypeOK, Causes
  <2>3. CASE cycle.kind = "sync" /\ SyncOver /\ dirty' = FALSE
    <3>1. /\ alive' \in BOOLEAN /\ synced' \in 0 .. latest /\ due' \in 0 .. 2
          /\ cycle' = Idle /\ marks' = marks
      BY <2>3, SyncOverShape
    <3>2. dirty' \in BOOLEAN
      BY <2>3
    <3> QED BY <2>1, <2>2, <3>1, <3>2, IdleShape DEF Shape, TypeOK, CycleFits
  <2>4. CASE /\ cycle' = Idle /\ due' = 0 /\ dirty' = FALSE
             /\ UNCHANGED <<alive, synced, marks>>
    <3>1. due' \in 0 .. 2
      BY <2>4
    <3>2. dirty' \in BOOLEAN
      BY <2>4
    <3> QED BY <2>1, <2>2, <2>4, <3>1, <3>2, IdleShape DEF Shape, TypeOK, CycleFits
  <2>5. CASE /\ cycle.kind = "onair" /\ marks' = [marks EXCEPT !.onair = @ \ cycle.ids]
             /\ AfterOnAir(cycle.full) /\ dirty' \in BOOLEAN /\ UNCHANGED <<alive, synced>>
    <3>1. cycle.full \in BOOLEAN /\ product = "mirakc"
      BY <2>5 DEF Shape, TypeOK, Cycles, CycleFits
    <3>2. marks' \in [onair : SUBSET Programs, updated : SUBSET Programs]
      BY <2>5 DEF Shape, TypeOK
    <3>3. /\ due' \in 0 .. 2 /\ cycle' \in Cycles /\ cycle'.batch = <<>>
          /\ \/ cycle'.kind = "none" /\ cycle'.step = "idle"
             \/ cycle'.kind = "updated" /\ cycle'.step = "fetch"
      BY <2>5, <3>1, <3>2, AfterOnAirShape
    <3> QED BY <2>1, <2>2, <2>5, <3>1, <3>2, <3>3 DEF Shape, TypeOK, CycleFits
  <2>6. CASE /\ cycle.kind = "updated" /\ marks' = [marks EXCEPT !.updated = @ \ cycle.ids]
             /\ cycle' = Idle /\ dirty' \in BOOLEAN /\ UNCHANGED <<alive, synced, due>>
    <3>1. product = "mirakc"
      BY <2>6 DEF Shape, CycleFits
    <3>2. marks' \in [onair : SUBSET Programs, updated : SUBSET Programs]
      BY <2>6 DEF Shape, TypeOK
    <3> QED BY <2>1, <2>2, <2>6, <3>1, <3>2, IdleShape DEF Shape, TypeOK, CycleFits
  <2> QED BY <1>1, <2>3, <2>4, <2>5, <2>6, CommitCases
<1>2. CASE CycleFails
  <2>1. /\ UNCHANGED <<product, server, changes, feedVars, syncs, pending, queue, stored>>
        /\ Spend("failures", MaxFailures)
    BY <1>2 DEF CycleFails
  <2>2. budget' \in Budgets
    BY <2>1, SpendShape
  <2>3. CASE cycle.kind = "sync"
    <3>1. SyncOver /\ excuse' = excuse \cup {"sync failed"}
      BY <1>2, <2>3 DEF CycleFails
    <3>2. /\ alive' \in BOOLEAN /\ synced' \in 0 .. latest /\ due' \in 0 .. 2
          /\ cycle' = Idle /\ marks' = marks
      BY <2>3, <3>1, SyncOverShape
    <3>3. excuse' \subseteq Causes
      BY <3>1 DEF Shape, TypeOK, Causes
    <3> QED BY <2>1, <2>2, <3>2, <3>3, IdleShape DEF Shape, TypeOK, CycleFits
  <2>4. CASE cycle.kind # "sync"
    <3>1. cycle' = Idle /\ UNCHANGED <<alive, synced, due, marks, excuse>>
      BY <1>2, <2>4 DEF CycleFails
    <3> QED BY <2>1, <2>2, <3>1, IdleShape DEF Shape, TypeOK, CycleFits
  <2> QED BY <2>3, <2>4
<1> QED BY <1>1, <1>2

\* The requests and the writes keep the types.
LEMMA ShapeWrite ==
    ASSUME Shape, Fetch \/ SaveDone \/ SavePartly \/ SaveFails
    PROVE  Shape'
<1> USE DEF feedVars, stored
<1>0. cycle.batch \in Seq(Event) /\ queue \in Seq(Event)
  BY DEF Shape, TypeOK, Cycles
<1>1. CASE Fetch
  <2>1. cycle' = [cycle EXCEPT !.step = "commit", !.snapshot = server, !.renewed = {}]
    BY <1>1 DEF Fetch
  <2>2. /\ cycle' \in Cycles /\ cycle'.kind = cycle.kind /\ cycle'.step = "commit"
        /\ cycle'.batch = cycle.batch /\ cycle'.ids = cycle.ids
    BY <2>1 DEF Shape, TypeOK, Cycles, Steps
  <2>3. cycle.step = "fetch"
    BY <1>1 DEF Fetch
  <2> QED BY <1>1, <2>2, <2>3 DEF Fetch, Shape, TypeOK, CycleFits
<1>2. ASSUME NEW lost, SaveOver(lost), budget' \in Budgets, excuse' \subseteq Causes
      PROVE  Shape'
  <2>1. /\ db' = Saved(cycle.batch, lost) /\ cycle' = Idle /\ due' = IF cycle.full THEN 0 ELSE due
        /\ UNCHANGED <<product, server, changes, feedVars, syncs, alive, pending, queue, marks, synced>>
    BY <1>2 DEF SaveOver
  <2>2. db' \in [Programs -> Nat]
    BY <1>0, <2>1, SavedShape
  <2>3. due' \in 0 .. 2
    BY <2>1 DEF Shape, TypeOK
  <2>4. dirty' \in BOOLEAN
    BY <1>2 DEF SaveOver
  <2> QED BY <1>2, <2>1, <2>2, <2>3, <2>4, IdleShape DEF Shape, TypeOK, CycleFits
<1>3. CASE SaveFails
  <2>1. /\ queue' = cycle.batch \o queue /\ cycle' = Idle /\ Spend("failures", MaxFailures)
        /\ UNCHANGED <<product, server, changes, feedVars, syncs, alive, pending, due, marks, stored,
                      synced, excuse>>
    BY <1>3 DEF SaveFails, PutBack
  <2>2. queue' \in Seq(Event)
    BY <1>0, <2>1, ConcatLast
  <2>3. budget' \in Budgets
    BY <2>1, SpendShape
  <2>4. product = "mirakc" => queue' = <<>>
    <3>1. product = "mirakc" => queue = <<>> /\ cycle.batch = <<>>
      BY DEF Shape, CycleFits
    <3>2. <<>> \o <<>> = <<>>
      OBVIOUS
    <3> QED BY <2>1, <3>1, <3>2
  <2> QED BY <2>1, <2>2, <2>3, <2>4, IdleShape DEF Shape, TypeOK, CycleFits
<1>4. CASE SaveDone
  <2>1. SaveOver({}) /\ UNCHANGED <<budget, excuse>>
    BY <1>4 DEF SaveDone
  <2> QED BY <1>2, <2>1 DEF Shape, TypeOK
<1>5. CASE SavePartly
  <2>1. PICK lost \in SUBSET Touched(cycle.batch) : SaveOver(lost)
    BY <1>5 DEF SavePartly
  <2>2. Spend("failures", MaxFailures) /\ excuse' = excuse \cup {"row failed"}
    BY <1>5 DEF SavePartly
  <2>3. budget' \in Budgets
    BY <2>2, SpendShape
  <2>4. excuse' \subseteq Causes
    BY <2>2 DEF Shape, TypeOK, Causes
  <2> QED BY <1>2, <2>1, <2>3, <2>4
<1> QED BY <1>1, <1>3, <1>4, <1>5

-----------------------------------------------------------------------------
(* The feed that counts as alive. *)

\* The steps that leave the feed and its synchronisation alone.
LEMMA FeedFrame ==
    ASSUME Shape, FeedInv,
           UNCHANGED <<feed, latest, aborted, syncs, alive, synced>>, excuse \subseteq excuse',
           \/ cycle'.kind \notin {"sync", "poll"}
           \/ cycle'.kind = "poll" /\ ~alive
           \/ cycle'.kind = cycle.kind /\ cycle'.gen = cycle.gen
    PROVE  FeedInv'
<1>1. SyncsInOrder'
  BY DEF FeedInv, SyncsInOrder
<1>2. LatestIsOpen'
  BY DEF FeedInv, LatestIsOpen
<1>3. AliveIsSettled'
  BY DEF FeedInv, AliveIsSettled
<1>4. SyncedIsAlive' /\ AliveIsSynced'
  BY DEF FeedInv, SyncedIsAlive, AliveIsSynced
<1> QED BY <1>1, <1>2, <1>3, <1>4 DEF FeedInv

\* A start of the feed: its synchronisation waits behind those of the earlier starts.
LEMMA FeedConnect ==
    ASSUME Shape, FeedInv, Connect
    PROVE  FeedInv'
<1>1. /\ latest \in Nat /\ syncs \in Seq(Nat) /\ synced \in 0 .. latest
      /\ cycle.gen \in Nat
  BY EPGAssumption DEF Shape, TypeOK, Cycles
<1>2. /\ feed = "closed" /\ feed' = "open" /\ latest' = latest + 1 /\ aborted' = FALSE
      /\ syncs' = Append(syncs, latest + 1) /\ excuse \subseteq excuse'
      /\ UNCHANGED <<alive, cycle, synced>>
  BY DEF Connect
<1> DEFINE n == Len(syncs)
<1>3. /\ n \in Nat /\ Len(syncs') = n + 1 /\ syncs'[n + 1] = latest + 1
      /\ \A i \in 1 .. n : syncs'[i] = syncs[i] /\ syncs[i] \in Nat
  <2>1. latest + 1 \in Nat
    BY <1>1
  <2> QED BY ONLY <1>1, <1>2, <2>1, AppendProperties, LenProperties, ElementOfSeq
<1>4. \A i \in 1 .. n + 1 : i \in 1 .. n \/ i = n + 1
  BY <1>3
<1> HIDE DEF n
<1>5. SyncsInOrder'
  <2>1. ASSUME NEW i \in 1 .. n + 1
        PROVE  /\ syncs'[i] <= latest + 1
               /\ cycle.kind = "sync" => cycle.gen < syncs'[i]
               /\ \A j \in 1 .. n + 1 : i < j => syncs'[i] < syncs'[j]
    <3>1. CASE i \in 1 .. n
      <4>1. /\ syncs[i] <= latest
            /\ cycle.kind = "sync" => cycle.gen < syncs[i]
            /\ \A j \in 1 .. n : i < j => syncs[i] < syncs[j]
        BY <3>1 DEF FeedInv, SyncsInOrder, n
      <4>2. ASSUME NEW j \in 1 .. n + 1, i < j PROVE syncs'[i] < syncs'[j]
        <5>1. CASE j \in 1 .. n
          BY <1>3, <3>1, <4>1, <4>2, <5>1
        <5>2. CASE j = n + 1
          <6>1. syncs'[j] = latest + 1 /\ syncs'[i] = syncs[i] /\ syncs[i] \in Nat
            BY <1>3, <3>1, <5>2
          <6>2. syncs[i] <= latest /\ latest \in Nat
            BY <1>1, <4>1
          <6>3. syncs[i] < latest + 1
            BY ONLY <6>1, <6>2
          <6> QED BY ONLY <6>1, <6>3
        <5> QED BY <1>4, <5>1, <5>2
      <4> QED BY <1>1, <1>3, <3>1, <4>1, <4>2
    <3>2. CASE i = n + 1
      <4>1. cycle.kind = "sync" => cycle.gen <= latest
        BY DEF FeedInv, SyncsInOrder
      <4> QED BY <1>1, <1>3, <3>2, <4>1
    <3> QED BY <1>4, <3>1, <3>2
  <2>2. cycle.kind = "sync" => cycle.gen <= latest + 1
    BY <1>1 DEF FeedInv, SyncsInOrder
  <2> QED BY <1>2, <1>3, <2>1, <2>2 DEF SyncsInOrder
<1>6. LatestIsOpen'
  BY <1>2 DEF LatestIsOpen
<1>7. alive => "clean end" \in excuse
  BY <1>2 DEF FeedInv, AliveIsSynced
<1>8. AliveIsSettled' /\ AliveIsSynced'
  BY <1>2, <1>7 DEF AliveIsSettled, AliveIsSynced
<1>9. SyncedIsAlive'
  <2>1. synced' # latest'
    BY <1>1, <1>2
  <2> QED BY <1>2, <2>1 DEF SyncedIsAlive
<1> QED BY <1>5, <1>6, <1>8, <1>9 DEF FeedInv

\* The oldest start of the feed is synchronised first.
LEMMA FeedBeginSync ==
    ASSUME Shape, FeedInv, BeginSync
    PROVE  FeedInv'
<1>1. syncs \in Seq(Nat) /\ syncs # <<>> /\ cycle.kind = "none"
  BY DEF BeginSync, Shape, TypeOK, CycleFits
<1>2. /\ cycle' = Asking("sync", Head(syncs), FALSE, Programs) /\ syncs' = Tail(syncs)
      /\ UNCHANGED <<feed, latest, aborted, alive, synced, excuse>>
  BY DEF BeginSync, feedVars
<1> DEFINE n == Len(syncs)
<1>3. /\ n \in Nat /\ 1 \in 1 .. n /\ Head(syncs) = syncs[1] /\ Len(syncs') = n - 1
      /\ \A i \in 1 .. n - 1 : syncs'[i] = syncs[i + 1] /\ i + 1 \in 1 .. n
      /\ \A i \in 1 .. n : syncs[i] \in Nat
  BY ONLY <1>1, <1>2, HeadTailProperties, LenProperties, ElementOfSeq, EmptySeq
<1>4. cycle'.kind = "sync" /\ cycle'.gen = syncs[1]
  BY <1>2, <1>3, AskingAllShape
<1>5. \A i \in 1 .. n : syncs[i] <= latest /\ \A j \in 1 .. n : i < j => syncs[i] < syncs[j]
  BY DEF FeedInv, SyncsInOrder
<1> HIDE DEF n
<1>6. SyncsInOrder'
  <2>1. ASSUME NEW i \in 1 .. n - 1
        PROVE  /\ syncs'[i] <= latest /\ syncs[1] < syncs'[i]
               /\ \A j \in 1 .. n - 1 : i < j => syncs'[i] < syncs'[j]
    <3>1. i + 1 \in 1 .. n /\ 1 < i + 1 /\ syncs'[i] = syncs[i + 1]
      BY <1>3
    <3>2. ASSUME NEW j \in 1 .. n - 1, i < j PROVE syncs'[i] < syncs'[j]
      <4>1. j + 1 \in 1 .. n /\ i + 1 < j + 1 /\ syncs'[j] = syncs[j + 1]
        BY <1>3, <3>2
      <4> QED BY <1>5, <3>1, <4>1
    <3> QED BY <1>3, <1>5, <3>1, <3>2
  <2> QED BY <1>2, <1>3, <1>4, <1>5, <2>1 DEF SyncsInOrder
<1>7. LatestIsOpen'
  <2>1. CASE \A i \in 1 .. n : syncs[i] # latest
    BY <1>2, <1>3, <1>4, <2>1 DEF LatestIsOpen
  <2>2. CASE "clean end" \in excuse \/ aborted \/ feed = "open"
    BY <1>2, <2>2 DEF LatestIsOpen
  <2> QED BY <2>1, <2>2 DEF FeedInv, LatestIsOpen, n
<1>8. alive => "clean end" \in excuse
  BY <1>1 DEF FeedInv, AliveIsSettled
<1>9. AliveIsSettled' /\ AliveIsSynced' /\ SyncedIsAlive'
  BY <1>2, <1>8 DEF FeedInv, AliveIsSettled, AliveIsSynced, SyncedIsAlive
<1> QED BY <1>6, <1>7, <1>9 DEF FeedInv

\* The end of a synchronisation: only that of the last start, on a connection that stands,
\* makes the feed alive.
LEMMA FeedSyncOver ==
    ASSUME Shape, FeedInv, SyncOver, cycle.kind = "sync",
           UNCHANGED <<feed, latest, aborted, syncs>>, excuse \subseteq excuse'
    PROVE  FeedInv'
<1>1. /\ alive' = (alive \/ (cycle.gen = latest /\ ~aborted)) /\ synced' = cycle.gen
      /\ cycle' = Idle
  BY DEF SyncOver, Enlivened
<1>2. cycle'.kind = "none"
  BY <1>1, IdleShape
<1>3. /\ syncs \in Seq(Nat) /\ latest \in Nat /\ cycle.gen \in Nat
      /\ Len(syncs) \in Nat /\ \A i \in 1 .. Len(syncs) : syncs[i] \in Nat
  <2>1. syncs \in Seq(Nat) /\ latest \in Nat /\ cycle.gen \in Nat
    BY DEF Shape, TypeOK, Cycles
  <2> QED BY <2>1, LenProperties, ElementOfSeq
<1>4. alive => "clean end" \in excuse
  BY DEF FeedInv, AliveIsSettled
<1>5. SyncsInOrder' /\ LatestIsOpen'
  BY <1>2 DEF FeedInv, SyncsInOrder, LatestIsOpen
<1>6. cycle.gen = latest => syncs = <<>>
  <2>1. cycle.gen = latest => Len(syncs) = 0
    <3> SUFFICES ASSUME cycle.gen = latest, Len(syncs) # 0 PROVE FALSE
      OBVIOUS
    <3>1. 1 \in 1 .. Len(syncs)
      BY <1>3
    <3>2. syncs[1] <= latest /\ cycle.gen < syncs[1]
      BY <3>1 DEF FeedInv, SyncsInOrder
    <3> QED BY <1>3, <3>1, <3>2
  <2> QED BY ONLY <1>3, <2>1, EmptySeq
<1>7. cycle.gen = latest /\ ~aborted => "clean end" \in excuse \/ feed = "open"
  BY DEF FeedInv, LatestIsOpen
<1>8. AliveIsSettled' /\ AliveIsSynced'
  BY <1>1, <1>2, <1>4, <1>6, <1>7 DEF AliveIsSettled, AliveIsSynced
<1>9. SyncedIsAlive'
  BY <1>1 DEF FeedInv, SyncedIsAlive
<1> QED BY <1>5, <1>8, <1>9 DEF FeedInv

\* The ends of the feed: a broken one, a regular one, a crash of the updater process.
LEMMA FeedEnd ==
    ASSUME Shape, FeedInv, Abort \/ CleanEnd \/ Crash
    PROVE  FeedInv'
<1>1. CASE Abort
  BY <1>1 DEF Abort, FeedInv, SyncsInOrder, LatestIsOpen, AliveIsSettled, SyncedIsAlive, AliveIsSynced
<1>2. CASE CleanEnd
  BY <1>2 DEF CleanEnd, FeedInv, SyncsInOrder, LatestIsOpen, AliveIsSettled, SyncedIsAlive, AliveIsSynced
<1>3. CASE Crash
  <2>1. /\ syncs' = <<>> /\ cycle'.kind = "none" /\ feed' = "closed" /\ alive' = FALSE
    BY <1>3, IdleShape DEF Crash
  <2>2. SyncsInOrder' /\ LatestIsOpen'
    BY <2>1 DEF SyncsInOrder, LatestIsOpen
  <2>3. AliveIsSettled' /\ SyncedIsAlive' /\ AliveIsSynced'
    BY <2>1 DEF AliveIsSettled, SyncedIsAlive, AliveIsSynced
  <2> QED BY <2>2, <2>3 DEF FeedInv
<1> QED BY <1>1, <1>2, <1>3

\* Every step keeps what is known of the feed.
LEMMA FeedStep ==
    ASSUME Shape, FeedInv, Next
    PROVE  FeedInv'
<1> USE DEF feedVars, stored
<1>1. ASSUME NEW p \in Programs, Change(p) PROVE FeedInv'
  <2>1. UNCHANGED <<feed, latest, aborted, syncs, alive, synced>>
    BY <1>1 DEF Change
  <2>2. /\ excuse \subseteq excuse' /\ cycle'.kind = cycle.kind /\ cycle'.gen = cycle.gen
    <3>1. \/ UNCHANGED <<cycle, excuse>>
          \/ ReportOnAir(p)
          \/ ReportUpdated(p)
      BY <1>1 DEF Change, ReportProgram
    <3>2. CASE ReportOnAir(p)
      BY <3>2, MarkShape DEF ReportOnAir
    <3>3. CASE ReportUpdated(p)
      BY <3>3, MarkShape DEF ReportUpdated
    <3> QED BY <3>1, <3>2, <3>3
  <2> QED BY <2>1, <2>2, FeedFrame
<1>2. ASSUME WindowPasses \/ Tick \/ TimePasses PROVE FeedInv'
  <2>1. UNCHANGED <<feed, latest, aborted, syncs, alive, synced, excuse, cycle>>
    BY <1>2 DEF WindowPasses, Tick, TimePasses
  <2> QED BY <2>1, FeedFrame
<1>3. ASSUME BeginPeriodic PROVE FeedInv'
  <2>1. UNCHANGED <<feed, latest, aborted, syncs, alive, synced, excuse>>
    BY <1>3 DEF BeginPeriodic
  <2>2. \/ cycle'.kind \notin {"sync", "poll"}
        \/ cycle'.kind = "poll" /\ ~alive
        \/ cycle'.kind = cycle.kind /\ cycle'.gen = cycle.gen
    <3>1. PICK full \in BOOLEAN :
              \/ BeginSave(full)
              \/ cycle' = Asking("onair", 0, full, marks.onair)
              \/ AfterOnAir(full)
              \/ ~alive /\ cycle' = Asking("poll", 0, TRUE, Programs)
              \/ UNCHANGED cycle
      BY <1>3, PeriodicCases
    <3>2. CASE BeginSave(full)
      BY <3>2, IdleShape DEF BeginSave, Idle
    <3>3. CASE cycle' = Asking("onair", 0, full, marks.onair)
      <4>1. Asking("onair", 0, full, marks.onair).kind = "onair"
        BY DEF Asking, Idle
      <4> QED BY <3>3, <4>1
    <3>4. CASE AfterOnAir(full)
      BY <3>4 DEF AfterOnAir, Asking, Idle
    <3>5. CASE ~alive /\ cycle' = Asking("poll", 0, TRUE, Programs)
      <4>1. Asking("poll", 0, TRUE, Programs).kind = "poll"
        BY DEF Asking, Idle
      <4> QED BY <3>5, <4>1
    <3> QED BY <3>1, <3>2, <3>3, <3>4, <3>5
  <2> QED BY <2>1, <2>2, FeedFrame
<1>4. ASSUME Fetch PROVE FeedInv'
  <2>1. cycle'.kind = cycle.kind /\ cycle'.gen = cycle.gen
    BY <1>4 DEF Fetch, Shape, TypeOK, Cycles
  <2>2. UNCHANGED <<feed, latest, aborted, syncs, alive, synced, excuse>>
    BY <1>4 DEF Fetch
  <2> QED BY <2>1, <2>2, FeedFrame
<1>5. ASSUME Commit PROVE FeedInv'
  <2>1. /\ UNCHANGED <<feed, latest, aborted, syncs>> /\ excuse \subseteq excuse'
    BY <1>5, CommitCases
  <2>2. CASE cycle.kind = "sync" /\ SyncOver
    BY <2>1, <2>2, FeedSyncOver
  <2>3. CASE cycle' = Idle /\ UNCHANGED <<alive, synced>>
    BY <2>1, <2>3, IdleShape, FeedFrame
  <2>4. CASE AfterOnAir(cycle.full) /\ UNCHANGED <<alive, synced>>
    <3>1. cycle'.kind \in {"none", "updated"}
      BY <2>4 DEF AfterOnAir, Asking, Idle
    <3> QED BY <2>1, <2>4, <3>1, FeedFrame
  <2> QED BY <1>5, <2>2, <2>3, <2>4, CommitCases
<1>6. ASSUME CycleFails PROVE FeedInv'
  <2>1. UNCHANGED <<feed, latest, aborted, syncs>>
    BY <1>6 DEF CycleFails
  <2>2. CASE cycle.kind = "sync"
    <3>1. SyncOver /\ excuse \subseteq excuse'
      BY <1>6, <2>2 DEF CycleFails
    <3> QED BY <2>1, <2>2, <3>1, FeedSyncOver
  <2>3. CASE cycle.kind # "sync"
    <3>1. cycle' = Idle /\ UNCHANGED <<alive, synced, excuse>>
      BY <1>6, <2>3 DEF CycleFails
    <3> QED BY <2>1, <3>1, IdleShape, FeedFrame
  <2> QED BY <2>2, <2>3
<1>7. ASSUME SaveDone \/ SavePartly \/ SaveFails PROVE FeedInv'
  <2>1. /\ UNCHANGED <<feed, latest, aborted, syncs, alive, synced>> /\ cycle' = Idle
        /\ excuse \subseteq excuse'
    BY <1>7 DEF SaveDone, SavePartly, SaveOver, SaveFails
  <2> QED BY <2>1, IdleShape, FeedFrame
<1> QED BY <1>1, <1>2, <1>3, <1>4, <1>5, <1>6, <1>7, FeedConnect, FeedBeginSync, FeedEnd DEF Next

\* Every step keeps the types.
LEMMA ShapeStep ==
    ASSUME Shape, SyncsInOrder, Next
    PROVE  Shape'
BY ShapeChange, ShapeFeed, ShapeBegin, ShapeEnd, ShapeWrite DEF Next

\* The types and what is known of the feed, in every reachable state.
THEOREM FeedInvariance == Spec => [](Shape /\ FeedInv)
<1>1. Init => Shape /\ FeedInv
  <2> SUFFICES ASSUME Init PROVE FeedInv
    BY ShapeInit
  <2>1. /\ syncs = <<>> /\ cycle = Idle /\ feed = "closed" /\ alive = FALSE
    BY DEF Init
  <2>2. SyncsInOrder /\ LatestIsOpen
    BY <2>1, IdleShape DEF SyncsInOrder, LatestIsOpen
  <2>3. AliveIsSettled /\ SyncedIsAlive /\ AliveIsSynced
    BY <2>1 DEF AliveIsSettled, SyncedIsAlive, AliveIsSynced
  <2> QED BY <2>2, <2>3 DEF FeedInv
<1>2. Shape /\ FeedInv /\ [Next]_vars => (Shape /\ FeedInv)'
  <2> SUFFICES ASSUME Shape, FeedInv, [Next]_vars PROVE Shape' /\ FeedInv'
    OBVIOUS
  <2>1. CASE Next
    BY <2>1, ShapeStep, FeedStep DEF FeedInv
  <2>2. CASE UNCHANGED vars
    <3>1. Shape'
      BY <2>2 DEF vars, feedVars, stored, Shape, TypeOK, CycleFits
    <3>2. FeedInv'
      BY <2>2, FeedFrame DEF vars, feedVars, stored
    <3> QED BY <3>1, <3>2
  <2> QED BY <2>1, <2>2
<1> QED BY <1>1, <1>2, PTL DEF Spec

\* The variables have the values that the code can give them.
THEOREM TypeCorrect == Spec => []TypeOK
<1>1. Shape /\ FeedInv => TypeOK
  BY DEF Shape
<1> QED BY <1>1, FeedInvariance, PTL

\* A late synchronisation never revives a feed that has broken or begun anew
\* (synchronizeStartedStream).
THEOREM AliveOnlyIfSynced == Spec => []AliveIsSynced
<1>1. Shape /\ FeedInv => AliveIsSynced
  BY DEF FeedInv
<1> QED BY <1>1, FeedInvariance, PTL

-----------------------------------------------------------------------------
(* Nothing that the server reports is forgotten. *)

\* An empty batch adds nothing to the queue, and touches no programme.
LEMMA NothingAwaits ==
    /\ \A b \in Seq(Event) : <<>> \o b = b /\ b \o <<>> = b
    /\ Touched(<<>>) = {}
<1>1. \A b \in Seq(Event) : <<>> \o b = b /\ b \o <<>> = b
  BY ConcatEmptySeq
<1>2. Touched(<<>>) = {}
  BY DEF Touched
<1> QED BY <1>1, <1>2

\* The changes that wait have the types.
LEMMA AwaitingShape ==
    ASSUME Shape
    PROVE  /\ cycle.batch \in Seq(Event) /\ queue \in Seq(Event) /\ Awaiting \in Seq(Event)
           /\ cycle.kind # "program" => Awaiting = queue
           /\ product = "mirakc" => Awaiting = <<>>
<1>1. cycle.batch \in Seq(Event) /\ queue \in Seq(Event)
  BY DEF Shape, TypeOK, Cycles
<1>2. Awaiting \in Seq(Event)
  BY <1>1, ConcatLast DEF Awaiting
<1>3. cycle.kind # "program" => Awaiting = queue
  <2>1. cycle.kind # "program" => cycle.batch = <<>>
    BY DEF Shape, CycleFits
  <2> QED BY <1>1, <2>1, NothingAwaits DEF Awaiting
<1>4. product = "mirakc" => Awaiting = <<>>
  <2>1. product = "mirakc" => queue = <<>> /\ cycle.batch = <<>>
    BY DEF Shape, CycleFits
  <2>2. <<>> \o <<>> = <<>>
    OBVIOUS
  <2> QED BY <2>1, <2>2 DEF Awaiting
<1> QED BY <1>1, <1>2, <1>3, <1>4

\* The steps that leave the server, the table and the connection alone, and keep the last
\* change of every programme that waits.
LEMMA GuideFrame ==
    ASSUME GuideInv, UNCHANGED <<server, db, feed, latest, synced, marks>>, excuse \subseteq excuse',
           Touched(Awaiting') = Touched(Awaiting),
           \A p \in Touched(Awaiting) : LastOf(Awaiting', p) = LastOf(Awaiting, p),
           cycle'.step # "commit"
    PROVE  GuideInv'
<1>1. Untroubled' => Untroubled
  BY DEF Untroubled
<1>2. \A p : Marked(p)' <=> Marked(p)
  BY DEF Marked
<1>3. QueueIsCurrent'
  BY <1>1 DEF GuideInv, QueueIsCurrent
<1>4. TableIsCurrent'
  BY <1>1, <1>2 DEF GuideInv, TableIsCurrent
<1>5. AnswerIsCurrent'
  BY DEF AnswerIsCurrent
<1> QED BY <1>3, <1>4, <1>5 DEF GuideInv

\* On a connection that does not stand, or once the code cannot make good, nothing is said.
LEMMA GuideTroubled ==
    ASSUME ~Untroubled'
    PROVE  GuideInv'
BY DEF GuideInv, QueueIsCurrent, AnswerIsCurrent, TableIsCurrent

\* A change that Mirakurun reports is queued.
LEMMA GuideReport ==
    ASSUME Shape, FeedInv, GuideInv, NEW p \in Programs, NEW version \in Nat,
           ReportProgram(p, version), server' = [server EXCEPT ![p] = version],
           UNCHANGED <<feed, latest, synced, db>>
    PROVE  GuideInv'
<1> DEFINE e == [id |-> p, version |-> version]
<1>1. /\ product = "mirakurun" /\ queue' = Append(queue, e)
      /\ UNCHANGED <<marks, cycle, excuse>>
  BY DEF ReportProgram
<1>2. e \in Event /\ e.id = p /\ e.version = version
  BY DEF Event
<1> HIDE DEF e
<1>3. /\ cycle.batch \in Seq(Event) /\ queue \in Seq(Event) /\ Awaiting \in Seq(Event)
  BY AwaitingShape
<1>4. Awaiting' = Append(Awaiting, e)
  <2>1. <<e>> \in Seq(Event)
    BY <1>2
  <2>2. /\ Append(queue, e) = queue \o <<e>>
        /\ Append(Awaiting, e) = Awaiting \o <<e>>
    BY <1>2, <1>3, AppendIsConcat
  <2>3. (cycle.batch \o queue) \o <<e>> = cycle.batch \o (queue \o <<e>>)
    <3> DEFINE u == <<e>>
    <3>1. u \in Seq(Event)
      BY <2>1
    <3> HIDE DEF u
    <3>2. (cycle.batch \o queue) \o u = cycle.batch \o (queue \o u)
      BY <1>3, <3>1, JoinedTwice
    <3> QED BY <3>2 DEF u
  <2> QED BY <1>1, <2>2, <2>3 DEF Awaiting
<1>5. /\ Touched(Awaiting') = Touched(Awaiting) \cup {p}
      /\ LastOf(Awaiting', p) = e
      /\ \A q \in Touched(Awaiting) \ {p} : LastOf(Awaiting', q) = LastOf(Awaiting, q)
  BY <1>2, <1>3, <1>4, AppendLast
<1>6. Touched(queue') = Touched(queue) \cup {p}
  BY <1>1, <1>2, <1>3, AppendLast
<1>7. /\ server'[p] = version /\ \A q \in Programs \ {p} : server'[q] = server[q]
      /\ Touched(Awaiting) \subseteq Programs
  BY <1>3, TouchedFinite DEF Shape, TypeOK
<1>8. QueueIsCurrent'
  BY <1>1, <1>2, <1>5, <1>7 DEF GuideInv, QueueIsCurrent, Untroubled
<1>9. TableIsCurrent'
  BY <1>1, <1>5, <1>7 DEF GuideInv, TableIsCurrent, Untroubled, Marked
<1>10. AnswerIsCurrent'
  <2>1. cycle.kind \notin {"onair", "updated"}
    BY <1>1 DEF Shape, CycleFits
  <2> QED BY <1>1, <1>6, <1>7, <2>1 DEF GuideInv, AnswerIsCurrent, Untroubled, Marked
<1> QED BY <1>8, <1>9, <1>10 DEF GuideInv

\* A service that mirakc reports is marked.
LEMMA GuideMark ==
    ASSUME Shape, FeedInv, GuideInv, NEW p \in Programs, NEW version \in Nat,
           NEW kind \in {"onair", "updated"}, Mark(p, kind), product = "mirakc",
           server' = [server EXCEPT ![p] = version],
           UNCHANGED <<feed, latest, synced, db, queue, excuse>>
    PROVE  GuideInv'
<1>1. /\ cycle'.step = cycle.step /\ cycle'.kind = cycle.kind /\ cycle'.gen = cycle.gen
      /\ cycle'.batch = cycle.batch /\ cycle'.ids = cycle.ids /\ cycle'.snapshot = cycle.snapshot
      /\ \A q \in Programs : Marked(q) => Marked(q)'
      /\ Marked(p)' /\ cycle.renewed \subseteq cycle'.renewed
      /\ cycle.kind = kind => p \in cycle'.renewed
      /\ marks.onair \subseteq marks'.onair /\ marks.updated \subseteq marks'.updated
      /\ p \in marks'[kind]
  BY MarkShape
<1>2. Awaiting' = <<>> /\ Touched(<<>>) = {}
  BY <1>1, AwaitingShape, NothingAwaits DEF Awaiting
<1>3. \A q \in Programs \ {p} : server'[q] = server[q]
  BY DEF Shape, TypeOK
<1>4. Awaiting = <<>> /\ queue = <<>>
  BY AwaitingShape DEF Shape, CycleFits
<1>5. QueueIsCurrent'
  BY <1>2 DEF QueueIsCurrent
<1>6. TableIsCurrent'
  BY <1>1, <1>2, <1>3, <1>4 DEF GuideInv, TableIsCurrent, Untroubled
<1>7. AnswerIsCurrent'
  <2> SUFFICES ASSUME Untroubled', cycle'.step = "commit" PROVE AnswerIsCurrent'
    BY DEF AnswerIsCurrent
  <2>1. Untroubled /\ cycle.step = "commit"
    BY <1>1 DEF Untroubled
  <2>2. cycle.ids \subseteq Programs
    BY DEF Shape, TypeOK, Cycles
  <2>3. ASSUME cycle.kind = "sync", cycle.gen = latest, NEW q \in Programs
        PROVE  q \in Touched(queue') \/ Marked(q)' \/ cycle'.snapshot[q] = server'[q]
    BY <1>1, <1>3, <2>1, <2>3 DEF GuideInv, AnswerIsCurrent
  <2>4. ASSUME cycle.kind = "onair", synced = latest, NEW q \in cycle.ids
        PROVE  q \in cycle'.renewed \cup marks'.updated \/ cycle'.snapshot[q] = server'[q]
    BY <1>1, <1>3, <2>1, <2>2, <2>4 DEF GuideInv, AnswerIsCurrent
  <2>5. ASSUME cycle.kind = "updated", synced = latest, NEW q \in cycle.ids
        PROVE  q \in cycle'.renewed \cup marks'.onair \/ cycle'.snapshot[q] = server'[q]
    BY <1>1, <1>3, <2>1, <2>2, <2>5 DEF GuideInv, AnswerIsCurrent
  <2> QED BY <1>1, <2>3, <2>4, <2>5 DEF AnswerIsCurrent
<1> QED BY <1>5, <1>6, <1>7 DEF GuideInv

\* A change on the server, reported or not.
LEMMA GuideChange ==
    ASSUME Shape, FeedInv, GuideInv, NEW p \in Programs, Change(p)
    PROVE  GuideInv'
<1>1. PICK version \in {changes + 1} \cup (IF server[p] = 0 THEN {} ELSE {0}) :
          /\ server' = [server EXCEPT ![p] = version]
          /\ IF feed = "closed"
             THEN UNCHANGED <<window, queue, marks, cycle, excuse>>
             ELSE ReportProgram(p, version) \/ ReportOnAir(p) \/ ReportUpdated(p)
  BY DEF Change
<1>2. version \in Nat
  BY DEF Shape, TypeOK
<1>3. UNCHANGED <<feed, latest, synced, db>>
  BY DEF Change, stored
<1>4. CASE feed = "closed"
  BY <1>3, <1>4, GuideTroubled DEF Untroubled
<1>5. CASE ReportProgram(p, version)
  BY <1>1, <1>2, <1>3, <1>5, GuideReport
<1>6. CASE ReportOnAir(p)
  BY <1>1, <1>2, <1>3, <1>6, GuideMark DEF ReportOnAir
<1>7. CASE ReportUpdated(p)
  <2>1. CASE window = "past"
    BY <1>1, <1>2, <1>3, <1>7, <2>1, GuideMark DEF ReportUpdated
  <2>2. CASE window # "past"
    <3>1. CASE Answered
      <4>1. excuse' # {}
        BY <1>7, <2>2, <3>1 DEF ReportUpdated
      <4> QED BY <4>1, GuideTroubled DEF Untroubled
    <3>2. CASE ~Answered
      <4>1. product = "mirakc" /\ UNCHANGED <<queue, marks, cycle>>
        BY <1>7, <2>2 DEF ReportUpdated
      <4>2. Awaiting' = <<>> /\ Touched(<<>>) = {}
        BY <4>1, AwaitingShape, NothingAwaits DEF Awaiting
      <4>3. QueueIsCurrent'
        BY <4>2 DEF QueueIsCurrent
      <4>4. TableIsCurrent'
        BY <1>3, <3>2 DEF TableIsCurrent, Answered
      <4>5. AnswerIsCurrent'
        BY <1>3, <3>2, <4>1 DEF AnswerIsCurrent, Answered
      <4> QED BY <4>3, <4>4, <4>5 DEF GuideInv
    <3> QED BY <3>1, <3>2
  <2> QED BY <2>1, <2>2
<1> QED BY <1>1, <1>4, <1>5, <1>6, <1>7

\* A start of the feed: nothing has been reported on it, and it is not synchronised.
LEMMA GuideConnect ==
    ASSUME Shape, FeedInv, Connect
    PROVE  GuideInv'
<1> SUFFICES ASSUME Untroubled' PROVE GuideInv'
  BY GuideTroubled
<1>1. /\ queue = <<>> /\ cycle.batch = <<>>
  BY DEF Connect, Untroubled
<1>2. /\ latest' = latest + 1 /\ UNCHANGED <<queue, cycle, synced>>
  BY DEF Connect
<1>3. Touched(Awaiting') = {}
  <2>1. <<>> \o <<>> = <<>>
    OBVIOUS
  <2> QED BY <1>1, <1>2, <2>1, NothingAwaits DEF Awaiting
<1>4. latest \in Nat /\ synced \in 0 .. latest /\ synced' # latest'
  <2>1. latest \in Nat /\ synced \in 0 .. latest
    BY EPGAssumption DEF Shape, TypeOK
  <2> QED BY <1>2, <2>1
<1>5. cycle'.kind = "sync" => cycle'.gen # latest'
  <2>1. cycle.kind = "sync" => cycle.gen <= latest /\ cycle.gen \in Nat
    BY DEF FeedInv, SyncsInOrder, Shape, TypeOK, Cycles
  <2> QED BY <1>2, <1>4, <2>1
<1> QED BY <1>3, <1>4, <1>5 DEF GuideInv, QueueIsCurrent, AnswerIsCurrent, TableIsCurrent

\* The beginning of a cycle moves the queue to the batch, or reduces it.
LEMMA GuideBegin ==
    ASSUME Shape, FeedInv, GuideInv, BeginSync \/ BeginPeriodic
    PROVE  GuideInv'
<1>1. cycle.kind = "none" /\ Awaiting = queue /\ queue \in Seq(Event)
  BY AwaitingShape DEF BeginSync, BeginPeriodic, Shape, CycleFits
<1>2. UNCHANGED <<server, db, feed, latest, synced, excuse>>
  BY DEF BeginSync, BeginPeriodic, feedVars, stored
<1>3. ASSUME cycle'.batch = <<>>, queue' = queue, marks' = marks, cycle'.step # "commit"
      PROVE  GuideInv'
  <2>1. Awaiting' = Awaiting
    BY <1>1, <1>3, NothingAwaits DEF Awaiting
  <2> QED BY <1>2, <1>3, <2>1, GuideFrame
<1>4. CASE BeginSync
  <2>1. syncs \in Seq(Nat) /\ syncs # <<>>
    BY <1>4 DEF BeginSync, Shape, TypeOK
  <2>2. Head(syncs) \in Nat
    BY ONLY <2>1, HeadTailProperties
  <2>3. cycle'.batch = <<>> /\ cycle'.step = "fetch" /\ UNCHANGED <<queue, marks>>
    BY <1>4, <2>2, AskingAllShape DEF BeginSync
  <2> QED BY <1>3, <2>3
<1>5. CASE BeginPeriodic
  <2>1. PICK full \in BOOLEAN :
            \/ BeginSave(full) /\ UNCHANGED marks
            \/ cycle' = Asking("onair", 0, full, marks.onair) /\ UNCHANGED <<queue, marks>>
            \/ product = "mirakc" /\ AfterOnAir(full) /\ UNCHANGED <<queue, marks>>
            \/ cycle' = Asking("poll", 0, TRUE, Programs) /\ UNCHANGED <<queue, marks>>
            \/ UNCHANGED <<queue, marks, cycle>>
    BY <1>5, PeriodicCases
  <2>2. CASE BeginSave(full) /\ UNCHANGED marks
    <3>1. CASE /\ cycle' = [Idle EXCEPT !.kind = "program", !.step = "save", !.full = full, !.batch = queue]
               /\ queue' = <<>>
      <4>1. cycle'.batch = queue /\ cycle'.step = "save"
        BY <3>1 DEF Idle
      <4>2. Awaiting' = Awaiting
        BY <1>1, <3>1, <4>1, NothingAwaits DEF Awaiting
      <4> QED BY <1>2, <2>2, <4>1, <4>2, GuideFrame
    <3>2. CASE queue' = Reduced(queue) /\ UNCHANGED cycle
      <4>1. cycle.batch = <<>> /\ cycle'.step # "commit"
        BY <1>1, <3>2 DEF Shape, CycleFits
      <4>2. Awaiting' = Reduced(queue)
        BY <1>1, <3>2, <4>1, NothingAwaits, ReducedProperties DEF Awaiting
      <4>3. /\ Touched(Awaiting') = Touched(Awaiting)
            /\ \A p \in Touched(Awaiting) : LastOf(Awaiting', p) = LastOf(Awaiting, p)
        BY <1>1, <4>2, ReducedProperties
      <4> QED BY <1>2, <2>2, <4>1, <4>3, GuideFrame
    <3> QED BY <2>2, <3>1, <3>2 DEF BeginSave
  <2>3. CASE cycle' = Asking("onair", 0, full, marks.onair) /\ UNCHANGED <<queue, marks>>
    <3>1. cycle'.batch = <<>> /\ cycle'.step = "fetch"
      BY <2>3, AskingShape DEF Shape, TypeOK
    <3> QED BY <1>3, <2>3, <3>1
  <2>4. CASE product = "mirakc" /\ AfterOnAir(full) /\ UNCHANGED <<queue, marks>>
    <3>1. marks' \in [onair : SUBSET Programs, updated : SUBSET Programs]
      BY <2>4 DEF Shape, TypeOK
    <3>2. cycle'.batch = <<>> /\ cycle'.step # "commit"
      BY <2>4, <3>1, AfterOnAirShape
    <3> QED BY <1>3, <2>4, <3>2
  <2>5. CASE cycle' = Asking("poll", 0, TRUE, Programs) /\ UNCHANGED <<queue, marks>>
    <3>1. cycle'.batch = <<>> /\ cycle'.step = "fetch"
      BY <2>5, AskingAllShape
    <3> QED BY <1>3, <2>5, <3>1
  <2>6. CASE UNCHANGED <<queue, marks, cycle>>
    BY <1>1, <1>3, <2>6 DEF Shape, CycleFits
  <2> QED BY <2>1, <2>2, <2>3, <2>4, <2>5, <2>6
<1> QED BY <1>4, <1>5

\* The answer of the server is what it has.
LEMMA GuideFetch ==
    ASSUME Shape, GuideInv, Fetch
    PROVE  GuideInv'
<1>1. /\ cycle'.snapshot = server /\ cycle'.batch = cycle.batch
      /\ cycle'.ids = cycle.ids /\ cycle'.kind = cycle.kind
  BY DEF Fetch, Shape, TypeOK, Cycles
<1>2. UNCHANGED <<server, db, feed, latest, synced, marks, excuse, queue>>
  BY DEF Fetch, feedVars, stored
<1>3. Awaiting' = Awaiting
  BY <1>1, <1>2 DEF Awaiting
<1>4. QueueIsCurrent' /\ TableIsCurrent'
  BY <1>2, <1>3 DEF GuideInv, QueueIsCurrent, TableIsCurrent, Untroubled, Marked
<1>5. AnswerIsCurrent'
  BY <1>1, <1>2 DEF AnswerIsCurrent
<1> QED BY <1>4, <1>5 DEF GuideInv

\* A write of what the server has answered.
LEMMA GuideCommit ==
    ASSUME Shape, Shape', FeedInv, GuideInv, Commit
    PROVE  GuideInv'
<1> SUFFICES ASSUME Untroubled' PROVE GuideInv'
  BY GuideTroubled
<1>1. /\ cycle.step = "commit" /\ db' = Written
      /\ UNCHANGED <<product, server, feed, latest, aborted, queue>> /\ excuse \subseteq excuse'
      /\ cycle.kind \in {"onair", "updated"} => cycle.renewed = {}
  <2>1. excuse' = {}
    BY DEF Untroubled
  <2> QED BY <2>1, CommitCases DEF feedVars
<1>2. Untroubled
  BY <1>1 DEF Untroubled
<1>3. cycle.kind # "program" /\ Awaiting = queue
  BY <1>1, AwaitingShape DEF Shape, CycleFits
<1>4. cycle'.kind \in {"none", "updated"} /\ cycle'.step # "commit"
  <2>1. SyncOver \/ cycle' = Idle \/ AfterOnAir(cycle.full)
    BY CommitCases
  <2>2. CASE cycle' = Idle
    BY <2>2, IdleShape
  <2>3. CASE cycle' = Asking("updated", 0, TRUE, marks'.updated)
    BY <2>3 DEF Asking, Idle
  <2> QED BY <2>1, <2>2, <2>3 DEF SyncOver, AfterOnAir
<1>5. Awaiting' = queue
  <2>1. cycle'.batch = <<>>
    BY <1>4 DEF Shape, CycleFits
  <2> QED BY <1>1, <2>1, AwaitingShape, NothingAwaits DEF Awaiting
<1>6. QueueIsCurrent'
  BY <1>1, <1>2, <1>3, <1>5 DEF GuideInv, QueueIsCurrent
<1>7. AnswerIsCurrent'
  BY <1>4 DEF AnswerIsCurrent
<1>8. \A p \in Programs : db'[p] = IF p \in cycle.ids THEN cycle.snapshot[p] ELSE db[p]
  BY <1>1 DEF Written
<1>9. TableIsCurrent'
  <2> SUFFICES ASSUME synced' = latest', NEW p \in Programs
               PROVE  p \in Touched(queue) \/ Marked(p)' \/ db'[p] = server[p]
    BY <1>1, <1>5 DEF TableIsCurrent
  <2>1. CASE cycle.kind = "sync" /\ SyncOver
    <3>1. cycle.gen = latest /\ marks' = marks /\ cycle.ids = Programs
      BY <1>1, <2>1 DEF SyncOver, Shape, CycleFits
    <3>2. p \in Touched(queue) \/ Marked(p) \/ cycle.snapshot[p] = server[p]
      BY <1>1, <1>2, <2>1, <3>1 DEF GuideInv, AnswerIsCurrent
    <3> QED BY <1>8, <3>1, <3>2 DEF Marked
  <2>2. CASE cycle.kind = "poll" /\ UNCHANGED synced
    <3>1. alive
      BY <1>1, <1>2, <2>2 DEF FeedInv, SyncedIsAlive, Untroubled
    <3> QED BY <1>2, <2>2, <3>1 DEF FeedInv, AliveIsSettled, Untroubled
  <2>3. CASE /\ cycle.kind = "onair" /\ marks' = [marks EXCEPT !.onair = @ \ cycle.ids]
             /\ UNCHANGED synced
    <3>1. p \in Touched(queue) \/ Marked(p) \/ db[p] = server[p]
      BY <1>1, <1>2, <1>3, <2>3 DEF GuideInv, TableIsCurrent
    <3>2. p \in cycle.ids => p \in marks.updated \/ cycle.snapshot[p] = server[p]
      BY <1>1, <1>2, <2>3 DEF GuideInv, AnswerIsCurrent
    <3>3. marks'.updated = marks.updated /\ marks'.onair = marks.onair \ cycle.ids
      BY <2>3 DEF Shape, TypeOK
    <3> QED BY <1>8, <3>1, <3>2, <3>3 DEF Marked
  <2>4. CASE /\ cycle.kind = "updated" /\ marks' = [marks EXCEPT !.updated = @ \ cycle.ids]
             /\ UNCHANGED synced
    <3>1. p \in Touched(queue) \/ Marked(p) \/ db[p] = server[p]
      BY <1>1, <1>2, <1>3, <2>4 DEF GuideInv, TableIsCurrent
    <3>2. p \in cycle.ids => p \in marks.onair \/ cycle.snapshot[p] = server[p]
      BY <1>1, <1>2, <2>4 DEF GuideInv, AnswerIsCurrent
    <3>3. marks'.onair = marks.onair /\ marks'.updated = marks.updated \ cycle.ids
      BY <2>4 DEF Shape, TypeOK
    <3> QED BY <1>8, <3>1, <3>2, <3>3 DEF Marked
  <2> QED BY <2>1, <2>2, <2>3, <2>4, CommitCases
<1> QED BY <1>6, <1>7, <1>9 DEF GuideInv

\* The end of a batch, saved or put back in front of the queue; nothing is said of one of
\* which rows failed.
LEMMA GuideSave ==
    ASSUME Shape, FeedInv, GuideInv, SaveDone \/ SavePartly \/ SaveFails
    PROVE  GuideInv'
<1>0. CASE SavePartly
  <2>1. excuse' # {}
    BY <1>0 DEF SavePartly
  <2> QED BY <2>1, GuideTroubled DEF Untroubled
<1> SUFFICES ASSUME SaveDone \/ SaveFails PROVE GuideInv'
  BY <1>0
<1>1. /\ UNCHANGED <<server, feed, latest, synced, marks, excuse>> /\ cycle' = Idle
  BY DEF SaveDone, SaveOver, SaveFails, feedVars
<1>2. cycle'.batch = <<>> /\ cycle'.step = "idle"
  BY <1>1, IdleShape
<1>3. cycle.batch \in Seq(Event) /\ queue \in Seq(Event) /\ Awaiting \in Seq(Event)
  BY AwaitingShape
<1>4. CASE SaveFails
  <2>1. queue' = Awaiting /\ db' = db
    BY <1>4 DEF SaveFails, PutBack, Awaiting, stored
  <2>2. Awaiting' = Awaiting
    <3>1. Awaiting' = <<>> \o queue'
      BY <1>2 DEF Awaiting
    <3> QED BY <1>3, <2>1, <3>1, NothingAwaits
  <2> QED BY <1>1, <1>2, <2>1, <2>2, GuideFrame
<1>5. CASE SaveDone
  <2>1. queue' = queue /\ db' = Saved(cycle.batch, {})
    BY <1>5 DEF SaveDone, SaveOver
  <2>2. Awaiting' = queue
    BY <1>2, <1>3, <2>1, NothingAwaits DEF Awaiting
  <2>3. /\ Touched(Awaiting) = Touched(cycle.batch) \cup Touched(queue)
        /\ \A p \in Touched(queue) : LastOf(Awaiting, p) = LastOf(queue, p)
        /\ \A p \in Touched(cycle.batch) \ Touched(queue) : LastOf(Awaiting, p) = LastOf(cycle.batch, p)
    BY <1>3, ConcatLast DEF Awaiting
  <2>4. QueueIsCurrent'
    BY <1>1, <2>2, <2>3 DEF GuideInv, QueueIsCurrent, Untroubled
  <2>5. TableIsCurrent'
    <3> SUFFICES ASSUME Untroubled, synced = latest, NEW p \in Programs, p \notin Touched(queue)
                 PROVE  Marked(p) \/ db'[p] = server[p]
      BY <1>1, <2>2 DEF TableIsCurrent, Untroubled, Marked
    <3>1. CASE p \in Touched(cycle.batch)
      <4>1. db'[p] = LastOf(cycle.batch, p).version
        BY <2>1, <3>1 DEF Saved
      <4>2. LastOf(Awaiting, p).version = server[p]
        BY <2>3, <3>1 DEF GuideInv, QueueIsCurrent
      <4> QED BY <2>3, <3>1, <4>1, <4>2
    <3>2. CASE p \notin Touched(cycle.batch)
      <4>1. db'[p] = db[p]
        BY <2>1, <3>2 DEF Saved
      <4> QED BY <2>3, <3>2, <4>1 DEF GuideInv, TableIsCurrent
    <3> QED BY <3>1, <3>2
  <2>6. AnswerIsCurrent'
    BY <1>2 DEF AnswerIsCurrent
  <2> QED BY <2>4, <2>5, <2>6 DEF GuideInv
<1> QED BY <1>4, <1>5

\* Every step keeps what is known of the guide.
LEMMA GuideStep ==
    ASSUME Shape, FeedInv, GuideInv, Next
    PROVE  GuideInv'
<1>1. ASSUME UNCHANGED <<server, db, feed, latest, synced, marks, excuse, queue, cycle>>
      PROVE  GuideInv'
  <2>1. Awaiting' = Awaiting
    BY <1>1 DEF Awaiting
  <2> QED BY <1>1, <2>1 DEF GuideInv, QueueIsCurrent, AnswerIsCurrent, TableIsCurrent, Untroubled, Marked
<1>2. ASSUME WindowPasses \/ Tick \/ TimePasses PROVE GuideInv'
  BY <1>1, <1>2 DEF WindowPasses, Tick, TimePasses, feedVars, stored
<1>3. ASSUME Abort \/ CleanEnd \/ Crash PROVE GuideInv'
  <2>1. feed' = "closed"
    BY <1>3 DEF Abort, CleanEnd, Crash
  <2> QED BY <2>1, GuideTroubled DEF Untroubled
<1>4. ASSUME Commit PROVE GuideInv'
  <2>1. Shape'
    BY <1>4, ShapeEnd DEF FeedInv
  <2> QED BY <1>4, <2>1, GuideCommit
<1>5. ASSUME CycleFails PROVE GuideInv'
  <2>1. CASE cycle.kind = "sync"
    <3>1. excuse' # {}
      BY <1>5, <2>1 DEF CycleFails
    <3> QED BY <3>1, GuideTroubled DEF Untroubled
  <2>2. CASE cycle.kind # "sync"
    <3>1. /\ cycle' = Idle /\ UNCHANGED <<server, db, feed, latest, synced, marks, excuse, queue>>
          /\ cycle.kind # "program"
      BY <1>5, <2>2 DEF CycleFails, Shape, CycleFits, feedVars, stored
    <3>2. Awaiting' = Awaiting
      BY <3>1, AwaitingShape, IdleShape, NothingAwaits DEF Awaiting
    <3> QED BY <3>1, <3>2, IdleShape, GuideFrame
  <2> QED BY <2>1, <2>2
<1> QED BY <1>2, <1>3, <1>4, <1>5, GuideChange, GuideConnect, GuideBegin, GuideFetch, GuideSave DEF Next

\* What is known of the guide, in every reachable state.
THEOREM GuideInvariance == Spec => []GuideInv
<1>1. Init => GuideInv
  BY GuideTroubled DEF Init, GuideInv, QueueIsCurrent, AnswerIsCurrent, TableIsCurrent, Untroubled
<1>2. Shape /\ FeedInv /\ GuideInv /\ [Next]_vars => GuideInv'
  <2> SUFFICES ASSUME Shape, FeedInv, GuideInv, [Next]_vars PROVE GuideInv'
    OBVIOUS
  <2>1. CASE UNCHANGED vars
    <3>1. UNCHANGED <<server, db, feed, latest, synced, marks, excuse, queue, cycle>>
      BY <2>1 DEF vars, feedVars, stored
    <3>2. Awaiting' = Awaiting
      BY <3>1 DEF Awaiting
    <3> QED BY <3>1, <3>2
            DEF GuideInv, QueueIsCurrent, AnswerIsCurrent, TableIsCurrent, Untroubled, Marked
  <2> QED BY <2>1, GuideStep
<1> QED BY <1>1, <1>2, FeedInvariance, PTL DEF Spec

\* While the feed is alive no change of the server is forgotten, whatever was postponed, put
\* back as a whole or fetched twice, unless one of the causes in excuse has occurred: those
\* include a save of which single rows failed, which ProgramDB.update passes over.
THEOREM NothingIsForgotten == Spec => []NothingForgotten
<1>1. Shape /\ FeedInv /\ GuideInv => NothingForgotten
  <2> SUFFICES ASSUME FeedInv, GuideInv, alive, excuse = {}, NEW p \in Programs
               PROVE  IF p \in Touched(Awaiting) THEN LastOf(Awaiting, p).version = server[p]
                                                 ELSE Marked(p) \/ db[p] = server[p]
    BY DEF NothingForgotten
  <2>1. Untroubled /\ synced = latest
    BY DEF FeedInv, AliveIsSynced, Untroubled
  <2> QED BY <2>1 DEF GuideInv, QueueIsCurrent, TableIsCurrent
<1> QED BY <1>1, FeedInvariance, GuideInvariance, PTL
=============================================================================
