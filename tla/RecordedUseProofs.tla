------------------------- MODULE RecordedUseProofs -------------------------
(***************************************************************************)
(* Proofs about RecordedUse, for every set of recordings, calls, sessions   *)
(* and deleters, and for every size of the id space.                        *)
(***************************************************************************)
EXTENDS RecordedUse, SequenceTheorems, TLAPS

-----------------------------------------------------------------------------
(* The inductive invariant. *)

RequestKinds == {"request", "answer"}
AcquireKinds == {"acquire", "refused", "granted"}
ReleaseKinds == {"release", "released"}

DeleterStates ==
    [step : {"idle"}, rec : {NoRec}] \cup [step : {"prepared", "deleting"}, rec : Recs]

GateTypeOK ==
    /\ serviceTokens \in SUBSET Recs /\ recordingTokens \in SUBSET Recs
    /\ sessionUse \in [Sessions -> Recs \cup {Unknown, NoRec}]
    /\ deleter \in [Deleters -> DeleterStates]
    /\ recorded \in SUBSET Recs

TypeOK ==
    /\ nextCandidate \in Ids
    /\ pending \in SUBSET [id : Ids, call : Calls]
    /\ retired \in SUBSET Ids /\ retiredAcquires \in SUBSET retired
    /\ leased \in SUBSET Ids
    /\ tokens \in SUBSET [id : leased, call : Acquires]
    /\ releasing \in SUBSET leased /\ retiredReleases \in SUBSET leased
    /\ waiters \in Seq(Calls)
    /\ net \in SUBSET [kind : RequestKinds \cup AcquireKinds \cup ReleaseKinds, id : Ids, call : Calls]
    /\ spawned \in 0 .. MaxPeers /\ peer \in 0 .. spawned
    /\ ended \in SUBSET (1 .. spawned)
    /\ leases \in SUBSET [peer : 1 .. spawned, id : Ids, rec : Recs]
    /\ GateTypeOK
    /\ orphans \in SUBSET [peer : ended, rec : Recs]
    /\ capped \in SUBSET ended
    /\ made \in SUBSET Calls
    /\ failures \in 0 .. MaxSendFailures

\* An id is in one place at most: a request that waits, a request that timed out or a
\* lease.  While the service process is down its client holds nothing.
IdsApart ==
    /\ \A p, r \in pending : p.id = r.id => p = r
    /\ \A p \in pending : p.id \notin retired /\ p.id \notin leased
    /\ retired \cap leased = {}
    /\ peer = 0 => /\ nextCandidate = 1 /\ pending = {} /\ retired = {} /\ leased = {}
                   /\ waiters = <<>> /\ net = {}

\* A message under way belongs to the use of its id that is noted in the client.
MessageMatches(m) ==
    /\ \A other \in net : other.id = m.id => other = m
    /\ \A p \in pending : p.id = m.id => p.call = m.call
    /\ m.kind \in ReleaseKinds => m.id \in releasing \cup retiredReleases
    /\ m.kind \notin ReleaseKinds => m.id \in PendingIds \cup retired
    /\ m.kind \in AcquireKinds <=> m.call \in Acquires /\ m.kind \notin ReleaseKinds
    /\ m.kind \in AcquireKinds /\ m.id \in retired => m.id \in retiredAcquires

MessagesMatch == \A m \in net : MessageMatches(m)

\* A lease whose token the caller holds is not being given back.
TokensMatch ==
    \A t \in tokens :
        /\ t.id \notin releasing /\ t.id \notin retiredReleases
        /\ \A u \in tokens : u.id = t.id => u = t

\* The leases of the registry and the leases its client knows of.
LeasesMatch ==
    /\ \A t \in tokens : [peer |-> peer, id |-> t.id, rec |-> RecOf[t.call]] \in leases
    /\ \A m \in net :
          /\ m.kind = "granted" => [peer |-> peer, id |-> m.id, rec |-> RecOf[m.call]] \in leases
          /\ m.kind = "released" => \A l \in leases : ~(l.peer = peer /\ l.id = m.id)
    /\ \A l \in leases : l.peer = peer =>
          l.id \in leased \/ \E m \in net : m.id = l.id /\ m.kind = "granted"

\* Nobody waits for an id while one is free.
WaitersMeanFull == waiters # <<>> => Ids \subseteq UsedIds

\* A process that an ended service process left behind is covered by a lease until the
\* time limit of the cleanup.
OrphansCovered ==
    /\ peer \notin ended
    /\ \A o \in orphans : o.peer \notin capped =>
          \E l \in leases : l.peer = o.peer /\ l.rec = o.rec

\* The deletion tokens are those of the deletions that run, each for a recording of its
\* own, and no recording with a token is leased or recorded.
GatesMatch ==
    /\ serviceTokens = Deleting /\ recordingTokens = Deleting
    /\ \A d, e \in Deleters :
          deleter[d].step = "deleting" /\ deleter[e].step = "deleting"
             /\ deleter[d].rec = deleter[e].rec => d = e
    /\ \A l \in leases : l.rec \notin serviceTokens
    /\ \A s \in Sessions : sessionUse[s] \notin recordingTokens
    /\ \A s \in Sessions : sessionUse[s] = Unknown => recordingTokens = {}

ClientInv == TypeOK /\ IdsApart /\ MessagesMatch /\ TokensMatch
LeaseInv == LeasesMatch /\ LeasesAccounted /\ OrphansCovered
IInv == ClientInv /\ WaitersMeanFull /\ LeaseInv /\ GatesMatch

-----------------------------------------------------------------------------
(* What the steps of the client have in common. *)

\* The id after an id is an id.
LEMMA NextIdentifierType == \A id \in Ids : NextIdentifier(id) \in Ids
BY RecordedUseAssumption DEF NextIdentifier, Ids

\* Drain starts the first waiter on the id that became free, if there is one.
LEMMA DrainStep ==
    ASSUME TypeOK, NEW id \in Ids, NEW left, NEW messages, Drain(id, left, messages)
    PROVE  /\ waiters' \in Seq(Calls) /\ nextCandidate' \in Ids
           /\ \/ /\ waiters = <<>> /\ waiters' = <<>>
                 /\ pending' = left /\ net' = messages
              \/ \E c \in Calls :
                 /\ waiters # <<>>
                 /\ pending' = left \cup {[id |-> id, call |-> c]}
                 /\ net' = messages \cup {Message(RequestKind(c), id, c)}
<1>1. CASE waiters = <<>>
  BY <1>1 DEF Drain, TypeOK
<1>2. CASE waiters # <<>>
  <2>1. Head(waiters) \in Calls /\ Tail(waiters) \in Seq(Calls)
    BY <1>2, HeadTailProperties DEF TypeOK
  <2>2. NextIdentifier(id) \in Ids
    BY NextIdentifierType
  <2> QED BY <1>2, <2>1, <2>2 DEF Drain
<1> QED BY <1>1, <1>2

\* The end of the use of an id, by an answer, a failure or a release: nothing of that use
\* is left when the first waiter takes the id.
LEMMA FreeId ==
    ASSUME ClientInv, NEW m \in net, peer' = peer,
           Drain(m.id, {p \in pending : p.id # m.id}, net \ {m}),
           \A t \in tokens : t.id # m.id,
           retired' = retired \ {m.id}, retiredAcquires' = retiredAcquires \ {m.id},
           leased' = leased \ {m.id}, tokens' = tokens,
           releasing' = releasing \ {m.id}, retiredReleases' = retiredReleases \ {m.id}
    PROVE  /\ nextCandidate' \in Ids /\ pending' \in SUBSET [id : Ids, call : Calls]
           /\ retired' \in SUBSET Ids /\ retiredAcquires' \in SUBSET retired'
           /\ leased' \in SUBSET Ids /\ tokens' \in SUBSET [id : leased', call : Acquires]
           /\ releasing' \in SUBSET leased' /\ retiredReleases' \in SUBSET leased'
           /\ waiters' \in Seq(Calls)
           /\ net' \in SUBSET [kind : RequestKinds \cup AcquireKinds \cup ReleaseKinds,
                               id : Ids, call : Calls]
           /\ IdsApart' /\ MessagesMatch' /\ TokensMatch'
<1> DEFINE left == {p \in pending : p.id # m.id}
           messages == net \ {m}
<1>1. m.id \in Ids /\ peer # 0 /\ peer' # 0
  BY DEF ClientInv, TypeOK, IdsApart
<1>2. \A x \in messages : x.id # m.id /\ x \in net
  BY DEF ClientInv, MessagesMatch, MessageMatches
<1>3. /\ waiters' \in Seq(Calls) /\ nextCandidate' \in Ids
      /\ \/ pending' = left /\ net' = messages
         \/ \E c \in Calls :
            /\ pending' = left \cup {[id |-> m.id, call |-> c]}
            /\ net' = messages \cup {Message(RequestKind(c), m.id, c)}
  BY <1>1, DrainStep DEF ClientInv
<1>4. /\ nextCandidate' \in Ids /\ waiters' \in Seq(Calls)
      /\ retired' \in SUBSET Ids /\ retiredAcquires' \in SUBSET retired'
      /\ leased' \in SUBSET Ids /\ tokens' \in SUBSET [id : leased', call : Acquires]
      /\ releasing' \in SUBSET leased' /\ retiredReleases' \in SUBSET leased'
  BY <1>3 DEF ClientInv, TypeOK
<1>5. TokensMatch'
  BY DEF ClientInv, TokensMatch
<1>6. CASE pending' = left /\ net' = messages
  <2>1. /\ pending' \in SUBSET [id : Ids, call : Calls]
        /\ net' \in SUBSET [kind : RequestKinds \cup AcquireKinds \cup ReleaseKinds,
                            id : Ids, call : Calls]
    BY <1>6 DEF ClientInv, TypeOK
  <2>2. IdsApart'
    BY <1>1, <1>6 DEF ClientInv, IdsApart
  <2>3. MessagesMatch'
    BY <1>2, <1>6 DEF ClientInv, MessagesMatch, MessageMatches, PendingIds
  <2> QED BY <1>4, <1>5, <2>1, <2>2, <2>3
<1>7. ASSUME NEW c \in Calls, pending' = left \cup {[id |-> m.id, call |-> c]},
             net' = messages \cup {Message(RequestKind(c), m.id, c)}
      PROVE  /\ pending' \in SUBSET [id : Ids, call : Calls]
             /\ net' \in SUBSET [kind : RequestKinds \cup AcquireKinds \cup ReleaseKinds,
                                 id : Ids, call : Calls]
             /\ IdsApart' /\ MessagesMatch'
  <2>1. /\ pending' \in SUBSET [id : Ids, call : Calls]
        /\ net' \in SUBSET [kind : RequestKinds \cup AcquireKinds \cup ReleaseKinds,
                            id : Ids, call : Calls]
    BY <1>1, <1>7 DEF ClientInv, TypeOK, Message, RequestKind, RequestKinds, AcquireKinds
  <2>2. IdsApart'
    BY <1>1, <1>7 DEF ClientInv, IdsApart, TypeOK
  <2>3. MessagesMatch'
    <3> DEFINE n == Message(RequestKind(c), m.id, c)
    <3>1. /\ n.id = m.id /\ n.call = c /\ n.kind \notin ReleaseKinds
          /\ n.kind \in AcquireKinds <=> c \in Acquires
      BY DEF Message, RequestKind, AcquireKinds, ReleaseKinds
    <3>2. /\ m.id \in PendingIds'
          /\ \A id \in PendingIds : id # m.id => id \in PendingIds'
      <4>1. /\ [id |-> m.id, call |-> c] \in pending'
            /\ [id |-> m.id, call |-> c].id = m.id
        BY <1>7
      <4>2. \A p \in pending : p.id # m.id => p \in pending'
        BY <1>7
      <4> QED BY <4>1, <4>2 DEF PendingIds
    <3>5. net' = messages \cup {n}
      BY <1>7
    <3> HIDE DEF n
    <3> SUFFICES ASSUME NEW x \in net'
                 PROVE  MessageMatches(x)'
      BY DEF MessagesMatch
    <3>3. CASE x = n
      BY <1>2, <1>7, <3>1, <3>2, <3>3, <3>5 DEF MessageMatches
    <3>4. CASE x \in messages
      BY <1>2, <1>7, <3>1, <3>2, <3>4, <3>5 DEF ClientInv, MessagesMatch, MessageMatches
    <3> QED BY <3>3, <3>4, <3>5
  <2> QED BY <2>1, <2>2, <2>3
<1> QED BY <1>3, <1>4, <1>5, <1>6, <1>7
-----------------------------------------------------------------------------
(* Types, ids, messages and tokens. *)

\* The invariant of ids, messages and tokens holds at the start.
LEMMA ClientInit == Init => ClientInv
<1> SUFFICES ASSUME Init PROVE ClientInv
  OBVIOUS
<1>1. TypeOK
  BY RecordedUseAssumption DEF Init, TypeOK, GateTypeOK, DeleterStates, Ids
<1> QED BY <1>1 DEF Init, ClientInv, IdsApart, MessagesMatch, TokensMatch

\* A step that leaves the client, the messages and the registered peer alone keeps what is
\* said of them.
LEMMA ClientUnchanged ==
    ASSUME ClientInv, UNCHANGED <<client, net, peer>>
    PROVE  IdsApart' /\ MessagesMatch' /\ TokensMatch'
BY DEF ClientInv, IdsApart, MessagesMatch, MessageMatches, TokensMatch, PendingIds, client

\* The steps of the two processes keep the invariant of ids, messages and tokens.
LEMMA AnswersKeepClientInv ==
    ASSUME ClientInv, Answers
    PROVE  ClientInv'
<1> USE DEF client, registry, gates, leftover, GateTypeOK
<1> PICK m \in net : \/ Answered(m) \/ Granted(m) \/ GrantedLate(m) \/ Released(m)
                     \/ ServeRequest(m) \/ ServeAcquire(m) \/ ServeRelease(m)
  BY DEF Answers
<1>1. /\ m.id \in Ids /\ m.call \in Calls /\ peer # 0 /\ peer \in 1 .. spawned
      /\ MessageMatches(m) /\ TypeOK /\ IdsApart /\ MessagesMatch /\ TokensMatch
  BY DEF ClientInv, MessagesMatch, TypeOK, IdsApart
<1>2. CASE Answered(m)
  <2>1. /\ m.id \notin leased /\ m.id \notin releasing /\ m.id \notin retiredReleases
        /\ \A t \in tokens : t.id # m.id
    <3>1. m.id \in PendingIds \cup retired
      BY <1>1, <1>2 DEF Answered, MessageMatches, ReleaseKinds
    <3> QED BY <1>1, <3>1 DEF PendingIds, IdsApart, TypeOK
  <2>2. /\ retired' = retired \ {m.id} /\ retiredAcquires' = retiredAcquires \ {m.id}
        /\ leased' = leased \ {m.id} /\ tokens' = tokens /\ peer' = peer
        /\ releasing' = releasing \ {m.id} /\ retiredReleases' = retiredReleases \ {m.id}
        /\ Drain(m.id, {p \in pending : p.id # m.id}, net \ {m})
    BY <1>2, <2>1 DEF Answered
  <2> QED BY <1>1, <1>2, <2>1, <2>2, FreeId DEF Answered, ClientInv, TypeOK
<1>3. CASE Granted(m)
  <2>1. m.kind = "granted" /\ m.call \in Acquires /\ m.id \notin leased /\ m.id \notin retired
    BY <1>1, <1>3 DEF Granted, MessageMatches, AcquireKinds, PendingIds, IdsApart
  <2>2. TypeOK'
    BY <1>1, <1>3, <2>1 DEF Granted, TypeOK
  <2>3. IdsApart'
    BY <1>1, <1>3, <2>1 DEF Granted, IdsApart
  <2>4. MessagesMatch'
    <3> SUFFICES ASSUME NEW x \in net' PROVE MessageMatches(x)'
      BY DEF MessagesMatch
    <3>1. x \in net /\ x.id # m.id /\ MessageMatches(x)
      BY <1>1, <1>3 DEF Granted, MessagesMatch, MessageMatches
    <3>2. \A id \in PendingIds : id # m.id => id \in PendingIds'
      BY <1>3 DEF Granted, PendingIds
    <3> QED BY <1>3, <3>1, <3>2 DEF Granted, MessageMatches
  <2>5. TokensMatch'
    BY <1>1, <1>3, <2>1 DEF Granted, TokensMatch, TypeOK
  <2> QED BY <2>2, <2>3, <2>4, <2>5 DEF ClientInv
<1>4. CASE GrantedLate(m)
  <2>1. m.id \in retired /\ m.id \notin PendingIds /\ m.id \notin leased
    BY <1>1, <1>4 DEF GrantedLate, TypeOK, IdsApart, PendingIds
  <2>2. TypeOK'
    BY <1>1, <1>4 DEF GrantedLate, TypeOK, Message, ReleaseKinds
  <2>3. IdsApart'
    BY <1>1, <1>4, <2>1 DEF GrantedLate, IdsApart, PendingIds
  <2>4. MessagesMatch'
    <3> DEFINE n == Message("release", m.id, m.call)
    <3>1. n.id = m.id /\ n.kind \in ReleaseKinds /\ n.kind \notin AcquireKinds
      BY DEF Message, ReleaseKinds, AcquireKinds
    <3>2. net' = (net \ {m}) \cup {n} /\ \A x \in net \ {m} : x.id # m.id /\ MessageMatches(x)
      BY <1>1, <1>4 DEF GrantedLate, MessagesMatch, MessageMatches
    <3>3. PendingIds' = PendingIds /\ \A p \in pending : p.id # m.id
      BY <1>4, <2>1 DEF GrantedLate, PendingIds
    <3> HIDE DEF n
    <3> SUFFICES ASSUME NEW x \in net' PROVE MessageMatches(x)'
      BY DEF MessagesMatch
    <3>4. CASE x = n
      BY <1>4, <3>1, <3>2, <3>3, <3>4 DEF GrantedLate, MessageMatches
    <3>5. CASE x \in net \ {m}
      BY <1>4, <3>1, <3>2, <3>3, <3>5 DEF GrantedLate, MessageMatches
    <3> QED BY <3>2, <3>4, <3>5
  <2>5. TokensMatch'
    BY <1>1, <1>4, <2>1 DEF GrantedLate, TokensMatch, TypeOK
  <2> QED BY <2>2, <2>3, <2>4, <2>5 DEF ClientInv
<1>5. CASE Released(m)
  <2>1. /\ m.id \in leased /\ m.id \notin retired /\ \A p \in pending : p.id # m.id
        /\ \A t \in tokens : t.id # m.id
    BY <1>1, <1>5 DEF Released, IdsApart, TypeOK, TokensMatch
  <2>2. /\ retired' = retired \ {m.id} /\ retiredAcquires' = retiredAcquires \ {m.id}
        /\ leased' = leased \ {m.id} /\ tokens' = tokens /\ peer' = peer
        /\ releasing' = releasing \ {m.id} /\ retiredReleases' = retiredReleases \ {m.id}
    BY <1>1, <1>5, <2>1 DEF Released, TypeOK
  <2>3. Drain(m.id, {p \in pending : p.id # m.id}, net \ {m})
    <3>1. pending = {p \in pending : p.id # m.id}
      BY <2>1
    <3> QED BY <1>5, <3>1 DEF Released
  <2> QED BY <1>1, <1>5, <2>1, <2>2, <2>3, FreeId DEF Released, ClientInv, TypeOK
<1>6. ASSUME NEW kind \in {"answer", "refused", "granted", "released"},
             net' = (net \ {m}) \cup {Message(kind, m.id, m.call)},
             UNCHANGED client, peer' = peer,
             \/ m.kind = "request" /\ kind = "answer"
             \/ m.kind = "acquire" /\ kind \in {"refused", "granted"}
             \/ m.kind = "release" /\ kind = "released"
      PROVE  IdsApart' /\ MessagesMatch' /\ TokensMatch'
  <2> DEFINE n == Message(kind, m.id, m.call)
  <2>1. /\ n.id = m.id /\ n.call = m.call
        /\ n.kind \in ReleaseKinds <=> m.kind \in ReleaseKinds
        /\ n.kind \in AcquireKinds <=> m.kind \in AcquireKinds
    BY <1>6 DEF Message, ReleaseKinds, AcquireKinds
  <2>2. net' = (net \ {m}) \cup {n}
    BY <1>6
  <2>3. \A x \in net \ {m} : x.id # m.id /\ MessageMatches(x)
    BY <1>1 DEF MessagesMatch, MessageMatches
  <2> HIDE DEF n
  <2>4. IdsApart' /\ TokensMatch'
    BY <1>1, <1>6 DEF IdsApart, TokensMatch
  <2>5. MessagesMatch'
    <3> SUFFICES ASSUME NEW x \in net' PROVE MessageMatches(x)'
      BY DEF MessagesMatch
    <3>1. PendingIds' = PendingIds
      BY <1>6 DEF PendingIds
    <3>2. CASE x = n
      BY <1>1, <1>6, <2>1, <2>2, <2>3, <3>1, <3>2 DEF MessageMatches
    <3>3. CASE x \in net \ {m}
      BY <1>6, <2>1, <2>2, <2>3, <3>1, <3>3 DEF MessageMatches
    <3> QED BY <2>2, <3>2, <3>3
  <2> QED BY <2>4, <2>5
<1>7. CASE ServeRequest(m)
  <2>1. TypeOK'
    BY <1>1, <1>7 DEF ServeRequest, TypeOK, Message, RequestKinds
  <2>2. IdsApart' /\ MessagesMatch' /\ TokensMatch'
    BY <1>6, <1>7 DEF ServeRequest
  <2> QED BY <2>1, <2>2 DEF ClientInv
<1>8. CASE ServeAcquire(m)
  <2>1. /\ UNCHANGED client /\ peer' = peer /\ m.kind = "acquire"
        /\ \/ net' = (net \ {m}) \cup {Message("refused", m.id, m.call)}
           \/ net' = (net \ {m}) \cup {Message("granted", m.id, m.call)}
    BY <1>8 DEF ServeAcquire
  <2>2. leases' \in SUBSET [peer : 1 .. spawned, id : Ids, rec : Recs]
    BY <1>1, <1>8, RecordedUseAssumption DEF ServeAcquire, TypeOK
  <2>3. TypeOK'
    BY <1>1, <1>8, <2>1, <2>2 DEF ServeAcquire, TypeOK, Message, AcquireKinds
  <2>4. IdsApart' /\ MessagesMatch' /\ TokensMatch'
    BY <1>6, <2>1
  <2> QED BY <2>3, <2>4 DEF ClientInv
<1>9. CASE ServeRelease(m)
  <2>1. TypeOK'
    BY <1>1, <1>9 DEF ServeRelease, TypeOK, Message, ReleaseKinds
  <2>2. IdsApart' /\ MessagesMatch' /\ TokensMatch'
    BY <1>6, <1>9 DEF ServeRelease
  <2> QED BY <2>1, <2>2 DEF ClientInv
<1> QED BY <1>2, <1>3, <1>4, <1>5, <1>7, <1>8, <1>9

\* A call that is made, let in, sent, given up or released keeps each id in one place
\* and every message with the entry of its id: a new id is taken only when it is free.
LEMMA ClientNextKeepsClientInv ==
    ASSUME ClientInv, ClientNext
    PROVE  ClientInv'
<1> USE DEF client, registry, gates, leftover, GateTypeOK
<1>1. TypeOK /\ IdsApart /\ MessagesMatch /\ TokensMatch
  BY DEF ClientInv
<1>2. ASSUME NEW c \in Calls, Call(c) PROVE ClientInv'
  <2>1. CASE waiters' = Append(waiters, c) /\ UNCHANGED <<nextCandidate, pending, net>>
    <3>1. waiters' \in Seq(Calls)
      BY <1>1, <2>1, AppendProperties DEF TypeOK
    <3>2. TypeOK'
      BY <1>1, <1>2, <2>1, <3>1 DEF Call, TypeOK
    <3>3. IdsApart' /\ MessagesMatch' /\ TokensMatch'
      BY <1>1, <1>2, <2>1 DEF Call, IdsApart, MessagesMatch, MessageMatches, TokensMatch, PendingIds
    <3> QED BY <3>2, <3>3 DEF ClientInv
  <2>2. ASSUME NEW id \in Ids \ UsedIds, nextCandidate' = NextIdentifier(id),
               pending' = pending \cup {[id |-> id, call |-> c]},
               net' = net \cup {Message(RequestKind(c), id, c)}, waiters' = waiters
        PROVE  ClientInv'
    <3> DEFINE n == Message(RequestKind(c), id, c)
    <3>1. /\ n.id = id /\ n.call = c /\ n.kind \notin ReleaseKinds
          /\ n.kind \in AcquireKinds <=> c \in Acquires
          /\ n \in [kind : RequestKinds \cup AcquireKinds \cup ReleaseKinds, id : Ids, call : Calls]
      BY DEF Message, RequestKind, AcquireKinds, RequestKinds, ReleaseKinds
    <3>2. id \notin retired /\ id \notin leased /\ \A r \in pending : r.id # id
      BY DEF UsedIds, PendingIds
    <3>3. net' = net \cup {n} /\ nextCandidate' \in Ids
      BY <2>2, NextIdentifierType
    <3>4. \A x \in net : x.id # id /\ MessageMatches(x)
      BY <1>1 DEF MessagesMatch, MessageMatches, UsedIds, TypeOK
    <3>5. id \in PendingIds' /\ \A x \in PendingIds : x \in PendingIds'
      <4>1. [id |-> id, call |-> c] \in pending' /\ [id |-> id, call |-> c].id = id
        BY <2>2
      <4> QED BY <2>2, <4>1 DEF PendingIds
    <3> HIDE DEF n
    <3>6. TypeOK'
      BY <1>1, <1>2, <2>2, <3>1, <3>3 DEF Call, TypeOK
    <3>7. IdsApart'
      BY <1>1, <1>2, <2>2, <3>2 DEF Call, IdsApart
    <3>8. MessagesMatch'
      <4> SUFFICES ASSUME NEW x \in net' PROVE MessageMatches(x)'
        BY DEF MessagesMatch
      <4>1. CASE x = n
        BY <1>2, <2>2, <3>1, <3>2, <3>3, <3>4, <3>5, <4>1 DEF Call, MessageMatches
      <4>2. CASE x \in net
        BY <1>2, <2>2, <3>1, <3>2, <3>3, <3>4, <3>5, <4>2 DEF Call, MessageMatches
      <4> QED BY <3>3, <4>1, <4>2
    <3>9. TokensMatch'
      BY <1>1, <1>2 DEF Call, TokensMatch
    <3> QED BY <3>6, <3>7, <3>8, <3>9 DEF ClientInv
  <2> QED BY <1>2, <2>1, <2>2 DEF Call
<1>3. ASSUME NEW q \in pending, TimeoutRequest(q) PROVE ClientInv'
  <2>1. TypeOK'
    BY <1>1, <1>3 DEF TimeoutRequest, TypeOK
  <2>2. IdsApart'
    BY <1>1, <1>3 DEF TimeoutRequest, IdsApart
  <2>3. MessagesMatch'
    <3> SUFFICES ASSUME NEW x \in net PROVE MessageMatches(x)'
      BY <1>3 DEF TimeoutRequest, MessagesMatch
    <3>1. MessageMatches(x)
      BY <1>1 DEF MessagesMatch
    <3>2. \A id \in PendingIds : id \in PendingIds' \/ id = q.id
      BY <1>3 DEF TimeoutRequest, PendingIds
    <3>3. x.id = q.id => x.call = q.call
      BY <3>1 DEF MessageMatches
    <3> QED BY <1>3, <3>1, <3>2, <3>3 DEF TimeoutRequest, MessageMatches
  <2>4. TokensMatch'
    BY <1>1, <1>3 DEF TimeoutRequest, TokensMatch
  <2> QED BY <2>1, <2>2, <2>3, <2>4 DEF ClientInv
<1>4. ASSUME NEW m \in net, SendFails(m) PROVE ClientInv'
  <2>1. /\ m.id \notin retired /\ m.id \notin leased /\ m.id \in Ids
    BY <1>1, <1>4 DEF SendFails, PendingIds, IdsApart, TypeOK
  <2>2. /\ retired' = retired \ {m.id} /\ retiredAcquires' = retiredAcquires \ {m.id}
        /\ leased' = leased \ {m.id} /\ tokens' = tokens /\ peer' = peer
        /\ releasing' = releasing \ {m.id} /\ retiredReleases' = retiredReleases \ {m.id}
        /\ \A t \in tokens : t.id # m.id
        /\ Drain(m.id, {p \in pending : p.id # m.id}, net \ {m})
    BY <1>1, <1>4, <2>1 DEF SendFails, TypeOK
  <2>3. failures' \in 0 .. MaxSendFailures
    BY <1>1, <1>4, RecordedUseAssumption DEF SendFails, TypeOK
  <2> QED BY <1>1, <1>4, <2>2, <2>3, FreeId DEF SendFails, ClientInv, TypeOK
<1>5. ASSUME NEW m \in net, ReleaseSendFails(m) PROVE ClientInv'
  <2>1. TypeOK'
    BY <1>1, <1>5, RecordedUseAssumption DEF ReleaseSendFails, TypeOK
  <2>2. IdsApart' /\ TokensMatch'
    BY <1>1, <1>5 DEF ReleaseSendFails, IdsApart, TokensMatch
  <2>3. MessagesMatch'
    BY <1>1, <1>5 DEF ReleaseSendFails, MessagesMatch, MessageMatches, PendingIds
  <2> QED BY <2>1, <2>2, <2>3 DEF ClientInv
<1>6. ASSUME NEW t \in tokens, ReleaseToken(t) PROVE ClientInv'
  <2> DEFINE n == Message("release", t.id, t.call)
  <2>1. /\ t.id \in leased /\ t.id \notin releasing /\ t.id \notin retiredReleases
        /\ t.id \in Ids /\ t.call \in Calls
    BY <1>1, RecordedUseAssumption DEF TypeOK, TokensMatch
  <2>2. /\ n.id = t.id /\ n.kind \in ReleaseKinds /\ n.kind \notin AcquireKinds
        /\ n \in [kind : RequestKinds \cup AcquireKinds \cup ReleaseKinds, id : Ids, call : Calls]
    BY <2>1 DEF Message, ReleaseKinds, AcquireKinds
  <2>3. net' = net \cup {n} /\ releasing' = releasing \cup {t.id} /\ tokens' = tokens \ {t}
    BY <1>6, <2>1 DEF ReleaseToken
  <2>4. \A x \in net : x.id # t.id /\ MessageMatches(x)
    BY <1>1, <2>1 DEF MessagesMatch, MessageMatches, IdsApart, PendingIds
  <2>5. peer # 0 /\ \A p \in pending : p.id # t.id
    BY <1>1, <2>1 DEF IdsApart
  <2> HIDE DEF n
  <2>6. TypeOK'
    BY <1>1, <1>6, <2>1, <2>2, <2>3 DEF ReleaseToken, TypeOK
  <2>7. IdsApart'
    BY <1>1, <1>6, <2>5 DEF ReleaseToken, IdsApart
  <2>8. MessagesMatch'
    <3> SUFFICES ASSUME NEW x \in net' PROVE MessageMatches(x)'
      BY DEF MessagesMatch
    <3>1. PendingIds' = PendingIds
      BY <1>6 DEF ReleaseToken, PendingIds
    <3>2. CASE x = n
      BY <1>6, <2>2, <2>3, <2>4, <2>5, <3>1, <3>2 DEF ReleaseToken, MessageMatches
    <3>3. CASE x \in net
      BY <1>6, <2>2, <2>3, <2>4, <3>1, <3>3 DEF ReleaseToken, MessageMatches
    <3> QED BY <2>3, <3>2, <3>3
  <2>9. TokensMatch'
    BY <1>1, <1>6, <2>3 DEF ReleaseToken, TokensMatch
  <2> QED BY <2>6, <2>7, <2>8, <2>9 DEF ClientInv
<1>7. ASSUME NEW id \in releasing, TimeoutRelease(id) PROVE ClientInv'
  <2>1. TypeOK'
    BY <1>1, <1>7 DEF TimeoutRelease, TypeOK
  <2>2. IdsApart' /\ TokensMatch'
    BY <1>1, <1>7 DEF TimeoutRelease, IdsApart, TokensMatch
  <2>3. MessagesMatch'
    BY <1>1, <1>7 DEF TimeoutRelease, MessagesMatch, MessageMatches, PendingIds
  <2> QED BY <2>1, <2>2, <2>3 DEF ClientInv
<1> QED BY <1>2, <1>3, <1>4, <1>5, <1>6, <1>7 DEF ClientNext

\* A service process that starts finds empty maps and no messages; one that ends takes
\* its own with it.
LEMMA PeerNextKeepsClientInv ==
    ASSUME ClientInv, PeerNext
    PROVE  ClientInv'
<1> USE DEF client, registry, gates, leftover, GateTypeOK
<1>1. TypeOK /\ IdsApart /\ MessagesMatch /\ TokensMatch
  BY DEF ClientInv
<1>2. CASE Register
  <2>1. spawned \in Nat /\ spawned' = spawned + 1 /\ spawned + 1 \in 0 .. MaxPeers
    BY <1>1, <1>2, RecordedUseAssumption DEF Register, TypeOK
  <2>2. TypeOK'
    <3>1. /\ peer' \in 0 .. spawned' /\ 1 .. spawned \subseteq 1 .. spawned'
          /\ ended' = ended /\ leases' = leases
      BY <1>2, <2>1 DEF Register
    <3>2. /\ ended' \in SUBSET (1 .. spawned')
          /\ leases' \in SUBSET [peer : 1 .. spawned', id : Ids, rec : Recs]
      BY <1>1, <3>1 DEF TypeOK
    <3> QED BY <1>1, <1>2, <2>1, <3>1, <3>2 DEF Register, TypeOK
  <2>3. IdsApart' /\ MessagesMatch' /\ TokensMatch'
    BY <1>1, <1>2, <2>1 DEF Register, IdsApart, MessagesMatch, MessageMatches, TokensMatch, PendingIds
  <2> QED BY <2>2, <2>3 DEF ClientInv
<1>3. CASE PeerTerminal
  <2>1. /\ ended' \in SUBSET (1 .. spawned') /\ capped' \in SUBSET ended' /\ peer' \in 0 .. spawned'
    BY <1>1, <1>3 DEF PeerTerminal, TypeOK
  <2>2. orphans' \in SUBSET [peer : ended', rec : Recs]
    <3>1. \A t \in tokens : RecOf[t.call] \in Recs
      BY <1>1, RecordedUseAssumption DEF TypeOK
    <3> QED BY <1>1, <1>3, <3>1 DEF PeerTerminal, TypeOK
  <2>3. 1 \in Ids /\ waiters' \in Seq(Calls)
    BY <1>3, RecordedUseAssumption DEF PeerTerminal, Ids
  <2>4. TypeOK'
    BY <1>1, <1>3, <2>1, <2>2, <2>3 DEF PeerTerminal, TypeOK
  <2>5. IdsApart' /\ MessagesMatch' /\ TokensMatch'
    BY <1>3 DEF PeerTerminal, IdsApart, MessagesMatch, TokensMatch
  <2> QED BY <2>4, <2>5 DEF ClientInv
<1>4. ASSUME NEW o \in orphans, OrphanStops(o) PROVE ClientInv'
  <2>1. TypeOK'
    BY <1>1, <1>4 DEF OrphanStops, TypeOK
  <2> QED BY <1>4, <2>1, ClientUnchanged DEF OrphanStops, ClientInv
<1>5. ASSUME NEW p \in ended, Cleanup(p) PROVE ClientInv'
  <2>1. TypeOK'
    BY <1>1, <1>5 DEF Cleanup, TypeOK
  <2> QED BY <1>5, <2>1, ClientUnchanged DEF Cleanup, ClientInv
<1> QED BY <1>2, <1>3, <1>4, <1>5 DEF PeerNext

\* The sessions and the deletions of the operator process touch nothing of the client.
LEMMA GateNextKeepsClientInv ==
    ASSUME ClientInv, GateNext
    PROVE  ClientInv'
<1> USE DEF client, registry, gates, leftover
<1>1. TypeOK
  BY DEF ClientInv
<1>2. UNCHANGED <<client, net, registry, leftover, made, failures>>
  BY DEF GateNext, SessionUnknown, SessionEnds, SessionActive, TakeGates, DeletionEnds, PrepareDeletion
<1>3. GateTypeOK'
  <2>1. GateTypeOK
    BY <1>1 DEF TypeOK
  <2>2. ASSUME NEW s \in Sessions,
               SessionUnknown(s) \/ SessionEnds(s) \/ \E rec \in Recs : SessionActive(s, rec)
        PROVE  GateTypeOK'
    BY <2>1, <2>2 DEF GateTypeOK, SessionUnknown, SessionEnds, SessionActive
  <2>3. ASSUME NEW d \in Deleters, NEW rec \in Recs, PrepareDeletion(d, rec)
        PROVE  GateTypeOK'
    BY <2>1, <2>3 DEF GateTypeOK, DeleterStates, PrepareDeletion
  <2>4. ASSUME NEW d \in Deleters, TakeGates(d)
        PROVE  GateTypeOK'
    BY <2>1, <2>4 DEF GateTypeOK, DeleterStates, TakeGates
  <2>5. ASSUME NEW d \in Deleters, DeletionEnds(d)
        PROVE  GateTypeOK'
    BY <2>1, <2>5 DEF GateTypeOK, DeleterStates, DeletionEnds
  <2> QED BY <2>2, <2>3, <2>4, <2>5 DEF GateNext
<1>4. TypeOK'
  BY <1>1, <1>2, <1>3 DEF TypeOK
<1> QED BY <1>2, <1>4, ClientUnchanged DEF ClientInv

\* Every step keeps ids apart and messages with the entries they answer.
LEMMA ClientStep ==
    ASSUME ClientInv, [Next]_vars
    PROVE  ClientInv'
<1>1. CASE UNCHANGED vars
  <2>1. TypeOK'
    BY <1>1 DEF vars, client, registry, gates, leftover, ClientInv, TypeOK, GateTypeOK
  <2> QED BY <1>1, <2>1, ClientUnchanged DEF vars, registry, ClientInv
<1> QED BY <1>1, AnswersKeepClientInv, ClientNextKeepsClientInv, PeerNextKeepsClientInv,
          GateNextKeepsClientInv DEF Next
-----------------------------------------------------------------------------
(* The leases of the registry. *)

\* No lease, no message and no orphan at the start.
LEMMA LeaseInit == Init => LeaseInv
BY DEF Init, LeaseInv, LeasesMatch, LeasesAccounted, OrphansCovered

\* A message under way is the only one of its id.
LEMMA OneMessage ==
    ASSUME ClientInv, NEW m \in net, NEW x \in net, x.id = m.id
    PROVE  x = m
BY DEF ClientInv, MessagesMatch, MessageMatches

\* The end of the use of an id that has no lease leaves the leases accounted for.
LEMMA FreeIdWithoutLease ==
    ASSUME ClientInv, LeaseInv, NEW m \in net,
           Drain(m.id, {p \in pending : p.id # m.id}, net \ {m}),
           \A l \in leases : l.peer = peer => l.id # m.id,
           leased' = leased \ {m.id}, failures' = failures \/ failures' # 0,
           UNCHANGED <<tokens, registry, leftover>>
    PROVE  LeaseInv'
<1>1. m.id \in Ids /\ TypeOK
  BY DEF ClientInv, TypeOK
<1>2. \A x \in net : x.id # m.id => x \in net'
  BY DEF Drain
<1>3. \A x \in net' : x.kind \notin {"acquire", "request"} => x \in net
  BY DEF Drain, Message, RequestKind
<1>4. LeasesMatch'
  BY <1>2, <1>3 DEF LeaseInv, LeasesMatch, registry
<1>5. LeasesAccounted'
  BY <1>2, <1>3 DEF LeaseInv, LeasesAccounted, registry
<1>6. OrphansCovered'
  BY DEF LeaseInv, OrphansCovered, registry, leftover
<1> QED BY <1>4, <1>5, <1>6 DEF LeaseInv

\* The leases stay accounted for when the registry serves a message and when the client
\* takes an answer.
LEMMA AnswersKeepLeaseInv ==
    ASSUME ClientInv, LeaseInv, Answers
    PROVE  LeaseInv'
<1> USE DEF client, registry, gates, leftover
<1> PICK m \in net : \/ Answered(m) \/ Granted(m) \/ GrantedLate(m) \/ Released(m)
                     \/ ServeRequest(m) \/ ServeAcquire(m) \/ ServeRelease(m)
  BY DEF Answers
<1>1. /\ m.id \in Ids /\ MessageMatches(m) /\ TypeOK /\ IdsApart /\ TokensMatch
      /\ LeasesMatch /\ LeasesAccounted /\ OrphansCovered
  BY DEF ClientInv, LeaseInv, MessagesMatch, TypeOK
<1>2. \A x \in net : x.id = m.id => x = m
  BY OneMessage
<1>3. \A l \in leases : l.peer = peer /\ l.id = m.id => m.kind \in ReleaseKinds \/ m.kind = "granted"
  <2>1. m.kind \notin ReleaseKinds => m.id \notin leased
    BY <1>1 DEF MessageMatches, IdsApart, PendingIds
  <2> QED BY <1>1, <1>2, <2>1 DEF LeasesMatch
<1>4. CASE Answered(m)
  <2>1. \A l \in leases : l.peer = peer => l.id # m.id
    BY <1>3, <1>4 DEF Answered, ReleaseKinds
  <2>2. m.id \notin leased
    BY <1>1, <1>4 DEF Answered, MessageMatches, ReleaseKinds, IdsApart, PendingIds
  <2> QED BY <1>4, <2>1, <2>2, FreeIdWithoutLease DEF Answered
<1>5. CASE Released(m)
  <2>1. \A l \in leases : l.peer = peer => l.id # m.id
    BY <1>1, <1>5 DEF Released, LeasesMatch
  <2>2. {p \in pending : p.id # m.id} = pending
    <3>1. m.id \in leased
      BY <1>1, <1>5 DEF Released, TypeOK
    <3> QED BY <1>1, <3>1 DEF IdsApart
  <2> QED BY <1>5, <2>1, <2>2, FreeIdWithoutLease DEF Released
<1>6. CASE Granted(m)
  <2>1. LeasesMatch'
    BY <1>1, <1>6 DEF Granted, LeasesMatch
  <2>2. LeasesAccounted'
    <3>1. [id |-> m.id, call |-> m.call] \in tokens' /\ [id |-> m.id, call |-> m.call].id = m.id
      BY <1>6 DEF Granted
    <3> QED BY <1>1, <1>2, <1>6, <3>1 DEF Granted, LeasesAccounted
  <2>3. OrphansCovered'
    BY <1>1, <1>6 DEF Granted, OrphansCovered
  <2> QED BY <2>1, <2>2, <2>3 DEF LeaseInv
<1>7. CASE GrantedLate(m)
  <2> DEFINE n == Message("release", m.id, m.call)
  <2>1. n.id = m.id /\ n.kind = "release" /\ net' = (net \ {m}) \cup {n} /\ leased' = leased \cup {m.id}
    BY <1>7 DEF Message, GrantedLate
  <2>2. m.kind = "granted" /\ UNCHANGED <<peer, leases, tokens, failures>>
    BY <1>7 DEF GrantedLate
  <2>3. [peer |-> peer, id |-> m.id, rec |-> RecOf[m.call]] \in leases
    BY <1>1, <2>2 DEF LeasesMatch
  <2> HIDE DEF n
  <2>4. LeasesMatch'
    BY <1>1, <1>2, <2>1, <2>2 DEF LeasesMatch
  <2>5. LeasesAccounted'
    BY <1>1, <1>2, <2>1, <2>2, <2>3 DEF LeasesAccounted
  <2>6. OrphansCovered'
    BY <1>1, <1>7 DEF GrantedLate, OrphansCovered
  <2> QED BY <2>4, <2>5, <2>6 DEF LeaseInv
<1>8. CASE ServeRequest(m)
  <2> DEFINE n == Message("answer", m.id, m.call)
  <2>1. n.id = m.id /\ n.kind = "answer" /\ net' = (net \ {m}) \cup {n} /\ m.kind = "request"
    BY <1>8 DEF Message, ServeRequest
  <2>2. UNCHANGED <<peer, leases, tokens, leased, failures>>
    BY <1>8 DEF ServeRequest
  <2> HIDE DEF n
  <2>3. LeasesMatch' /\ LeasesAccounted'
    BY <1>1, <2>1, <2>2 DEF LeasesMatch, LeasesAccounted
  <2>4. OrphansCovered'
    BY <1>1, <1>8 DEF ServeRequest, OrphansCovered
  <2> QED BY <2>3, <2>4 DEF LeaseInv
<1>9. CASE ServeAcquire(m)
  <2>1. /\ m.kind = "acquire" /\ UNCHANGED <<peer, tokens, leased, failures, orphans, capped, ended>>
        /\ \A l \in leases : l.peer = peer => l.id # m.id
    BY <1>3, <1>9 DEF ServeAcquire, ReleaseKinds
  <2>2. CASE net' = (net \ {m}) \cup {Message("refused", m.id, m.call)} /\ leases' = leases
    <3> DEFINE n == Message("refused", m.id, m.call)
    <3>1. n.id = m.id /\ n.kind = "refused" /\ net' = (net \ {m}) \cup {n}
      BY <2>2 DEF Message
    <3> HIDE DEF n
    <3>2. LeasesMatch' /\ LeasesAccounted'
      BY <1>1, <2>1, <2>2, <3>1 DEF LeasesMatch, LeasesAccounted
    <3>3. OrphansCovered'
      BY <1>1, <2>1, <2>2 DEF OrphansCovered
    <3> QED BY <3>2, <3>3 DEF LeaseInv
  <2>3. CASE /\ net' = (net \ {m}) \cup {Message("granted", m.id, m.call)}
             /\ leases' = leases \cup {[peer |-> peer, id |-> m.id, rec |-> RecOf[m.call]]}
    <3> DEFINE n == Message("granted", m.id, m.call)
               k == [peer |-> peer, id |-> m.id, rec |-> RecOf[m.call]]
    <3>1. n.id = m.id /\ n.kind = "granted" /\ n.call = m.call /\ net' = (net \ {m}) \cup {n}
      BY <2>3 DEF Message
    <3>2. leases' = leases \cup {k} /\ k.id = m.id
      BY <2>3
    <3>3. [peer |-> peer, id |-> n.id, rec |-> RecOf[n.call]] = k
      BY <3>1
    <3> HIDE DEF n, k
    <3>4. LeasesMatch'
      <4>1. \A t \in tokens : [peer |-> peer, id |-> t.id, rec |-> RecOf[t.call]] \in leases'
        BY <1>1, <3>2 DEF LeasesMatch
      <4>2. \A x \in net' :
              /\ x.kind = "granted" => [peer |-> peer, id |-> x.id, rec |-> RecOf[x.call]] \in leases'
              /\ x.kind = "released" => \A l \in leases' : ~(l.peer = peer /\ l.id = x.id)
        BY <1>1, <1>2, <3>1, <3>2, <3>3 DEF LeasesMatch
      <4>3. \A l \in leases' : l.peer = peer =>
              l.id \in leased \/ \E x \in net' : x.id = l.id /\ x.kind = "granted"
        BY <1>1, <2>1, <3>1, <3>2 DEF LeasesMatch
      <4> QED BY <2>1, <4>1, <4>2, <4>3 DEF LeasesMatch
    <3>5. LeasesAccounted'
      BY <1>1, <2>1, <3>1, <3>2 DEF LeasesAccounted
    <3>6. OrphansCovered'
      BY <1>1, <2>1, <3>2 DEF OrphansCovered
    <3> QED BY <3>4, <3>5, <3>6 DEF LeaseInv
  <2> QED BY <1>9, <2>2, <2>3 DEF ServeAcquire
<1>10. CASE ServeRelease(m)
  <2> DEFINE n == Message("released", m.id, m.call)
  <2>1. /\ n.id = m.id /\ n.kind = "released" /\ net' = (net \ {m}) \cup {n} /\ m.kind = "release"
        /\ leases' = {l \in leases : ~(l.peer = peer /\ l.id = m.id)}
        /\ UNCHANGED <<peer, tokens, leased, failures, orphans, capped, ended>>
    BY <1>10 DEF Message, ServeRelease
  <2>2. m.id \in releasing \cup retiredReleases /\ \A t \in tokens : t.id # m.id
    BY <1>1, <2>1 DEF MessageMatches, ReleaseKinds, TokensMatch
  <2> HIDE DEF n
  <2>3. LeasesMatch'
    BY <1>1, <1>2, <2>1, <2>2 DEF LeasesMatch
  <2>4. LeasesAccounted'
    BY <1>1, <1>2, <2>1 DEF LeasesAccounted
  <2>5. OrphansCovered'
    BY <1>1, <2>1 DEF OrphansCovered, TypeOK
  <2> QED BY <2>3, <2>4, <2>5 DEF LeaseInv
<1> QED BY <1>4, <1>5, <1>6, <1>7, <1>8, <1>9, <1>10
\* The same for requests, timeouts, releases and messages that cannot be sent.
LEMMA ClientNextKeepsLeaseInv ==
    ASSUME ClientInv, LeaseInv, ClientNext
    PROVE  LeaseInv'
<1> USE DEF client, registry, gates, leftover
<1>1. TypeOK /\ IdsApart /\ TokensMatch /\ LeasesMatch /\ LeasesAccounted /\ OrphansCovered
  BY DEF ClientInv, LeaseInv
<1>2. OrphansCovered'
  <2>1. UNCHANGED <<registry, leftover>>
    BY DEF ClientNext, Call, TimeoutRequest, SendFails, ReleaseSendFails, ReleaseToken, TimeoutRelease
  <2> QED BY <1>1, <2>1 DEF OrphansCovered
<1>3. ASSUME net \subseteq net', \A x \in net' : x \in net \/ x.kind \in {"request", "acquire"},
             UNCHANGED <<tokens, registry, leased, failures>>
      PROVE  LeaseInv'
  <2>1. LeasesMatch' /\ LeasesAccounted'
    BY <1>1, <1>3 DEF LeasesMatch, LeasesAccounted
  <2> QED BY <1>2, <2>1 DEF LeaseInv
<1>4. ASSUME NEW c \in Calls, Call(c) PROVE LeaseInv'
  <2>1. net \subseteq net' /\ \A x \in net' : x \in net \/ x.kind \in {"request", "acquire"}
    BY <1>4 DEF Call, Message, RequestKind
  <2> QED BY <1>3, <1>4, <2>1 DEF Call
<1>5. ASSUME NEW q \in pending, TimeoutRequest(q) PROVE LeaseInv'
  BY <1>3, <1>5 DEF TimeoutRequest
<1>6. ASSUME NEW id \in releasing, TimeoutRelease(id) PROVE LeaseInv'
  BY <1>3, <1>6 DEF TimeoutRelease
<1>7. ASSUME NEW m \in net, SendFails(m) PROVE LeaseInv'
  <2>1. m.id \notin leased /\ m.kind \in {"request", "acquire"} /\ failures' # 0
    BY <1>1, <1>7, RecordedUseAssumption DEF SendFails, IdsApart, PendingIds, TypeOK
  <2>2. \A l \in leases : l.peer = peer => l.id # m.id
    BY <1>1, <2>1, OneMessage DEF LeasesMatch
  <2>3. UNCHANGED <<tokens, registry, leftover, leased>>
        /\ Drain(m.id, {p \in pending : p.id # m.id}, net \ {m})
    BY <1>7 DEF SendFails
  <2> QED BY <2>1, <2>2, <2>3, FreeIdWithoutLease
<1>8. ASSUME NEW m \in net, ReleaseSendFails(m) PROVE LeaseInv'
  <2>1. /\ m.kind = "release" /\ net' = net \ {m} /\ failures' # 0
        /\ UNCHANGED <<tokens, registry, leased>>
    BY <1>1, <1>8, RecordedUseAssumption DEF ReleaseSendFails, TypeOK
  <2>2. LeasesMatch' /\ LeasesAccounted'
    BY <1>1, <2>1 DEF LeasesMatch, LeasesAccounted
  <2> QED BY <1>2, <2>2 DEF LeaseInv
<1>9. ASSUME NEW t \in tokens, ReleaseToken(t) PROVE LeaseInv'
  <2> DEFINE n == Message("release", t.id, t.call)
  <2>1. /\ n.id = t.id /\ n.kind = "release" /\ net' = net \cup {n} /\ tokens' = tokens \ {t}
        /\ UNCHANGED <<registry, leased, failures>>
    BY <1>1, <1>9 DEF ReleaseToken, Message, TypeOK, TokensMatch
  <2>2. [peer |-> peer, id |-> t.id, rec |-> RecOf[t.call]] \in leases
    BY <1>1 DEF LeasesMatch
  <2> HIDE DEF n
  <2>3. LeasesMatch'
    BY <1>1, <2>1 DEF LeasesMatch
  <2>4. LeasesAccounted'
    BY <1>1, <2>1, <2>2 DEF LeasesAccounted
  <2> QED BY <1>2, <2>3, <2>4 DEF LeaseInv
<1> QED BY <1>4, <1>5, <1>6, <1>7, <1>8, <1>9 DEF ClientNext

\* The same when a service process starts or ends, when what it left behind stops, and
\* when its leases are cleaned up.
LEMMA PeerNextKeepsLeaseInv ==
    ASSUME ClientInv, LeaseInv, PeerNext
    PROVE  LeaseInv'
<1> USE DEF client, registry, gates, leftover
<1>1. TypeOK /\ IdsApart /\ LeasesMatch /\ LeasesAccounted /\ OrphansCovered
  BY DEF ClientInv, LeaseInv
<1>2. \A l \in leases : l.peer \in 1 .. spawned
  BY <1>1 DEF TypeOK
<1>3. CASE Register
  <2>1. /\ peer' = spawned + 1 /\ spawned \in Nat /\ net = {} /\ tokens = {}
        /\ UNCHANGED <<client, net, ended, leases, orphans, capped, failures>>
    BY <1>1, <1>3 DEF Register, IdsApart, TypeOK
  <2>2. \A l \in leases : l.peer # peer'
    BY <1>2, <2>1
  <2>3. LeasesMatch' /\ LeasesAccounted'
    BY <2>1, <2>2 DEF LeasesMatch, LeasesAccounted
  <2>4. OrphansCovered'
    <3>1. peer' \notin ended
      BY <1>1, <2>1 DEF TypeOK
    <3> QED BY <1>1, <2>1, <3>1 DEF OrphansCovered
  <2> QED BY <2>3, <2>4 DEF LeaseInv
<1>4. CASE PeerTerminal
  <2>1. /\ peer' = 0 /\ net' = {} /\ tokens' = {} /\ leases' = leases /\ capped' = capped
        /\ ended' = ended \cup {peer} /\ peer # 0
        /\ orphans' = orphans \cup {[peer |-> peer, rec |-> RecOf[t.call]] : t \in tokens}
    BY <1>4 DEF PeerTerminal
  <2>2. LeasesMatch' /\ LeasesAccounted'
    BY <1>2, <2>1 DEF LeasesMatch, LeasesAccounted
  <2>3. peer' \notin ended'
    BY <1>1, <2>1 DEF TypeOK
  <2>4. ASSUME NEW o \in orphans', o.peer \notin capped'
        PROVE  \E l \in leases' : l.peer = o.peer /\ l.rec = o.rec
    <3>1. CASE o \in orphans
      BY <1>1, <2>1, <2>4, <3>1 DEF OrphansCovered
    <3>2. ASSUME NEW t \in tokens, o = [peer |-> peer, rec |-> RecOf[t.call]]
          PROVE  \E l \in leases' : l.peer = o.peer /\ l.rec = o.rec
      <4> DEFINE l == [peer |-> peer, id |-> t.id, rec |-> RecOf[t.call]]
      <4>1. l \in leases' /\ l.peer = o.peer /\ l.rec = o.rec
        BY <1>1, <2>1, <3>2 DEF LeasesMatch
      <4> QED BY <4>1
    <3> QED BY <2>1, <3>1, <3>2
  <2> QED BY <2>2, <2>3, <2>4 DEF LeaseInv, OrphansCovered
<1>5. ASSUME NEW o \in orphans, OrphanStops(o) PROVE LeaseInv'
  BY <1>1, <1>5 DEF OrphanStops, LeaseInv, LeasesMatch, LeasesAccounted, OrphansCovered
<1>6. ASSUME NEW p \in ended, Cleanup(p) PROVE LeaseInv'
  <2>1. p # peer /\ leases' = {l \in leases : l.peer # p}
        /\ UNCHANGED <<client, net, peer, ended, orphans, failures>>
    BY <1>1, <1>6 DEF Cleanup, OrphansCovered
  <2>2. LeasesMatch' /\ LeasesAccounted'
    BY <1>1, <2>1 DEF LeasesMatch, LeasesAccounted
  <2>3. OrphansCovered'
    BY <1>1, <1>6, <2>1 DEF Cleanup, OrphansCovered
  <2> QED BY <2>2, <2>3 DEF LeaseInv
<1> QED BY <1>3, <1>4, <1>5, <1>6 DEF PeerNext

\* Every step keeps each lease of the registry accounted for on the client's side, or
\* under way, or left to the clean-up of its process.
LEMMA LeaseStep ==
    ASSUME ClientInv, LeaseInv, [Next]_vars
    PROVE  LeaseInv'
<1>1. ASSUME UNCHANGED <<client, net, registry, leftover, failures>> PROVE LeaseInv'
  BY <1>1 DEF LeaseInv, LeasesMatch, LeasesAccounted, OrphansCovered, client, registry, leftover
<1>2. CASE GateNext
  BY <1>1, <1>2 DEF GateNext, SessionUnknown, SessionEnds, SessionActive, TakeGates,
        DeletionEnds, PrepareDeletion
<1> QED BY <1>1, <1>2, AnswersKeepLeaseInv, ClientNextKeepsLeaseInv, PeerNextKeepsLeaseInv
        DEF Next, vars

-----------------------------------------------------------------------------
(* The waiters. *)

\* Whoever waits for an id waits because none is free.
LEMMA WaitersStep ==
    ASSUME ClientInv, WaitersMeanFull, [Next]_vars
    PROVE  WaitersMeanFull'
<1> USE DEF client, registry, gates, leftover
<1>1. ASSUME UNCHANGED waiters, UsedIds \subseteq UsedIds' PROVE WaitersMeanFull'
  BY <1>1 DEF WaitersMeanFull
<1>2. ASSUME NEW m \in net, NEW id \in Ids, m.id = id, retired \ {id} \subseteq retired',
             leased \ {id} \subseteq leased',
             Drain(id, {p \in pending : p.id # id}, net \ {m})
      PROVE  WaitersMeanFull'
  <2>1. CASE waiters = <<>>
    BY <1>2, <2>1 DEF Drain, WaitersMeanFull
  <2>2. CASE waiters # <<>>
    <3> DEFINE n == [id |-> id, call |-> Head(waiters)]
    <3>1. n.id = id /\ n \in pending' /\ \A p \in pending : p.id # id => p \in pending'
      BY <1>2, <2>2 DEF Drain
    <3> HIDE DEF n
    <3>2. UsedIds \subseteq UsedIds'
      BY <1>2, <3>1 DEF UsedIds, PendingIds
    <3> QED BY <2>2, <3>2 DEF WaitersMeanFull
  <2> QED BY <2>1, <2>2
<1>3. CASE Answers
  <2> PICK m \in net : \/ Answered(m) \/ Granted(m) \/ GrantedLate(m) \/ Released(m)
                       \/ ServeRequest(m) \/ ServeAcquire(m) \/ ServeRelease(m)
    BY <1>3 DEF Answers
  <2>1. m.id \in Ids
    BY DEF ClientInv, TypeOK
  <2>2. CASE Answered(m)
    BY <1>2, <2>1, <2>2 DEF Answered
  <2>3. CASE Released(m)
    <3>1. {p \in pending : p.id # m.id} = pending
      BY <2>3 DEF Released, ClientInv, TypeOK, IdsApart
    <3> QED BY <1>2, <2>1, <2>3, <3>1 DEF Released
  <2>4. CASE Granted(m)
    BY <1>1, <2>4 DEF Granted, UsedIds, PendingIds
  <2>5. CASE GrantedLate(m)
    BY <1>1, <2>5 DEF GrantedLate, UsedIds, PendingIds
  <2>6. CASE ServeRequest(m) \/ ServeAcquire(m) \/ ServeRelease(m)
    BY <1>1, <2>6 DEF ServeRequest, ServeAcquire, ServeRelease, UsedIds, PendingIds
  <2> QED BY <2>2, <2>3, <2>4, <2>5, <2>6
<1>4. CASE ClientNext
  <2>1. ASSUME NEW c \in Calls, Call(c) PROVE WaitersMeanFull'
    <3>1. pending \subseteq pending' /\ UNCHANGED <<retired, leased>>
      BY <2>1 DEF Call
    <3>2. UsedIds \subseteq UsedIds'
      BY <3>1 DEF UsedIds, PendingIds
    <3> QED BY <1>1, <2>1, <3>2 DEF Call, WaitersMeanFull
  <2>2. ASSUME NEW q \in pending, TimeoutRequest(q) PROVE WaitersMeanFull'
    BY <1>1, <2>2 DEF TimeoutRequest, UsedIds, PendingIds
  <2>3. ASSUME NEW m \in net, SendFails(m) PROVE WaitersMeanFull'
    <3>1. m.id \in Ids
      BY DEF ClientInv, TypeOK
    <3> QED BY <1>2, <2>3, <3>1 DEF SendFails
  <2>4. ASSUME NEW m \in net, ReleaseSendFails(m) PROVE WaitersMeanFull'
    BY <1>1, <2>4 DEF ReleaseSendFails, UsedIds, PendingIds
  <2>5. ASSUME NEW t \in tokens, ReleaseToken(t) PROVE WaitersMeanFull'
    BY <1>1, <2>5 DEF ReleaseToken, UsedIds, PendingIds
  <2>6. ASSUME NEW id \in releasing, TimeoutRelease(id) PROVE WaitersMeanFull'
    BY <1>1, <2>6 DEF TimeoutRelease, UsedIds, PendingIds
  <2> QED BY <1>4, <2>1, <2>2, <2>3, <2>4, <2>5, <2>6 DEF ClientNext
<1>5. CASE PeerNext
  <2>1. CASE PeerTerminal
    BY <2>1 DEF PeerTerminal, WaitersMeanFull
  <2>2. CASE ~PeerTerminal
    BY <1>1, <1>5, <2>2 DEF PeerNext, Register, OrphanStops, Cleanup, UsedIds, PendingIds
  <2> QED BY <2>1, <2>2
<1>6. CASE GateNext \/ UNCHANGED vars
  BY <1>1, <1>6 DEF GateNext, SessionUnknown, SessionEnds, SessionActive, TakeGates,
        DeletionEnds, PrepareDeletion, vars, UsedIds, PendingIds
<1> QED BY <1>3, <1>4, <1>5, <1>6 DEF Next
-----------------------------------------------------------------------------
(* The deletions. *)

\* No deletion and no session at the start.
LEMMA GatesInit == Init => GatesMatch
BY DEF Init, GatesMatch, Deleting

\* Only a step of the deleters or of the sessions disturbs the deletion tokens, and a
\* lease is only granted on a recording without one.
LEMMA GatesStep ==
    ASSUME ClientInv, GatesMatch, [Next]_vars
    PROVE  GatesMatch'
<1> USE DEF client, registry, gates, leftover
<1>1. GateTypeOK
  BY DEF ClientInv, TypeOK
<1>2. ASSUME UNCHANGED gates, \A l \in leases' : l \in leases \/ l.rec \notin serviceTokens
      PROVE  GatesMatch'
  BY <1>2 DEF GatesMatch, Deleting
<1>3. CASE Answers
  <2> PICK m \in net : \/ Answered(m) \/ Granted(m) \/ GrantedLate(m) \/ Released(m)
                       \/ ServeRequest(m) \/ ServeAcquire(m) \/ ServeRelease(m)
    BY <1>3 DEF Answers
  <2>1. CASE ServeAcquire(m)
    BY <1>2, <2>1 DEF ServeAcquire
  <2>2. CASE ~ServeAcquire(m)
    BY <1>2, <2>2 DEF Answered, Granted, GrantedLate, Released, ServeRequest, ServeRelease
  <2> QED BY <2>1, <2>2
<1>4. CASE ClientNext \/ PeerNext \/ UNCHANGED vars
  BY <1>2, <1>4 DEF ClientNext, PeerNext, vars, Call, TimeoutRequest, SendFails,
        ReleaseSendFails, ReleaseToken, TimeoutRelease, Register, PeerTerminal, OrphanStops, Cleanup
<1>5. ASSUME NEW s \in Sessions,
             SessionUnknown(s) \/ SessionEnds(s) \/ \E rec \in Recs : SessionActive(s, rec)
      PROVE  GatesMatch'
  <2>1. UNCHANGED <<leases, serviceTokens, recordingTokens, deleter>> /\ recordingTokens \subseteq Recs
    BY <1>1, <1>5 DEF SessionUnknown, SessionEnds, SessionActive, GateTypeOK
  <2>2. ASSUME NEW x \in Sessions
        PROVE  /\ sessionUse'[x] \notin recordingTokens
               /\ sessionUse'[x] = Unknown => recordingTokens = {}
    <3>1. /\ sessionUse[x] \notin recordingTokens
          /\ sessionUse[x] = Unknown => recordingTokens = {}
      BY DEF GatesMatch
    <3>2. CASE SessionUnknown(s)
      BY <1>1, <3>1, <3>2 DEF SessionUnknown, GateTypeOK
    <3>3. CASE SessionEnds(s)
      <4>1. x = s => sessionUse'[x] = NoRec
        BY <1>1, <3>3 DEF SessionEnds, GateTypeOK
      <4>2. x # s => sessionUse'[x] = sessionUse[x]
        BY <1>1, <3>3 DEF SessionEnds, GateTypeOK
      <4> QED BY <2>1, <3>1, <4>1, <4>2, RecordedUseAssumption
    <3>4. ASSUME NEW rec \in Recs, SessionActive(s, rec)
          PROVE  /\ sessionUse'[x] \notin recordingTokens
                 /\ sessionUse'[x] = Unknown => recordingTokens = {}
      BY <1>1, <3>1, <3>4, RecordedUseAssumption DEF SessionActive, GateTypeOK
    <3> QED BY <1>5, <3>2, <3>3, <3>4
  <2> QED BY <2>1, <2>2 DEF GatesMatch, Deleting
<1>6. ASSUME NEW d \in Deleters, NEW rec \in Recs, PrepareDeletion(d, rec)
      PROVE  GatesMatch'
  <2>1. /\ deleter' = [deleter EXCEPT ![d] = [step |-> "prepared", rec |-> rec]]
        /\ deleter[d].step = "idle"
        /\ UNCHANGED <<leases, serviceTokens, recordingTokens, sessionUse>>
    BY <1>6 DEF PrepareDeletion
  <2>2. \A e \in Deleters : /\ deleter'[e].step = "deleting" <=> deleter[e].step = "deleting"
                            /\ deleter[e].step = "deleting" => deleter'[e] = deleter[e]
    BY <1>1, <2>1 DEF GateTypeOK
  <2>3. Deleting' = Deleting
    BY <2>2 DEF Deleting
  <2> QED BY <2>1, <2>2, <2>3 DEF GatesMatch
<1>7. ASSUME NEW d \in Deleters, TakeGates(d)
      PROVE  GatesMatch'
  <2> DEFINE rec == deleter[d].rec
  <2>1. /\ deleter[d].step = "prepared" /\ rec \in Recs
        /\ UNCHANGED <<leases, sessionUse>>
    BY <1>1, <1>7 DEF TakeGates, GateTypeOK, DeleterStates
  <2>2. CASE RecordingGateOpen(rec) /\ ServiceGateOpen(rec)
    <3>1. /\ recordingTokens' = recordingTokens \cup {rec}
          /\ serviceTokens' = serviceTokens \cup {rec}
          /\ deleter' = [deleter EXCEPT ![d].step = "deleting"]
      BY <1>7, <2>2 DEF TakeGates
    <3>2. /\ deleter'[d].step = "deleting" /\ deleter'[d].rec = rec
          /\ \A e \in Deleters : e # d => deleter'[e] = deleter[e]
      BY <1>1, <3>1 DEF GateTypeOK, DeleterStates
    <3>3. Deleting' = Deleting \cup {rec}
      BY <2>1, <3>2 DEF Deleting
    <3>4. rec \notin Deleting
      BY <2>2 DEF ServiceGateOpen, GatesMatch
    <3>5. \A e \in Deleters : deleter[e].step = "deleting" => deleter[e].rec # rec
      BY <3>4 DEF Deleting
    <3>6. \A e, f \in Deleters :
             deleter'[e].step = "deleting" /\ deleter'[f].step = "deleting"
                /\ deleter'[e].rec = deleter'[f].rec => e = f
      BY <3>2, <3>5 DEF GatesMatch
    <3>7. /\ \A l \in leases' : l.rec \notin serviceTokens'
          /\ \A s \in Sessions : sessionUse'[s] \notin recordingTokens'
          /\ \A s \in Sessions : sessionUse'[s] = Unknown => recordingTokens' = {}
      BY <2>1, <2>2, <3>1 DEF ServiceGateOpen, RecordingGateOpen, GatesMatch
    <3>8. serviceTokens' = Deleting' /\ recordingTokens' = Deleting'
      BY <3>1, <3>3 DEF GatesMatch
    <3> QED BY <3>6, <3>7, <3>8 DEF GatesMatch
  <2>3. CASE ~(RecordingGateOpen(rec) /\ ServiceGateOpen(rec))
    <3>1. /\ deleter' = [deleter EXCEPT ![d] = [step |-> "idle", rec |-> NoRec]]
          /\ UNCHANGED <<recordingTokens, serviceTokens>>
      BY <1>7, <2>3 DEF TakeGates
    <3>2. \A e \in Deleters : /\ deleter'[e].step = "deleting" <=> deleter[e].step = "deleting"
                              /\ deleter[e].step = "deleting" => deleter'[e] = deleter[e]
      BY <1>1, <2>1, <3>1 DEF GateTypeOK
    <3>3. Deleting' = Deleting
      BY <3>2 DEF Deleting
    <3> QED BY <2>1, <3>1, <3>2, <3>3 DEF GatesMatch
  <2> QED BY <2>2, <2>3
<1>8. ASSUME NEW d \in Deleters, DeletionEnds(d)
      PROVE  GatesMatch'
  <2> DEFINE rec == deleter[d].rec
  <2>1. /\ deleter[d].step = "deleting"
        /\ recordingTokens' = recordingTokens \ {rec} /\ serviceTokens' = serviceTokens \ {rec}
        /\ deleter' = [deleter EXCEPT ![d] = [step |-> "idle", rec |-> NoRec]]
        /\ UNCHANGED <<leases, sessionUse>>
    BY <1>8 DEF DeletionEnds
  <2>2. deleter'[d].step = "idle" /\ \A e \in Deleters : e # d => deleter'[e] = deleter[e]
    BY <1>1, <2>1 DEF GateTypeOK
  <2>3. \A e \in Deleters : e # d /\ deleter[e].step = "deleting" => deleter[e].rec # rec
    BY <2>1 DEF GatesMatch
  <2>4. Deleting' = Deleting \ {rec}
    BY <2>1, <2>2, <2>3 DEF Deleting
  <2> QED BY <2>1, <2>2, <2>4 DEF GatesMatch
<1> QED BY <1>3, <1>4, <1>5, <1>6, <1>7, <1>8 DEF Next, GateNext

-----------------------------------------------------------------------------
(* The theorems. *)

\* The inductive invariant holds in every state.
THEOREM Invariance == Spec => []IInv
<1>1. Init => IInv
  BY ClientInit, LeaseInit, GatesInit DEF Init, IInv, WaitersMeanFull
<1>2. IInv /\ [Next]_vars => IInv'
  BY ClientStep, LeaseStep, WaitersStep, GatesStep DEF IInv
<1> QED BY <1>1, <1>2, PTL DEF Spec

\* Every variable of the two processes keeps its type.
THEOREM TypeCorrect == Spec => []TypeOK
<1>1. IInv => TypeOK
  BY DEF IInv, ClientInv
<1> QED BY <1>1, Invariance, PTL

\* An answer reaches the call it belongs to: no id is given out again by IPCClient while a
\* request, a late answer or a lease of its earlier use is still under way.
THEOREM AnswersReachTheirCall == Spec => []AnswersMatch
<1>1. IInv => AnswersMatch
  <2> SUFFICES ASSUME IInv, NEW m \in net
               PROVE  /\ \A p \in pending : p.id = m.id =>
                            p.call = m.call /\ m.kind \notin {"release", "released"}
                      /\ \A other \in net : other.id = m.id => other = m
    BY DEF AnswersMatch
  <2>1. MessageMatches(m) /\ TypeOK /\ IdsApart
    BY DEF IInv, ClientInv, MessagesMatch
  <2>2. ASSUME NEW p \in pending, p.id = m.id PROVE m.kind \notin ReleaseKinds
    BY <2>1, <2>2 DEF MessageMatches, TypeOK, IdsApart
  <2> QED BY <2>1, <2>2 DEF MessageMatches, ReleaseKinds
<1> QED BY <1>1, Invariance, PTL

\* Every lease in ServiceChildRecordedUseRegistry is one that its client will give back,
\* and IPCClient never releases one that the registry does not have.
THEOREM LeasesAreAccounted == Spec => []LeasesAccounted
<1>1. IInv => LeasesAccounted
  BY DEF IInv, LeaseInv
<1> QED BY <1>1, Invariance, PTL

-----------------------------------------------------------------------------
(* The refinement. *)
-----------------------------------------------------------------------------
(* The refinement. *)

UsesTyped == ExclusionUses \in SUBSET (ExclusionUsers \X Recs)
UsesExcluded == \A use \in ExclusionUses : use[2] \notin Deleting

\* The uses are uses of recordings, by calls, sessions and processes.
LEMMA UsesType == TypeOK => UsesTyped
<1> SUFFICES ASSUME TypeOK, NEW use \in ExclusionUses
             PROVE  use \in ExclusionUsers \X Recs
  BY DEF UsesTyped
<1>1. ASSUME NEW t \in tokens, use = <<t.call, RecOf[t.call]>> PROVE use \in ExclusionUsers \X Recs
  <2>1. t.call \in Calls /\ RecOf[t.call] \in Recs
    BY RecordedUseAssumption DEF TypeOK
  <2> QED BY <1>1, <2>1 DEF ExclusionUsers
<1>2. ASSUME NEW s \in Sessions, sessionUse[s] \in Recs, use = <<s, sessionUse[s]>>
      PROVE  use \in ExclusionUsers \X Recs
  BY <1>2 DEF ExclusionUsers
<1>3. ASSUME NEW o \in orphans, use = <<o.peer, o.rec>> PROVE use \in ExclusionUsers \X Recs
  <2>1. o.peer \in ended /\ o.rec \in Recs
    BY DEF TypeOK
  <2>2. spawned \in 0 .. MaxPeers /\ o.peer \in 1 .. spawned
    BY <2>1 DEF TypeOK
  <2>3. MaxPeers \in Nat
    BY RecordedUseAssumption
  <2>4. o.peer \in 1 .. MaxPeers
    BY <2>2, <2>3
  <2> QED BY <1>3, <2>1, <2>4 DEF ExclusionUsers
<1> QED BY <1>1, <1>2, <1>3 DEF ExclusionUses

\* No recording in use is being deleted: its user holds a lease or is a session that the
\* gate of the recordings knows of.
LEMMA UsesExcludeDeletions == IInv => UsesExcluded
<1> SUFFICES ASSUME IInv, NEW use \in ExclusionUses PROVE use[2] \notin Deleting
  BY DEF UsesExcluded
<1>1. /\ \A l \in leases : l.rec \notin Deleting
      /\ \A s \in Sessions : sessionUse[s] \notin Deleting
      /\ LeasesMatch /\ OrphansCovered
  BY DEF IInv, LeaseInv, GatesMatch
<1>2. ASSUME NEW t \in tokens, use = <<t.call, RecOf[t.call]>> PROVE use[2] \notin Deleting
  <2> DEFINE l == [peer |-> peer, id |-> t.id, rec |-> RecOf[t.call]]
  <2>1. l \in leases /\ l.rec = use[2]
    BY <1>1, <1>2 DEF LeasesMatch
  <2> QED BY <1>1, <2>1
<1>3. ASSUME NEW s \in Sessions, use = <<s, sessionUse[s]>> PROVE use[2] \notin Deleting
  BY <1>1, <1>3
<1>4. ASSUME NEW o \in orphans, o.peer \notin capped, use = <<o.peer, o.rec>>
      PROVE  use[2] \notin Deleting
  BY <1>1, <1>4 DEF OrphansCovered
<1> QED BY <1>2, <1>3, <1>4 DEF ExclusionUses

\* Nobody uses a recording whose gates are both open.
LEMMA OpenGatesMeanUnused ==
    ASSUME IInv, NEW rec \in Recs, RecordingGateOpen(rec), ServiceGateOpen(rec)
    PROVE  \A use \in ExclusionUses : use[2] # rec
<1> SUFFICES ASSUME NEW use \in ExclusionUses PROVE use[2] # rec
  OBVIOUS
<1>1. /\ \A l \in leases : l.rec # rec
      /\ \A s \in Sessions : sessionUse[s] # rec
      /\ LeasesMatch /\ OrphansCovered
  BY DEF IInv, LeaseInv, RecordingGateOpen, ServiceGateOpen
<1>2. ASSUME NEW t \in tokens, use = <<t.call, RecOf[t.call]>> PROVE use[2] # rec
  <2> DEFINE l == [peer |-> peer, id |-> t.id, rec |-> RecOf[t.call]]
  <2>1. l \in leases /\ l.rec = use[2]
    BY <1>1, <1>2 DEF LeasesMatch
  <2> QED BY <1>1, <2>1
<1>3. ASSUME NEW s \in Sessions, use = <<s, sessionUse[s]>> PROVE use[2] # rec
  BY <1>1, <1>3
<1>4. ASSUME NEW o \in orphans, o.peer \notin capped, use = <<o.peer, o.rec>> PROVE use[2] # rec
  BY <1>1, <1>4 DEF OrphansCovered
<1> QED BY <1>2, <1>3, <1>4 DEF ExclusionUses

\* A step of a deleter starts or ends one deletion, or leaves the deletions alone.
LEMMA DeletionStep ==
    ASSUME IInv, IInv', NEW d \in Deleters, TakeGates(d) \/ DeletionEnds(d)
    PROVE  [Exclusion!Next]_<<ExclusionUses, Deleting>>
<1> DEFINE rec == deleter[d].rec
<1>1. /\ Deleting = serviceTokens /\ Deleting' = serviceTokens' /\ GateTypeOK
  BY DEF IInv, ClientInv, GatesMatch, TypeOK
<1>2. ExclusionUses' = ExclusionUses
  BY DEF TakeGates, DeletionEnds, client, leftover, ExclusionUses
<1>3. deleter[d].step # "idle" /\ rec \in Recs
  BY <1>1 DEF TakeGates, DeletionEnds, GateTypeOK, DeleterStates
<1>4. CASE TakeGates(d) /\ RecordingGateOpen(rec) /\ ServiceGateOpen(rec)
  <2>1. ~Exclusion!InUse(rec) /\ rec \notin Deleting
    BY <1>1, <1>3, <1>4, OpenGatesMeanUnused DEF Exclusion!InUse, ServiceGateOpen
  <2>2. Deleting' = Deleting \cup {rec}
    BY <1>1, <1>4 DEF TakeGates
  <2>3. Exclusion!StartDeletion(rec)
    BY <1>2, <2>1, <2>2 DEF Exclusion!StartDeletion
  <2> QED BY <1>3, <2>3 DEF Exclusion!Next
<1>5. CASE TakeGates(d) /\ ~(RecordingGateOpen(rec) /\ ServiceGateOpen(rec))
  BY <1>1, <1>2, <1>5 DEF TakeGates
<1>6. CASE DeletionEnds(d)
  <2>1. rec \in Deleting /\ Deleting' = Deleting \ {rec}
    BY <1>1, <1>6 DEF DeletionEnds, Deleting
  <2>2. Exclusion!EndDeletion(rec)
    BY <1>2, <2>1 DEF Exclusion!EndDeletion
  <2> QED BY <1>3, <2>2 DEF Exclusion!Next
<1> QED BY <1>4, <1>5, <1>6

\* The leases of ServiceChildRecordedUseRegistry, the sessions of
\* RecordingRecordedUseProvider and the deletions of StoragePressureDeletionAdapter
\* implement the exclusion of uses and deletions, over every crash of the service process.
THEOREM Refinement == Spec => ImplementsExclusion
<1>1. Init => Exclusion!Init
  <2> SUFFICES ASSUME Init PROVE ExclusionUses = {} /\ Deleting = {}
    BY DEF Exclusion!Init
  <2>1. tokens = {} /\ orphans = {} /\ \A s \in Sessions : sessionUse[s] \notin Recs
    BY RecordedUseAssumption DEF Init
  <2>2. \A d \in Deleters : deleter[d].step # "deleting"
    BY DEF Init
  <2> QED BY <2>1, <2>2 DEF ExclusionUses, Deleting
<1>2. TypeOK' => UsesTyped'
  BY UsesType, PTL
<1>3. IInv' => UsesExcluded'
  BY UsesExcludeDeletions, PTL
<1>4. IInv /\ IInv' /\ [Next]_vars => [Exclusion!Next]_<<ExclusionUses, Deleting>>
  <2> SUFFICES ASSUME IInv, IInv', [Next]_vars
               PROVE  [Exclusion!Next]_<<ExclusionUses, Deleting>>
    OBVIOUS
  <2>1. ASSUME Deleting' = Deleting PROVE [Exclusion!Next]_<<ExclusionUses, Deleting>>
    <3>1. ExclusionUses' \in SUBSET (ExclusionUsers \X Recs)
      BY <1>2 DEF IInv, ClientInv, UsesTyped, ExclusionUsers
    <3>2. \A use \in ExclusionUses' : use[2] \notin Deleting'
      BY <1>3 DEF UsesExcluded
    <3>3. Exclusion!Use
      BY <2>1, <3>1, <3>2 DEF Exclusion!Use
    <3> QED BY <3>3 DEF Exclusion!Next
  <2>2. CASE \E d \in Deleters : TakeGates(d) \/ DeletionEnds(d)
    BY <2>2, DeletionStep
  <2>3. ASSUME NEW d \in Deleters, NEW rec \in Recs, PrepareDeletion(d, rec)
        PROVE  Deleting' = Deleting
    <3>1. UNCHANGED serviceTokens
      BY <2>3 DEF PrepareDeletion
    <3> QED BY <3>1 DEF IInv, GatesMatch
  <2>4. CASE ~(\E d \in Deleters : TakeGates(d) \/ DeletionEnds(d) \/ \E rec \in Recs : PrepareDeletion(d, rec))
    <3>1. UNCHANGED serviceTokens
      BY <2>4 DEF Next, vars, gates, Answers, ClientNext, PeerNext, GateNext, Answered, Granted,
            GrantedLate, Released, ServeRequest, ServeAcquire, ServeRelease, Call, TimeoutRequest,
            SendFails, ReleaseSendFails, ReleaseToken, TimeoutRelease, Register, PeerTerminal,
            OrphanStops, Cleanup, SessionUnknown, SessionEnds, SessionActive
    <3> QED BY <2>1, <3>1 DEF IInv, GatesMatch
  <2> QED BY <2>1, <2>2, <2>3, <2>4
<1> QED BY <1>1, <1>4, Invariance, PTL DEF Spec, ImplementsExclusion, Exclusion!Spec, Exclusion!exclusionVars
=============================================================================
