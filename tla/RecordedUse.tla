---------------------------- MODULE RecordedUse ----------------------------
(***************************************************************************)
(* Who uses a recording while its storage runs full: the request ids and    *)
(* leases of IPCClient in the service process, IPCServer and                *)
(* ServiceChildRecordedUseRegistry in the operator process, the recording   *)
(* sessions of RecordingRecordedUseProvider, and the deletions of           *)
(* StoragePressureDeletionAdapter, over crashes of the service process.     *)
(*                                                                          *)
(* Messages are a set: an id has one message under way at most, and the     *)
(* properties do not need the order in which different ids are served.      *)
(***************************************************************************)
EXTENDS Naturals, FiniteSets, Sequences

CONSTANTS
    Recs,               \* recordings
    Calls,              \* requests of the service process, each made once
    Acquires,           \* the calls that ask for a lease (recordedResourceUseClient.acquire)
    RecOf,              \* call -> the recording it is about
    Sessions,           \* recording sessions (RecorderModel)
    Deleters,           \* storage entries whose deletions run
    MaxId,              \* the last request id (Number.MAX_SAFE_INTEGER)
    MaxPeers,           \* bound: service processes, one after the other
    MaxSendFailures,    \* bound: process.send calls that throw
    NoRec               \* no recording

\* The recording of a session that has not been stored yet.
Unknown == "unknown"

ASSUME RecordedUseAssumption ==
    /\ Acquires \subseteq Calls /\ RecOf \in [Calls -> Recs]
    /\ MaxId \in Nat \ {0} /\ MaxPeers \in Nat /\ MaxSendFailures \in Nat
    /\ NoRec \notin Recs /\ Unknown \notin Recs /\ NoRec # Unknown

VARIABLES
    \* the service process
    nextCandidate,      \* IPCClient.nextCandidate
    pending,            \* [id, call]: requests that wait for their answer
    retired,            \* ids of requests that timed out
    retiredAcquires,    \* the ones among them that asked for a lease
    leased,             \* ids of leases that are not given back
    tokens,             \* [id, call]: leases whose token the caller holds
    releasing,          \* recordedUseReleasePending
    retiredReleases,    \* ids of releases that timed out
    waiters,            \* allocationWaiters: calls that wait for an id
    net,                \* [kind, id, call]: messages under way, in both directions
    \* the operator process
    peer,               \* the service process that is registered, or 0
    spawned,            \* how many there have been
    ended,              \* service processes that ended
    leases,             \* [peer, id, rec]: the leases of the registry
    serviceTokens,      \* deletionTokens of ServiceChildRecordedUseRegistry
    recordingTokens,    \* deletionTokens of RecordingRecordedUseProvider
    sessionUse,         \* session -> a recording, "unknown" or NoRec
    deleter,            \* deleter -> [step, rec]
    recorded,           \* the recordings that exist
    orphans,            \* [peer, rec]: processes an ended service process left behind
    capped,             \* service processes whose cleanup ran into its time limit
    made,               \* history: the calls that were made
    failures            \* process.send calls that threw

client == <<nextCandidate, pending, retired, retiredAcquires, leased, tokens, releasing,
            retiredReleases, waiters>>
registry == <<peer, spawned, ended, leases>>
gates == <<serviceTokens, recordingTokens, sessionUse, deleter, recorded>>
leftover == <<orphans, capped>>
vars == <<client, net, registry, gates, leftover, made, failures>>

Ids == 1 .. MaxId
PendingIds == {p.id : p \in pending}
Message(kind, id, c) == [kind |-> kind, id |-> id, call |-> c]

-----------------------------------------------------------------------------
(* IPCClient: ids. *)

\* nextIdentifier: MaxId is followed by 1.
NextIdentifier(id) == IF id = MaxId THEN 1 ELSE id + 1

\* Variant: the id of a request that timed out is given out again.
UsedIds_NotRetired == PendingIds \cup leased

\* allocateIdentifier: ids that no request and no lease has, and the first of them
\* from nextCandidate on, going round.
UsedIds == PendingIds \cup retired \cup leased
Distance(id) == IF id >= nextCandidate THEN id - nextCandidate ELSE id + MaxId - nextCandidate
FirstOf(free, id) == id \in free /\ \A other \in free : Distance(id) <= Distance(other)

\* startRequest, startRecordedUseAcquire: the request is noted and sent.
RequestKind(c) == IF c \in Acquires THEN "acquire" ELSE "request"

\* A call takes an id, or waits until there is one.
Call(c) ==
    /\ peer # 0 /\ c \notin made
    /\ made' = made \cup {c}
    /\ \/ /\ Ids \subseteq UsedIds
          /\ waiters' = Append(waiters, c)
          /\ UNCHANGED <<nextCandidate, pending, net>>
       \/ \E id \in Ids \ UsedIds :
          /\ FirstOf(Ids \ UsedIds, id)
          /\ nextCandidate' = NextIdentifier(id)
          /\ pending' = pending \cup {[id |-> id, call |-> c]}
          /\ net' = net \cup {Message(RequestKind(c), id, c)}
          /\ UNCHANGED waiters
    /\ UNCHANGED <<retired, retiredAcquires, leased, tokens, releasing, retiredReleases,
                   registry, gates, leftover, failures>>

\* drainAllocationWaiters, when `id` is the id that has just become free and `left` are
\* the requests without it.  One id becomes free at a time, and it was the only free one
\* if somebody waits, so one waiter at most is started.
Drain(id, left, messages) ==
    IF waiters = <<>>
    THEN /\ pending' = left /\ net' = messages
         /\ UNCHANGED <<waiters, nextCandidate>>
    ELSE /\ pending' = left \cup {[id |-> id, call |-> Head(waiters)]}
         /\ net' = messages \cup {Message(RequestKind(Head(waiters)), id, Head(waiters))}
         /\ waiters' = Tail(waiters)
         /\ nextCandidate' = NextIdentifier(id)

-----------------------------------------------------------------------------
(* IPCClient: answers, timeouts and failures of requests. *)

\* handleReplay, and the refusals of handleRecordedUseAcquireReply: the caller gets the
\* answer if it still waits; in both cases the id is free again.
Answered(m) ==
    /\ m \in net /\ m.kind \in {"answer", "refused"}
    /\ retired' = retired \ {m.id}
    /\ retiredAcquires' = retiredAcquires \ {m.id}
    /\ Drain(m.id, {p \in pending : p.id # m.id}, net \ {m})
    /\ UNCHANGED <<leased, tokens, releasing, retiredReleases, registry, gates, leftover, made, failures>>

\* handleRecordedUseAcquireReply, granted, while the caller waits: it gets a token.
Granted(m) ==
    /\ m \in net /\ m.kind = "granted" /\ m.id \in PendingIds
    /\ pending' = {p \in pending : p.id # m.id}
    /\ leased' = leased \cup {m.id}
    /\ tokens' = tokens \cup {[id |-> m.id, call |-> m.call]}
    /\ net' = net \ {m}
    /\ UNCHANGED <<nextCandidate, retired, retiredAcquires, releasing, retiredReleases, waiters,
                   registry, gates, leftover, made, failures>>

\* Variant: a late grant is dropped like any late answer.
GrantedLate_Dropped(m) ==
    /\ m \in net /\ m.kind = "granted" /\ m.id \in retiredAcquires
    /\ retired' = retired \ {m.id}
    /\ retiredAcquires' = retiredAcquires \ {m.id}
    /\ Drain(m.id, pending, net \ {m})
    /\ UNCHANGED <<leased, tokens, releasing, retiredReleases, registry, gates, leftover, made, failures>>

\* The same after the timeout: nobody wants the lease, and it is given back.
GrantedLate(m) ==
    /\ m \in net /\ m.kind = "granted" /\ m.id \in retiredAcquires
    /\ retired' = retired \ {m.id}
    /\ retiredAcquires' = retiredAcquires \ {m.id}
    /\ leased' = leased \cup {m.id}
    /\ releasing' = releasing \cup {m.id}
    /\ net' = (net \ {m}) \cup {Message("release", m.id, m.call)}
    /\ UNCHANGED <<nextCandidate, pending, tokens, retiredReleases, waiters, registry, gates,
                   leftover, made, failures>>

\* timeoutRequest.
TimeoutRequest(p) ==
    /\ p \in pending
    /\ pending' = pending \ {p}
    /\ retired' = retired \cup {p.id}
    /\ retiredAcquires' = IF p.call \in Acquires THEN retiredAcquires \cup {p.id} ELSE retiredAcquires
    /\ UNCHANGED <<nextCandidate, leased, tokens, releasing, retiredReleases, waiters, net,
                   registry, gates, leftover, made, failures>>

\* sendRequestMessage throws: failPendingRequest.
SendFails(m) ==
    /\ failures < MaxSendFailures /\ failures' = failures + 1
    /\ m \in net /\ m.kind \in {"request", "acquire"} /\ m.id \in PendingIds
    /\ Drain(m.id, {p \in pending : p.id # m.id}, net \ {m})
    /\ UNCHANGED <<retired, retiredAcquires, leased, tokens, releasing, retiredReleases,
                   registry, gates, leftover, made>>

-----------------------------------------------------------------------------
(* IPCClient: giving a lease back. *)

\* releaseRecordedResourceUseToken, releaseRecordedResourceUse.
ReleaseToken(t) ==
    /\ t \in tokens
    /\ tokens' = tokens \ {t}
    /\ IF t.id \in leased /\ t.id \notin releasing
       THEN /\ releasing' = releasing \cup {t.id}
            /\ net' = net \cup {Message("release", t.id, t.call)}
       ELSE UNCHANGED <<releasing, net>>
    /\ UNCHANGED <<nextCandidate, pending, retired, retiredAcquires, leased, retiredReleases,
                   waiters, registry, gates, leftover, made, failures>>

\* handleRecordedUseReleaseReply with "released": in time or late, the id is free again.
Released(m) ==
    /\ m \in net /\ m.kind = "released" /\ m.id \in releasing \cup retiredReleases
    /\ releasing' = releasing \ {m.id}
    /\ retiredReleases' = retiredReleases \ {m.id}
    /\ leased' = leased \ {m.id}
    /\ Drain(m.id, pending, net \ {m})
    /\ UNCHANGED <<retired, retiredAcquires, tokens, registry, gates, leftover, made, failures>>

\* Variant: a release that timed out is forgotten.
TimeoutRelease_Forgotten(id) ==
    /\ id \in releasing
    /\ releasing' = releasing \ {id}
    /\ UNCHANGED <<nextCandidate, pending, retired, retiredAcquires, leased, tokens, retiredReleases,
                   waiters, net, registry, gates, leftover, made, failures>>

\* timeoutRecordedUseRelease.
TimeoutRelease(id) ==
    /\ id \in releasing
    /\ releasing' = releasing \ {id}
    /\ retiredReleases' = retiredReleases \cup {id}
    /\ UNCHANGED <<nextCandidate, pending, retired, retiredAcquires, leased, tokens, waiters, net,
                   registry, gates, leftover, made, failures>>

\* sendRecordedUseRelease throws: failRecordedUseRelease; the id stays leased.
ReleaseSendFails(m) ==
    /\ failures < MaxSendFailures /\ failures' = failures + 1
    /\ m \in net /\ m.kind = "release" /\ m.id \in releasing
    /\ releasing' = releasing \ {m.id}
    /\ net' = net \ {m}
    /\ UNCHANGED <<nextCandidate, pending, retired, retiredAcquires, leased, tokens,
                   retiredReleases, waiters, registry, gates, leftover, made>>

-----------------------------------------------------------------------------
(* IPCServer and ServiceChildRecordedUseRegistry. *)

\* handleRequest: the answer is sent when the operation is over.
ServeRequest(m) ==
    /\ m \in net /\ m.kind = "request"
    /\ net' = (net \ {m}) \cup {Message("answer", m.id, m.call)}
    /\ UNCHANGED <<client, registry, gates, leftover, made, failures>>

\* acquire: refused while the recording is being deleted, or when the id has a lease.
ServeAcquire(m) ==
    /\ m \in net /\ m.kind = "acquire"
    /\ IF (\E l \in leases : l.peer = peer /\ l.id = m.id) \/ RecOf[m.call] \in serviceTokens
       THEN /\ net' = (net \ {m}) \cup {Message("refused", m.id, m.call)}
            /\ UNCHANGED leases
       ELSE /\ net' = (net \ {m}) \cup {Message("granted", m.id, m.call)}
            /\ leases' = leases \cup {[peer |-> peer, id |-> m.id, rec |-> RecOf[m.call]]}
    /\ UNCHANGED <<client, peer, spawned, ended, gates, leftover, made, failures>>

\* release: a release without its lease would be answered "unknown"; LeasesAccounted says
\* that there is none.
ServeRelease(m) ==
    /\ m \in net /\ m.kind = "release"
    /\ \E l \in leases : l.peer = peer /\ l.id = m.id
    /\ leases' = {l \in leases : ~(l.peer = peer /\ l.id = m.id)}
    /\ net' = (net \ {m}) \cup {Message("released", m.id, m.call)}
    /\ UNCHANGED <<client, peer, spawned, ended, gates, leftover, made, failures>>

\* register, registerPeer: the next service process; its client starts with nothing.
Register ==
    /\ peer = 0 /\ spawned < MaxPeers
    /\ spawned' = spawned + 1
    /\ peer' = spawned + 1
    /\ UNCHANGED <<client, net, ended, leases, gates, leftover, made, failures>>

\* handleTerminal, handlePeerTerminal: the process is gone, and with it the client and
\* the messages; what it had started runs on, and its leases are "unknown" from now on.
PeerTerminal ==
    /\ peer # 0
    /\ peer' = 0
    /\ ended' = ended \cup {peer}
    /\ orphans' = orphans \cup {[peer |-> peer, rec |-> RecOf[t.call]] : t \in tokens}
    /\ nextCandidate' = 1 /\ pending' = {} /\ retired' = {} /\ retiredAcquires' = {}
    /\ leased' = {} /\ tokens' = {} /\ releasing' = {} /\ retiredReleases' = {}
    /\ waiters' = <<>> /\ net' = {}
    /\ UNCHANGED <<spawned, leases, gates, capped, made, failures>>

\* A process that was left behind is stopped, or ends.
OrphanStops(o) ==
    /\ o \in orphans
    /\ orphans' = orphans \ {o}
    /\ UNCHANGED <<client, net, registry, gates, capped, made, failures>>

\* ServiceChildTerminationCleanup, releasePeer: the leases go when nothing runs any more,
\* or when the time limit of the cleanup is over.
Cleanup(p) ==
    /\ p \in ended
    /\ leases' = {l \in leases : l.peer # p}
    /\ IF \E o \in orphans : o.peer = p THEN capped' = capped \cup {p} ELSE UNCHANGED capped
    /\ UNCHANGED <<client, net, peer, spawned, ended, gates, orphans, made, failures>>

-----------------------------------------------------------------------------
(* RecordingRecordedUseProvider: the recording sessions. *)

\* Variant: the deletions are not looked at.
SessionActive_Unchecked(s, rec) ==
    /\ sessionUse' = [sessionUse EXCEPT ![s] = rec]
    /\ UNCHANGED <<client, net, registry, serviceTokens, recordingTokens, deleter, recorded,
                   leftover, made, failures>>

\* tryRegisterSessionUse, active.
SessionActive(s, rec) ==
    /\ rec \notin recordingTokens
    /\ sessionUse' = [sessionUse EXCEPT ![s] = rec]
    /\ UNCHANGED <<client, net, registry, serviceTokens, recordingTokens, deleter, recorded,
                   leftover, made, failures>>

\* tryRegisterSessionUse, unknown: refused while anything is being deleted.
SessionUnknown(s) ==
    /\ recordingTokens = {}
    /\ sessionUse' = [sessionUse EXCEPT ![s] = Unknown]
    /\ UNCHANGED <<client, net, registry, serviceTokens, recordingTokens, deleter, recorded,
                   leftover, made, failures>>

\* releaseSessionUse, or tryRegisterSessionUse with "preparing".
SessionEnds(s) ==
    /\ sessionUse[s] # NoRec
    /\ sessionUse' = [sessionUse EXCEPT ![s] = NoRec]
    /\ UNCHANGED <<client, net, registry, serviceTokens, recordingTokens, deleter, recorded,
                   leftover, made, failures>>

-----------------------------------------------------------------------------
(* StoragePressureDeletionAdapter. *)

\* prepareStorageDeletion.
PrepareDeletion(d, rec) ==
    /\ deleter[d].step = "idle" /\ rec \in recorded
    /\ deleter' = [deleter EXCEPT ![d] = [step |-> "prepared", rec |-> rec]]
    /\ UNCHANGED <<client, net, registry, serviceTokens, recordingTokens, sessionUse, recorded,
                   leftover, made, failures>>

\* RecordingRecordedUseProvider.tryAcquireDeletion.
RecordingGateOpen(rec) ==
    /\ \A s \in Sessions : sessionUse[s] # Unknown /\ sessionUse[s] # rec
    /\ rec \notin recordingTokens

\* ServiceChildRecordedUseRegistry.tryAcquireDeletion.
ServiceGateOpen(rec) ==
    /\ peer # 0
    /\ \A l \in leases : l.rec # rec
    /\ rec \notin serviceTokens

\* Both gates are tried in one go after the preparation; one that stays shut ends it.
TakeGates(d) ==
    /\ deleter[d].step = "prepared"
    /\ LET rec == deleter[d].rec IN
       IF RecordingGateOpen(rec) /\ ServiceGateOpen(rec)
       THEN /\ recordingTokens' = recordingTokens \cup {rec}
            /\ serviceTokens' = serviceTokens \cup {rec}
            /\ deleter' = [deleter EXCEPT ![d].step = "deleting"]
       ELSE /\ deleter' = [deleter EXCEPT ![d] = [step |-> "idle", rec |-> NoRec]]
            /\ UNCHANGED <<recordingTokens, serviceTokens>>
    /\ UNCHANGED <<client, net, registry, sessionUse, recorded, leftover, made, failures>>

\* deletePreparedForStorage: the recording is deleted, refused now or the deletion fails;
\* both tokens are given back.
DeletionEnds(d) ==
    /\ deleter[d].step = "deleting"
    /\ \/ recorded' = recorded \ {deleter[d].rec}
       \/ UNCHANGED recorded
    /\ recordingTokens' = recordingTokens \ {deleter[d].rec}
    /\ serviceTokens' = serviceTokens \ {deleter[d].rec}
    /\ deleter' = [deleter EXCEPT ![d] = [step |-> "idle", rec |-> NoRec]]
    /\ UNCHANGED <<client, net, registry, sessionUse, leftover, made, failures>>

-----------------------------------------------------------------------------

Init ==
    /\ nextCandidate = 1 /\ pending = {} /\ retired = {} /\ retiredAcquires = {}
    /\ leased = {} /\ tokens = {} /\ releasing = {} /\ retiredReleases = {} /\ waiters = <<>>
    /\ net = {} /\ peer = 0 /\ spawned = 0 /\ ended = {} /\ leases = {}
    /\ serviceTokens = {} /\ recordingTokens = {}
    /\ sessionUse = [s \in Sessions |-> NoRec]
    /\ deleter = [d \in Deleters |-> [step |-> "idle", rec |-> NoRec]]
    /\ recorded = Recs /\ orphans = {} /\ capped = {} /\ made = {} /\ failures = 0

\* The operator process answers, and the service process takes the answers.
Answers ==
    \E m \in net : \/ Answered(m) \/ Granted(m) \/ GrantedLate(m) \/ Released(m)
                   \/ ServeRequest(m) \/ ServeAcquire(m) \/ ServeRelease(m)

ClientNext ==
    \/ \E c \in Calls : Call(c)
    \/ \E p \in pending : TimeoutRequest(p)
    \/ \E m \in net : SendFails(m) \/ ReleaseSendFails(m)
    \/ \E t \in tokens : ReleaseToken(t)
    \/ \E id \in releasing : TimeoutRelease(id)

PeerNext ==
    \/ Register \/ PeerTerminal
    \/ \E o \in orphans : OrphanStops(o)
    \/ \E p \in ended : Cleanup(p)

GateNext ==
    \/ \E s \in Sessions : SessionUnknown(s) \/ SessionEnds(s) \/ \E rec \in Recs : SessionActive(s, rec)
    \/ \E d \in Deleters : TakeGates(d) \/ DeletionEnds(d) \/ \E rec \in Recs : PrepareDeletion(d, rec)

Next == Answers \/ ClientNext \/ PeerNext \/ GateNext

Spec == Init /\ [][Next]_vars

\* Messages arrive and are served; whoever holds a lease gives it back.
FairSpec == Spec /\ WF_vars(Answers) /\ WF_vars(\E t \in tokens : ReleaseToken(t))

-----------------------------------------------------------------------------
(* Properties. *)

Deleting == {deleter[d].rec : d \in {x \in Deleters : deleter[x].step = "deleting"}}

\* An answer reaches the call it belongs to: an id is not given out again while anything
\* of its earlier use, a late answer or a lease, is still under way.
AnswersMatch ==
    \A m \in net :
        /\ \A p \in pending : p.id = m.id => p.call = m.call /\ m.kind \notin {"release", "released"}
        /\ \A other \in net : other.id = m.id => other = m

\* Every lease of the running service is accounted for: its caller holds the token, the
\* grant is on its way, or its release is; only a release that could not be sent leaves
\* one behind.  And a release finds its lease.
LeasesAccounted ==
    /\ failures = 0 =>
          \A l \in leases : l.peer = peer =>
             \/ \E t \in tokens : t.id = l.id
             \/ \E m \in net : m.id = l.id /\ m.kind \in {"granted", "release"}
    /\ \A m \in net : m.kind = "release" => \E l \in leases : l.peer = peer /\ l.id = m.id

\* What the leases promise, with the deletion tokens as its deletions.
ExclusionUsers == Calls \cup Sessions \cup (1 .. MaxPeers)
ExclusionUses ==
    {<<t.call, RecOf[t.call]>> : t \in tokens}
    \cup {<<s, sessionUse[s]>> : s \in {x \in Sessions : sessionUse[x] \in Recs}}
    \cup {<<o.peer, o.rec>> : o \in {x \in orphans : x.peer \notin capped}}
Exclusion == INSTANCE RecordedExclusion WITH
    Users <- ExclusionUsers, uses <- ExclusionUses, deleting <- Deleting

\* The protocol implements the exclusion of users and deletions.
ImplementsExclusion == Exclusion!Spec

\* A call that waits for an id gets one, or its process ends: the ids of requests that
\* timed out and of leases come back.  Only a release that cannot be sent keeps its id.
WaitersLeave ==
    \A c \in Calls :
        (\E i \in DOMAIN waiters : waiters[i] = c)
            ~> (~\E i \in DOMAIN waiters : waiters[i] = c) \/ failures > 0
=============================================================================
