--------------------------- MODULE EncodeInvariants ---------------------------
(***************************************************************************)
(* The invariants of EncodeQueue that EncodeQueueProofs shows, and the     *)
(* terms of their proofs: what a step does to the names, the encoders, the *)
(* outputs and the records that it leaves alone.  QueueInv holds whatever  *)
(* fails; OutputInv as long as no list() fails; OnceInv as long as no call *)
(* fails at all, over every crash; IdInv and ListInv whatever fails, if    *)
(* the ids suffice; KnownInv as long as no call but list() fails.          *)
(***************************************************************************)
EXTENDS EncodeQueue

-----------------------------------------------------------------------------
(* The types and the queues. *)

Records == [id : Ids, req : Requests, out : Nat]
Operations == {op \in [op : {"add", "abandon", "output", "remove", "list"}, id : Nat, req : Requests,
                        out : Nat, by : {"admit", "encoder", "restore", "nobody"}] :
                  op.op = "remove" /\ op.by = "admit" => op.req \in FromRecording}
Admissions == [step : {"none", "lock", "lease", "adding", "rejecting"}, id : Nat]
QueuedSteps == {"wait", "starting", "spawning", "started", "exited", "startFailed"}
EncoderStates == [id : Nat, req : Requests, step : QueuedSteps \cup {"out", "removing"}, file : Nat,
                  settle : {"none", "register", "registerAndDelete", "delete"}, wakes : BOOLEAN]
Outputs == [req : Requests, state : {"none", "partial", "whole"}, registered : BOOLEAN]

\* The types, but for nextId, which orderByAcceptance computes: NextIdIsAnId states it.
TypeOK ==
    /\ rows \in Seq(Records) /\ tokens \subseteq [req : Requests, id : Ids]
    /\ toStore \in Seq(Operations) /\ toService \in Seq([id : Ids, req : FromRecording])
    /\ up \in BOOLEAN /\ restoring \in {"off", "listing", "restoring", "retry"}
    /\ todo \in Seq(Records) /\ listed \subseteq Ids
    /\ admit \in [Requests -> Admissions] /\ encoders \in Seq(EncoderStates)
    /\ checks \in Nat /\ suspended \in BOOLEAN /\ timer \in BOOLEAN /\ leases \in Int
    /\ sources \subseteq Sources /\ files \in Seq(Outputs)
    /\ faults \in [{"fault", "list", "crash", "suspend", "starts"} -> Nat]
    /\ job \in [Requests -> {"new", "open", "over"}]

\* Request r is known somewhere by the encode id.
Named(r, id) ==
    \/ \E k \in DOMAIN rows : rows[k].req = r /\ rows[k].id = id
    \/ \E k \in DOMAIN toService : toService[k].req = r /\ toService[k].id = id
    \/ \E k \in DOMAIN todo : todo[k].req = r /\ todo[k].id = id
    \/ \E k \in DOMAIN encoders : encoders[k].req = r /\ encoders[k].id = id
    \/ r \in FromRecording /\ admit[r].step # "none" /\ admit[r].id = id

\* A request is recorded under one id, and a new one under none.
OneName ==
    /\ \A r \in Requests, a, b \in Nat : Named(r, a) /\ Named(r, b) => a = b
    /\ \A r \in Requests, a \in Nat : Named(r, a) => job[r] # "new"

\* Only the admission of a request that has no record yet sends `add`, and once: a call that
\* failed leaves an `add` behind for a request that is over.
OneAdd ==
    /\ \A r \in Requests : admit[r].step # "none" =>
          IF r \in FromRecording THEN admit[r].step # "adding"
          ELSE admit[r].step # "rejecting" /\ job[r] = "new"
    /\ \A i \in DOMAIN toStore : toStore[i].op = "add" =>
          /\ toStore[i].req \notin FromRecording
          /\ \A a \in Nat : ~Named(toStore[i].req, a)
          /\ IF toStore[i].by = "admit" THEN admit[toStore[i].req].step = "adding"
             ELSE job[toStore[i].req] = "over"
    /\ \A i, j \in DOMAIN toStore :
          toStore[i].op = "add" /\ toStore[j].op = "add" /\ toStore[i].req = toStore[j].req => i = j

\* A request that is being admitted is not in the queues.
AdmittedIsNotQueued ==
    \A r \in FromRecording : admit[r].step \in {"lock", "lease"} =>
        \A i \in Queued : encoders[i].req # r

QueueInv == OneName /\ OneAdd /\ AdmittedIsNotQueued /\ OneJobPerRequest

-----------------------------------------------------------------------------
(* The encoders and the names over a step. *)

\* The place in s of what is in place k once the element at i is removed.
Shift(i, k) == IF k < i THEN k ELSE k + 1

\* None is in the queues that was not there.
EncodersKept ==
    /\ encoders' \in Seq(EncoderStates)
    /\ \A k \in DOMAIN encoders' : \E l \in DOMAIN encoders :
          encoders[l].req = encoders'[k].req /\ encoders[l].id = encoders'[k].id
    /\ \A k \in Queued' : \E l \in Queued : encoders[l].req = encoders'[k].req
    /\ OneJobPerRequest => OneJobPerRequest'

\* Everything that is known by an id now was known by it before the step.
NamesKept ==
    /\ \A k \in DOMAIN rows' : Named(rows'[k].req, rows'[k].id)
    /\ \A k \in DOMAIN toService' : Named(toService'[k].req, toService'[k].id)
    /\ \A k \in DOMAIN todo' : Named(todo'[k].req, todo'[k].id)
    /\ \A k \in DOMAIN encoders' : Named(encoders'[k].req, encoders'[k].id)
    /\ \A r \in FromRecording : admit'[r].step # "none" => Named(r, admit'[r].id)

\* A request that is not new does not become new again, and what is over stays over.
JobsKept == \A r \in Requests : job[r] # "new" => job'[r] \in {job[r], "over"}

\* The requests whose record is still to be added.
Coming ==
    {r \in Requests : job[r] = "new" \/ \E i \in DOMAIN toStore : toStore[i].op = "add" /\ toStore[i].req = r}

\* Nothing is known now that was not known before the step, and no record is to come that was not.
NothingNew ==
    /\ NamesKept /\ JobsKept
    /\ \A i \in DOMAIN toStore' : toStore'[i].op = "add" => toStore'[i].req \in Coming

\* The admissions after a step.
AdmissionsOK(adm, jb) ==
    \A r \in Requests : adm[r].step # "none" =>
        IF r \in FromRecording THEN adm[r].step # "adding"
        ELSE adm[r].step # "rejecting" /\ jb[r] = "new"

\* Every `add` was sent before, d places further on, and is still awaited, or its request is over.
AddsKept(d) ==
    \A i \in DOMAIN toStore' : toStore'[i].op = "add" =>
        /\ i + d \in DOMAIN toStore /\ toStore[i + d].op = "add" /\ toStore[i + d].req = toStore'[i].req
        /\ IF toStore'[i].by = "admit" THEN admit'[toStore'[i].req].step = "adding"
           ELSE job'[toStore'[i].req] = "over"

\* A request is in the queues that was there, and not while it is admitted.
QueuesKept ==
    /\ OneJobPerRequest'
    /\ \A r \in FromRecording : admit'[r].step \in {"lock", "lease"} =>
          \A i \in Queued' : encoders'[i].req # r

-----------------------------------------------------------------------------
(* The types of what several actions change. *)

Kinds == {"fault", "list", "crash", "suspend", "starts"}

\* What a step of an encoder alone has to show.
EncoderSteps(i, e) ==
    /\ e \in EncoderStates /\ encoders' = [encoders EXCEPT ![i] = e]
    /\ e.id = encoders[i].id /\ e.req = encoders[i].req
    /\ e.step \in QueuedSteps => encoders[i].step \in QueuedSteps

-----------------------------------------------------------------------------
(* A request gets a record, and with it its name. *)

NamesAdded(r, id) ==
    /\ \A k \in DOMAIN rows' : Named(rows'[k].req, rows'[k].id) \/ (rows'[k].req = r /\ rows'[k].id = id)
    /\ \A k \in DOMAIN toService' :
          Named(toService'[k].req, toService'[k].id) \/ (toService'[k].req = r /\ toService'[k].id = id)
    /\ \A k \in DOMAIN todo' : Named(todo'[k].req, todo'[k].id)
    /\ \A k \in DOMAIN encoders' :
          Named(encoders'[k].req, encoders'[k].id) \/ (encoders'[k].req = r /\ encoders'[k].id = id)
    /\ \A s \in FromRecording : admit'[s].step # "none" => Named(s, admit'[s].id)

\* Request r alone is known by a name that is new, and its record has come.
OneNew(r, id) ==
    /\ NamesAdded(r, id) /\ JobsKept /\ job'[r] # "new"
    /\ \A i \in DOMAIN toStore' : toStore'[i].op = "add" => toStore'[i].req \in Coming \ {r}

-----------------------------------------------------------------------------
(* The operations of the store and what their callers do next. *)

\* What is left of the operations when the i-th call fails: without it, or with nobody waiting for it.
Rest(i, dropped) == IF dropped THEN Tail(toStore) ELSE [toStore EXCEPT ![i].by = "nobody"]

-----------------------------------------------------------------------------
(* What becomes of the outputs, as long as no list() fails. *)

Unforced == faults.list = 0

\* A path is empty or that of an output.
IsPath(p, fs) == p = NoPath \/ p \in DOMAIN fs

\* What the steps of an encoder say of its output.
Fits(e, fs) ==
    /\ e.step = "wait" => e.file = NoPath
    /\ e.file # NoPath => e.file \in DOMAIN fs /\ fs[e.file].req = e.req
    /\ e.step \in {"starting", "spawning", "started"} => e.file # NoPath /\ ~fs[e.file].registered
    /\ e.settle # "none" => e.step \in {"exited", "out"} /\ e.file # NoPath
    /\ e.settle \in {"register", "registerAndDelete"} => fs[e.file].state = "whole"
    /\ e.settle = "delete" => fs[e.file].registered

IsList(op) == op.op = "list" /\ op.by = "restore"
Nothing == encoders = <<>> /\ todo = <<>> /\ \A r \in Requests : admit[r].step = "none"

\* While the service is down it has nothing, and while its list is under way neither; what is
\* still in the store's queue is waited for by nobody.
PhaseInv ==
    /\ ~up => /\ Nothing /\ restoring = "off" /\ toService = <<>> /\ listed = {}
              /\ \A i \in DOMAIN toStore : toStore[i].by = "nobody"
    /\ restoring = "listing" => Nothing
    /\ restoring # "retry"
    /\ \A i \in DOMAIN toStore : IsList(toStore[i]) => restoring = "listing"
    /\ \A i, j \in DOMAIN toStore : IsList(toStore[i]) /\ IsList(toStore[j]) => i = j

PathInv ==
    /\ \A k \in DOMAIN rows : IsPath(rows[k].out, files)
    /\ \A k \in DOMAIN todo : IsPath(todo[k].out, files)
    /\ \A k \in DOMAIN toStore : IsPath(toStore[k].out, files)

\* An output belongs to one conversion.
EncoderInv ==
    /\ \A i \in DOMAIN encoders : Fits(encoders[i], files)
    /\ \A i, k \in DOMAIN encoders :
          encoders[i].file = encoders[k].file /\ encoders[i].file # NoPath => i = k

\* An output that a restoration still judges is no conversion's.
TodoInv ==
    \A i \in DOMAIN encoders, k \in DOMAIN todo :
        todo[k].out # NoPath => todo[k].out # encoders[i].file

\* What is registered is whole, and no original is gone without.
KeptInv ==
    /\ \A f \in DOMAIN files : files[f].registered => files[f].state = "whole"
    /\ \A s \in Sources \ sources :
          \E f \in DOMAIN files : files[f].registered /\ SourceOf[files[f].req] = s

OutputInv == PhaseInv /\ PathInv /\ EncoderInv /\ TodoInv /\ KeptInv

Faultless == faults.fault = 0 /\ faults.list = 0

-----------------------------------------------------------------------------
(* The encoders and their outputs. *)

\* An encoder goes on without changing its output.
Ahead(d, e) ==
    /\ e.id = d.id /\ e.req = d.req /\ e.file = d.file /\ e.settle = d.settle
    /\ \/ e.step = d.step
       \/ d.step = "starting" /\ e.step = "spawning"
       \/ d.step \in {"wait", "spawning"} /\ e.step = "startFailed"
       \/ d.step \in {"exited", "startFailed"} /\ e.step = "out"
       \/ d.step = "out" /\ d.settle = "none" /\ e.step = "removing"
       \/ d.step = "wait" /\ e.step = "removing"

EncodersGoOn ==
    \E old \in [DOMAIN encoders' -> DOMAIN encoders] :
        /\ \A k, l \in DOMAIN encoders' : old[k] = old[l] => k = l
        /\ \A k \in DOMAIN encoders' : Ahead(encoders[old[k]], encoders'[k])

-----------------------------------------------------------------------------
(* The phases of the service, the paths and what is kept. *)

\* The operations that are left, d places further on before, and some waited for by nobody.
OperationsLeft(d) ==
    \A i \in DOMAIN toStore' :
        /\ i + d \in DOMAIN toStore /\ toStore'[i].op = toStore[i + d].op /\ toStore'[i].out = toStore[i + d].out
        /\ toStore'[i].by \in {toStore[i + d].by, "nobody"}

\* Files are added, and the state of one that is not registered changes.
FilesGoOn ==
    /\ DOMAIN files \subseteq DOMAIN files'
    /\ \A f \in DOMAIN files : /\ files'[f].req = files[f].req /\ files'[f].registered = files[f].registered
                               /\ files[f].registered => files'[f].state = files[f].state
    /\ \A f \in DOMAIN files' \ DOMAIN files : ~files'[f].registered

-----------------------------------------------------------------------------
(* The steps keep the outputs. *)

\* The steps that fail a call, and what the others do to the counts.
FailingStep ==
    \/ \E r \in Requests : AcquireRefused(r)
    \/ \E i \in DOMAIN toStore, dropped \in BOOLEAN : CallFails(i, dropped)
    \/ \E i \in DOMAIN encoders : StartFails(i) \/ Register(i, FALSE)
    \/ RestoreNextFails

-----------------------------------------------------------------------------
(* Who works for a request, as long as no call fails. *)

HasRow(id, r, rs) == \E k \in DOMAIN rs : rs[k].id = id /\ rs[k].req = r
HasEncoder(id, es) == \E i \in DOMAIN es : es[i].id = id
Admitting(id, adm) == \E r \in FromRecording : adm[r].step # "none" /\ adm[r].id = id
Removing(id, ops) == \E i \in DOMAIN ops : ops[i].op = "remove" /\ ops[i].id = id
NoFile(r, fs) == \A f \in DOMAIN fs : fs[f].req # r
Registered(r, f, fs) == f \in DOMAIN fs /\ fs[f].registered /\ fs[f].req = r
Starting(id, file, es) == \E k \in DOMAIN es : es[k].id = id /\ es[k].step = "starting" /\ es[k].file = file
Leaving(id, es) == \E k \in DOMAIN es : es[k].id = id /\ es[k].step = "removing"

\* A conversion has its record, and a record one conversion.
WorkInv ==
    /\ \A k, l \in DOMAIN rows : rows[k].id = rows[l].id => k = l
    /\ \A i \in DOMAIN encoders : HasRow(encoders[i].id, encoders[i].req, rows)
    /\ \A i, k \in DOMAIN encoders : encoders[i].id = encoders[k].id => i = k

\* What is to be restored is a record that nobody works for.
RestoreInv ==
    /\ restoring # "restoring" => todo = <<>>
    /\ restoring = "restoring" => \A r \in Requests : admit[r].step = "none"
    /\ \A k \in DOMAIN todo : /\ \E l \in DOMAIN rows : rows[l] = todo[k]
                              /\ ~HasEncoder(todo[k].id, encoders) /\ todo[k].id \in listed
    /\ \A k, l \in DOMAIN todo : todo[k].id = todo[l].id => k = l

AdmitInv ==
    \A r \in FromRecording : admit[r].step # "none" =>
        HasRow(admit[r].id, r, rows) /\ ~HasEncoder(admit[r].id, encoders) /\ NoFile(r, files)

\* A message about a record that no list had names one that nobody works for.
MessageInv ==
    \A k \in DOMAIN toService : toService[k].id \notin listed =>
        /\ HasRow(toService[k].id, toService[k].req, rows) /\ NoFile(toService[k].req, files)
        /\ ~HasEncoder(toService[k].id, encoders) /\ ~Admitting(toService[k].id, admit)
        /\ ~Removing(toService[k].id, toStore)
        /\ \A l \in DOMAIN toService : toService[l].id = toService[k].id => l = k

\* A request without a record has never been converted.
FreshInv ==
    /\ \A r \in Requests : job[r] = "new" => NoFile(r, files)
    /\ \A i \in DOMAIN toStore : toStore[i].op = "add" => NoFile(toStore[i].req, files)

\* An operation that nobody waits for was left behind by a service, and is done before the list.
LeftInv ==
    /\ \A i \in DOMAIN toStore : toStore[i].op # "abandon"
    /\ \A i \in DOMAIN toStore : toStore[i].by = "nobody" => ~up \/ restoring = "listing"
    /\ restoring = "listing" =>
          \A i \in DOMAIN toStore : IF i = Len(toStore) THEN IsList(toStore[i]) ELSE toStore[i].by = "nobody"

\* The output path is recorded for the conversion that waits for it.
PendingInv ==
    /\ \A i \in DOMAIN toStore : toStore[i].op = "output" /\ toStore[i].by # "nobody" =>
          toStore[i].by = "encoder" /\ Starting(toStore[i].id, toStore[i].out, encoders)
    /\ \A i, j \in DOMAIN toStore :
          toStore[i].op = "output" /\ toStore[i].by # "nobody" /\ toStore[j].op = "output" /\ toStore[j].by # "nobody"
              /\ toStore[i].id = toStore[j].id => i = j

\* A record is removed once, for the one who worked for it.
RemovalInv ==
    /\ \A i \in DOMAIN toStore : toStore[i].op = "remove" =>
          /\ HasRow(toStore[i].id, toStore[i].req, rows)
          /\ toStore[i].by = "encoder" => Leaving(toStore[i].id, encoders)
          /\ toStore[i].by = "admit" =>
                admit[toStore[i].req].step = "rejecting" /\ admit[toStore[i].req].id = toStore[i].id
          /\ toStore[i].by = "restore" =>
                /\ restoring = "restoring" /\ toStore[i].id \in listed
                /\ ~HasEncoder(toStore[i].id, encoders) /\ \A k \in DOMAIN todo : todo[k].id # toStore[i].id
    /\ \A i, j \in DOMAIN toStore :
          toStore[i].op = "remove" /\ toStore[j].op = "remove" /\ toStore[i].id = toStore[j].id => i = j

\* A conversion that may still be registered is the first one of its request; once it is
\* registered the record names it.
Early(e) == e.step \in {"wait", "starting", "spawning", "started"}
                \/ e.settle \in {"register", "registerAndDelete"}
FirstInv ==
    /\ \A r \in Requests, f, g \in DOMAIN files : Registered(r, f, files) /\ Registered(r, g, files) => f = g
    /\ \A k \in DOMAIN rows, f \in DOMAIN files : Registered(rows[k].req, f, files) => rows[k].out = f
    /\ \A i \in DOMAIN encoders, f \in DOMAIN files :
          Early(encoders[i]) => ~Registered(encoders[i].req, f, files)
    /\ \A i \in DOMAIN encoders, k \in DOMAIN rows :
          rows[k].id = encoders[i].id /\ encoders[i].file # NoPath /\ encoders[i].step # "starting" =>
              rows[k].out = encoders[i].file
    /\ \A i \in DOMAIN toStore, k \in DOMAIN rows, f \in DOMAIN files :
          toStore[i].op = "output" /\ rows[k].id = toStore[i].id => ~Registered(rows[k].req, f, files)

OnceInv == /\ WorkInv /\ RestoreInv /\ AdmitInv /\ MessageInv /\ FreshInv
           /\ LeftInv /\ PendingInv /\ RemovalInv /\ FirstInv

\* What a step does to a conversion, but for what its first output is told.
Later(d, e) ==
    /\ e.id = d.id /\ e.req = d.req
    /\ Early(e) => Early(d)
    /\ e.file # NoPath /\ e.step # "starting" => e.file = d.file /\ d.step # "starting"

EncodersWork ==
    /\ \A k \in DOMAIN encoders' : \E l \in DOMAIN encoders : Later(encoders[l], encoders'[k])
    /\ \A k, l \in DOMAIN encoders' : encoders'[k].id = encoders'[l].id => k = l

\* The conversions that wait for the store go on waiting.
EncodersWait ==
    /\ \A id, file : Starting(id, file, encoders) => Starting(id, file, encoders')
    /\ \A id : Leaving(id, encoders) => Leaving(id, encoders')

NoNewEncoder == \A id : HasEncoder(id, encoders') => HasEncoder(id, encoders)
RowsStay == \A id, r : HasRow(id, r, rows) => HasRow(id, r, rows')

-----------------------------------------------------------------------------
(* The conversions keep to their records. *)

\* The outputs stay those of the same requests, and none is registered.
FilesAlike ==
    \A f \in DOMAIN files' :
        f \in DOMAIN files /\ files'[f].req = files[f].req /\ (files'[f].registered => files[f].registered)

Others == WorkInv /\ RestoreInv /\ AdmitInv /\ MessageInv /\ FreshInv /\ LeftInv /\ PendingInv /\ RemovalInv

-----------------------------------------------------------------------------
(* No request is lost, as long as the ids suffice. *)

\* The ids are many against the requests: however the ids of the rows lie, the widest gap between
\* them has room for the requests that are to come. The code has 2^53 - 1 of them.
EnoughIds == IsFiniteSet(Requests) /\ Cardinality(Requests) * Cardinality(Requests) < MaxId

\* Request r is known by the encode id, or by a token or a removal under way.
Tied(r, id) ==
    \/ Named(r, id)
    \/ \E t \in tokens : t.req = r /\ t.id = id
    \/ \E i \in DOMAIN toStore : toStore[i].op = "remove" /\ toStore[i].req = r /\ toStore[i].id = id

\* An id is one request's, a request has one id, and has had its record when it has an id.
TieInv ==
    /\ \A r, s \in Requests, a \in Nat : Tied(r, a) /\ Tied(s, a) => r = s
    /\ \A r \in Requests, a, b \in Nat : Tied(r, a) /\ Tied(r, b) => a = b
    /\ \A r \in Requests, a \in Nat : Tied(r, a) => r \notin Coming

\* The ids that will be given out next are not in use, nor does the service remember them.
Used(id) == id \in listed \/ \E r \in Requests : Tied(r, id)
AheadInv == \A id \in Ids : Used(id) => Distance(id) >= Cardinality(Coming)

\* A record has its id for itself; an accepted request has a record; who is to lose it is over.
RecordInv ==
    /\ \A k, l \in DOMAIN rows : rows[k].id = rows[l].id => k = l
    /\ \A r \in Requests : job[r] = "open" => \E k \in DOMAIN rows : rows[k].req = r
    /\ \A i \in DOMAIN toStore : toStore[i].op \in {"remove", "abandon"} => job[toStore[i].req] = "over"

IdInv == TieInv /\ AheadInv /\ RecordInv

-----------------------------------------------------------------------------
(* The ids over a step that adds no record. *)

\* The operation was sent before.
OldOperation(op) ==
    \E j \in DOMAIN toStore : toStore[j].op = op.op /\ toStore[j].req = op.req /\ toStore[j].id = op.id

\* An operation that takes a record away is of a request that is over, by its id.
Ends(op) ==
    /\ op.op = "remove" => Tied(op.req, op.id)
    /\ op.op \in {"remove", "abandon"} => job'[op.req] = "over"

OperationsEnd == \A i \in DOMAIN toStore' : OldOperation(toStore'[i]) \/ Ends(toStore'[i])

NoneOpened == \A r \in Requests : job'[r] = "open" => job[r] = "open"

-----------------------------------------------------------------------------
(* The list that a restoration waits for. *)

ListInv ==
    /\ \A i \in DOMAIN toStore : IsList(toStore[i]) => restoring = "listing"
    /\ \A i, j \in DOMAIN toStore : IsList(toStore[i]) /\ IsList(toStore[j]) => i = j
    /\ restoring # "restoring" => todo = <<>>
    /\ ~up => restoring = "off"

-----------------------------------------------------------------------------
(* Every record is known by the service, as long as no call but list fails. *)

NoFault == faults.fault = 0

\* An `add` that nobody waits for was left behind by a service, and is done before the list.
BehindInv ==
    \A i \in DOMAIN toStore : toStore[i].op = "add" /\ toStore[i].by # "admit" =>
        ~up \/ \E j \in DOMAIN toStore : i < j /\ IsList(toStore[j])

\* Somebody will do something about the record of request r with this id.
Covered(id, r) ==
    \/ HasEncoder(id, encoders)
    \/ admit[r].step # "none"
    \/ Removing(id, toStore)
    \/ \E i \in DOMAIN todo : todo[i].id = id
    \/ id \notin listed /\ \E i \in DOMAIN toService : toService[i].id = id

ThroughList == up /\ restoring \in {"off", "restoring"}
CoverInv == ThroughList => \A id \in Nat, r \in Requests : HasRow(id, r, rows) => Covered(id, r)

KnownInv == BehindInv /\ CoverInv

\* What covers a record goes on doing so.
EncodersStay == \A id : HasEncoder(id, encoders) => HasEncoder(id, encoders')
AdmissionsStay == \A r \in Requests : admit[r].step # "none" => admit'[r].step # "none"
RemovalsStay == \A id : Removing(id, toStore) => Removing(id, toStore')
NoNewRow == \A id, r : HasRow(id, r, rows') => HasRow(id, r, rows)

==============================================================================
