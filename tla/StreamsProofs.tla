---------------------------- MODULE StreamsProofs ----------------------------
(***************************************************************************)
(* Theorems about Streams, for every number of streams, ids and failures: a *)
(* stream that is gone has given everything back, and nobody deletes the    *)
(* files of a stream that is being watched.                                 *)
(***************************************************************************)
EXTENDS Streams, SequenceTheorems, TLAPS

-----------------------------------------------------------------------------
(* Types. *)

Owners == Streams \cup {Nobody}
ActiveStreams == [id : Ids, step : {"new", "listing", "listed", "turn", "recheck", "start", "over"},
                  settled : {"no", "resolved", "rejected"}, state : {"none", "starting", "stopping"},
                  finalize : {"none", "turn", "resources", "done"}]
Sessions == [step : {"none", "directory", "prepare", "tuner", "writer", "late", "lateFiles", "up",
                     "failed"},
             stopped : BOOLEAN, tuner : BOOLEAN, writer : BOOLEAN,
             finalizer : {"none", "stopping", "files", "done"}]
Finalizations == [pending : BOOLEAN, attempted : BOOLEAN]
Turns == [by : Streams, for : {"prepare", "dispose", "late"}, at : {"waits", "deletes"}]

\* The variables have the values that the code can give them.
TypeOK ==
    /\ active \in [Streams -> ActiveStreams]
    /\ streams \in [Ids -> Owners]
    /\ session \in [Streams -> Sessions]
    /\ finalization \in [Streams -> Finalizations]
    /\ owners \in [Ids -> Owners] /\ turns \in [Ids -> Seq(Turns)]
    /\ files \in [Ids -> SUBSET Owners]
    /\ tuners \subseteq Streams /\ writers \subseteq Streams /\ failures \in Nat

-----------------------------------------------------------------------------
(* The inductive invariant. *)

\* The parts of the invariant about one stream.
Begun(s) == session[s].step # "none"
Starting == {"directory", "prepare", "tuner", "writer", "late", "lateFiles"}

\* What start, session and stop of one stream say of each other.
ActiveFits(a, x) ==
    /\ a.step \in {"new", "listing", "listed"} => a.state = "none"
    /\ a.state = "none" => /\ a.step \in {"new", "listing", "listed", "over"}
                           /\ a.finalize = "none" /\ x.step = "none"
    /\ a.finalize # "none" <=> a.state = "stopping"
    /\ a.step = "start" => x.step # "none"
    /\ x.step # "none" => a.step \in {"start", "over"}
    /\ x.step \in Starting => a.step = "start"
    /\ a.finalize \in {"resources", "done"} /\ x.step # "none" => x.stopped

\* What the session of a stream says of its tuner and its writer: they are given back with
\* the session, and one that comes later is not adopted.
SessionFits(x) ==
    /\ x.step = "none" => x = [step |-> "none", stopped |-> FALSE, tuner |-> FALSE,
                               writer |-> FALSE, finalizer |-> "none"]
    /\ x.stopped <=> x.finalizer # "none"
    /\ x.tuner \/ x.writer => x.finalizer \in {"none", "stopping"}
    /\ x.writer => x.step = "up"
    /\ x.step \in {"late", "lateFiles"} => x.stopped

Life(s) ==
    /\ ActiveFits(active[s], session[s]) /\ SessionFits(session[s])
    /\ s \in tuners => session[s].tuner
    /\ s \in writers => session[s].writer \/ session[s].step = "late"
    /\ session[s].step \in {"writer", "late", "lateFiles"} => finalization[s].pending
    /\ finalization[s].attempted => session[s].stopped
    /\ active[s].state # "none" /\ active[s].finalize # "done" => streams[IdOf(s)] = s

\* A turn of the clean-up belongs to a stream that waits for it, once, and only the first
\* one deletes.
TurnFits(id, turn) ==
    /\ IdOf(turn.by) = id
    /\ turn.for = "prepare" => session[turn.by].step = "prepare"
    /\ turn.for = "late" => session[turn.by].step = "lateFiles"
    /\ turn.for = "dispose" => session[turn.by].finalizer = "files"
FittingTurns(id) == {turn \in Turns : TurnFits(id, turn)}
InTurn(q) ==
    \A i \in 1 .. Len(q) :
        /\ i > 1 => q[i].at = "waits"
        /\ \A j \in 1 .. Len(q) : q[i].by = q[j].by /\ q[i].for = q[j].for => i = j
TurnInv == \A id \in Ids : turns[id] \in Seq(FittingTurns(id)) /\ InTurn(turns[id])

\* The files with the id of a session that goes on are its own, and once its directory is
\* prepared nobody else deletes there.
Watched(s) == session[s].step \in {"tuner", "writer", "up"} /\ ~session[s].stopped
OwnerInv ==
    /\ \A s \in Streams : Begun(s) /\ ~session[s].stopped => owners[IdOf(s)] = s
    /\ \A s \in Streams : 
          Watched(s) /\ turns[IdOf(s)] # <<>> /\ Head(turns[IdOf(s)]).at = "deletes" =>
              Head(turns[IdOf(s)]).by = s

\* A stream that has files, or may still write some, owns them and will delete them.
MayWrite(s) ==
    \/ s \in writers
    \/ session[s].step \in {"writer", "late"}
    \/ session[s].step \in {"directory", "prepare", "tuner"} /\ ~session[s].stopped
Alone(s) == ~\E t \in Streams \ {s} : Begun(t) /\ IdOf(t) = IdOf(s)
FileInv ==
    /\ \A id \in Ids : \A s \in files[id] \cap Streams : Begun(s) /\ IdOf(s) = id
    /\ \A s \in Streams :
          failures = 0 /\ Alone(s) /\ Begun(s) /\ (MayWrite(s) \/ s \in files[IdOf(s)]) =>
              /\ owners[IdOf(s)] = s
              /\ session[s].finalizer # "done" \/ session[s].step \in {"writer", "late", "lateFiles"}

IInv == TypeOK /\ (\A s \in Streams : Life(s)) /\ TurnInv /\ OwnerInv /\ FileInv
-----------------------------------------------------------------------------
(* Steps of one stream. *)

\* What a step of stream s makes of its own state: a is its ActiveStream and x its session
\* afterwards.  Nothing of another stream changes.
Becomes(s, a, x, f) ==
    /\ a \in ActiveStreams /\ x \in Sessions /\ f \in Finalizations
    /\ active' = [active EXCEPT ![s] = a]
    /\ session' = [session EXCEPT ![s] = x]
    /\ finalization' = [finalization EXCEPT ![s] = f]
    /\ tuners' \subseteq tuners \cup {s} /\ tuners \subseteq tuners' \cup {s}
    /\ writers' \subseteq writers \cup {s} /\ writers \subseteq writers' \cup {s}
    /\ streams' \in [Ids -> Owners]
    /\ \A id \in Ids : \A t \in Streams \ {s} : streams[id] = t => streams'[id] = t
    /\ failures' \in Nat /\ failures' >= failures

\* What the stream is afterwards fits together.
FitsAfter(s, a, x, f) ==
    /\ ActiveFits(a, x) /\ SessionFits(x)
    /\ s \in tuners' => x.tuner
    /\ s \in writers' => x.writer \/ x.step = "late"
    /\ x.step \in {"writer", "late", "lateFiles"} => f.pending
    /\ f.attempted => x.stopped
    /\ a.state # "none" /\ a.finalize # "done" => streams'[a.id] = s

\* What becomes of the streams.
LEMMA BecomesThat ==
    ASSUME TypeOK, NEW s \in Streams, NEW a, NEW x, NEW f, Becomes(s, a, x, f)
    PROVE  /\ active' \in [Streams -> ActiveStreams] /\ session' \in [Streams -> Sessions]
           /\ finalization' \in [Streams -> Finalizations]
           /\ active'[s] = a /\ session'[s] = x /\ finalization'[s] = f
           /\ \A t \in Streams \ {s} : /\ active'[t] = active[t] /\ session'[t] = session[t]
                                       /\ finalization'[t] = finalization[t]
                                       /\ t \in tuners' => t \in tuners
                                       /\ t \in writers' <=> t \in writers
           /\ tuners' \subseteq Streams /\ writers' \subseteq Streams
BY DEF Becomes, TypeOK

\* The parts of the invariant about single streams are kept.
LEMMA LivesOn ==
    ASSUME TypeOK, \A t \in Streams : Life(t),
           NEW s \in Streams, NEW a, NEW x, NEW f, Becomes(s, a, x, f), FitsAfter(s, a, x, f)
    PROVE  \A t \in Streams : Life(t)'
<1>1. Life(s)'
  BY BecomesThat DEF FitsAfter, Life, IdOf
<1>2. ASSUME NEW t \in Streams \ {s} PROVE Life(t)'
  <2>1. /\ active'[t] = active[t] /\ session'[t] = session[t] /\ finalization'[t] = finalization[t]
        /\ t \in tuners' => t \in tuners
        /\ t \in writers' => t \in writers
    BY <1>2, BecomesThat
  <2>2. active[t].id \in Ids
    BY <1>2 DEF TypeOK, ActiveStreams
  <2>3. streams[active[t].id] = t => streams'[active[t].id] = t
    BY <1>2, <2>2 DEF Becomes
  <2>4. Life(t)
    OBVIOUS
  <2> QED BY <2>1, <2>3, <2>4 DEF Life, IdOf
<1> QED BY <1>1, <1>2

-----------------------------------------------------------------------------
(* Steps that leave the files to the one whose they are. *)

\* When the start or the stop of s goes on it does not fall back: it keeps its id, it stays
\* stopped, it keeps its turn of the clean-up, and it gains no right to write.
Onward(s, a, x) ==
    /\ Begun(s) => a.id = IdOf(s)
    /\ x.step # "none" <=> Begun(s)
    /\ session[s].stopped => x.stopped
    /\ session[s].step \in {"prepare", "lateFiles"} => x.step = session[s].step
    /\ session[s].finalizer = "files" => x.finalizer = "files"
    /\ x.step \in {"tuner", "writer", "up"} /\ ~x.stopped => session[s].step \in {"tuner", "writer", "up"}
    /\ s \in writers' => MayWrite(s)
    /\ x.step \in {"writer", "late"} => MayWrite(s)
    /\ x.step \in {"directory", "prepare", "tuner"} /\ ~x.stopped => MayWrite(s)
    /\ failures' = 0 /\ x.finalizer = "done" /\ x.step \notin {"writer", "late", "lateFiles"} =>
          session[s].finalizer = "done" /\ session[s].step \notin {"writer", "late", "lateFiles"}

\* What s does meanwhile to the artifacts: it may give its files up after a failure, write,
\* or ask for a turn.
KeepsOwners(s, x) ==
    owners' = owners \/ (x.stopped /\ failures' > 0 /\ owners' = Release(s, owners))
KeepsFiles(s) ==
    files' = files \/ (s \in writers /\ files' = [files EXCEPT ![IdOf(s)] = @ \cup {s}])
Asks(s, x, for) ==
    /\ Begun(s) /\ Enqueue(s, for)
    /\ for = "prepare" => session[s].step # "prepare" /\ x.step = "prepare"
    /\ for = "late" => session[s].step # "lateFiles" /\ x.step = "lateFiles"
    /\ for = "dispose" => session[s].finalizer # "files" /\ x.finalizer = "files"
KeepsTurns(s, x) ==
    turns' = turns \/ \E for \in {"prepare", "dispose", "late"} : Asks(s, x, for)

\* A session that has not begun waits for no turn.
LEMMA BegunBy ==
    ASSUME \A s \in Streams : Life(s), NEW id, NEW turn \in Turns, TurnFits(id, turn)
    PROVE  Begun(turn.by)
<1>1. turn.by \in Streams /\ turn.for \in {"prepare", "dispose", "late"}
  BY DEF Turns
<1>2. SessionFits(session[turn.by])
  BY <1>1 DEF Life
<1> QED BY <1>1, <1>2 DEF TurnFits, SessionFits, Begun

\* Every turn that there is still fits.
LEMMA TurnStillFits ==
    ASSUME TypeOK, \A t \in Streams : Life(t),
           NEW s \in Streams, NEW a, NEW x, NEW f, Becomes(s, a, x, f), Onward(s, a, x),
           NEW id, NEW turn \in Turns, TurnFits(id, turn)
    PROVE  TurnFits(id, turn)'
<1>1. Begun(turn.by) /\ turn.by \in Streams
  BY BegunBy DEF Turns
<1>2. CASE turn.by = s
  BY <1>1, <1>2, BecomesThat DEF TurnFits, Onward, IdOf, Begun
<1>3. CASE turn.by # s
  <2>1. active'[turn.by] = active[turn.by] /\ session'[turn.by] = session[turn.by]
    BY <1>1, <1>3, BecomesThat
  <2> QED BY <2>1 DEF TurnFits, IdOf
<1> QED BY <1>2, <1>3

\* A turn is appended, the first one begins to delete, the first one leaves.
LEMMA AppendInTurn ==
    ASSUME NEW q \in Seq(Turns), InTurn(q), NEW turn \in Turns, turn.at = "waits",
           \A i \in 1 .. Len(q) : ~(q[i].by = turn.by /\ q[i].for = turn.for)
    PROVE  /\ InTurn(Append(q, turn)) /\ Append(q, turn) # <<>>
           /\ Head(Append(q, turn)) = IF q = <<>> THEN turn ELSE Head(q)
<1> DEFINE r == Append(q, turn)
<1>1. /\ Len(r) = Len(q) + 1 /\ r[Len(q) + 1] = turn
      /\ \A i \in 1 .. Len(q) : r[i] = q[i]
  BY ONLY AppendProperties, q \in Seq(Turns), turn \in Turns DEF r
<1>2. Len(q) \in Nat /\ (q = <<>> <=> Len(q) = 0)
  BY ONLY LenProperties, EmptySeq, q \in Seq(Turns)
<1>3. r \in Seq(Turns) /\ r # <<>>
  BY ONLY AppendProperties, q \in Seq(Turns), turn \in Turns DEF r
<1>4. Head(r) = r[1]
  BY ONLY <1>3, HeadTailProperties
<1>5. q # <<>> => Head(q) = q[1]
  BY ONLY HeadTailProperties, q \in Seq(Turns)
<1> HIDE DEF r
<1>6. ASSUME NEW i \in 1 .. Len(r) PROVE i > 1 => r[i].at = "waits"
  <2>1. i \in 1 .. Len(q) \/ i = Len(q) + 1
    BY <1>1, <1>2
  <2> QED BY <1>1, <1>2, <2>1 DEF InTurn
<1>7. ASSUME NEW i \in 1 .. Len(r), NEW j \in 1 .. Len(r), r[i].by = r[j].by, r[i].for = r[j].for
      PROVE  i = j
  <2>1. (i \in 1 .. Len(q) \/ i = Len(q) + 1) /\ (j \in 1 .. Len(q) \/ j = Len(q) + 1)
    BY <1>1, <1>2
  <2> QED BY <1>1, <1>2, <1>7, <2>1 DEF InTurn
<1>8. InTurn(r)
  BY <1>6, <1>7 DEF InTurn
<1>9. r # <<>> /\ Head(r) = IF q = <<>> THEN turn ELSE Head(q)
  BY <1>1, <1>2, <1>3, <1>4, <1>5
<1> QED BY <1>8, <1>9 DEF r

\* The first deletion of a queue begins: the queue stays in turn.
LEMMA BeginInTurn ==
    ASSUME NEW q \in Seq(Turns), InTurn(q), q # <<>>
    PROVE  /\ InTurn([q EXCEPT ![1].at = "deletes"]) /\ [q EXCEPT ![1].at = "deletes"] # <<>>
           /\ Head([q EXCEPT ![1].at = "deletes"]) = [Head(q) EXCEPT !.at = "deletes"]
           /\ Len([q EXCEPT ![1].at = "deletes"]) = Len(q)
<1> DEFINE first == [q[1] EXCEPT !.at = "deletes"]
           r == [q EXCEPT ![1] = first]
<1>1. Len(q) \in Nat /\ 1 \in 1 .. Len(q)
  BY ONLY LenProperties, EmptySeq, q \in Seq(Turns), q # <<>>
<1>2. q[1] \in Turns
  BY ONLY <1>1, ElementOfSeq, q \in Seq(Turns)
<1>3. first \in Turns /\ first.by = q[1].by /\ first.for = q[1].for
  BY <1>2 DEF Turns
<1>4. [q EXCEPT ![1].at = "deletes"] = r
  OBVIOUS
<1> HIDE DEF first
<1>5. /\ Len(r) = Len(q) /\ r \in Seq(Turns)
      /\ \A i \in 1 .. Len(q) : r[i] = IF i = 1 THEN first ELSE q[i]
  BY ONLY <1>1, <1>3, ExceptSeq, q \in Seq(Turns) DEF r
<1> HIDE DEF r
<1>6. r # <<>>
  BY ONLY <1>1, <1>5, EmptySeq, q \in Seq(Turns)
<1>7. Head(r) = r[1] /\ Head(q) = q[1]
  BY ONLY <1>1, <1>5, <1>6, q \in Seq(Turns), q # <<>>
<1>8. \A i \in 1 .. Len(r) : r[i].by = q[i].by /\ r[i].for = q[i].for /\ (i > 1 => r[i] = q[i])
  BY <1>1, <1>3, <1>5
<1>9. InTurn(r)
  BY <1>5, <1>8 DEF InTurn
<1> QED BY <1>1, <1>4, <1>5, <1>6, <1>7, <1>9 DEF first

\* The first deletion is over: the next is at the head and still waits, and nothing
\* else in the queue is of the stream and the deletion that left.
LEMMA LeaveInTurn ==
    ASSUME NEW q \in Seq(Turns), InTurn(q), q # <<>>
    PROVE  /\ InTurn(Tail(q))
           /\ Tail(q) # <<>> => Head(Tail(q)).at = "waits"
           /\ \A i \in 1 .. Len(Tail(q)) : ~(Tail(q)[i].by = Head(q).by /\ Tail(q)[i].for = Head(q).for)
<1> DEFINE r == Tail(q)
<1>1. /\ Len(r) = Len(q) - 1 /\ Len(q) \in Nat /\ Len(q) >= 1 /\ Head(q) = q[1]
      /\ \A i \in 1 .. Len(r) : r[i] = q[i + 1] /\ i + 1 \in 1 .. Len(q) /\ i + 1 > 1
      /\ r # <<>> => Head(r) = r[1] /\ 1 \in 1 .. Len(r)
      /\ 1 \in 1 .. Len(q)
  OBVIOUS
<1> HIDE DEF r
<1>2. \A i \in 1 .. Len(r) : r[i].at = "waits"
  BY <1>1 DEF InTurn
<1>3. ASSUME NEW i \in 1 .. Len(r), NEW j \in 1 .. Len(r), r[i].by = r[j].by, r[i].for = r[j].for
      PROVE  i = j
  <2>1. i + 1 = j + 1
    BY <1>1, <1>3 DEF InTurn
  <2> QED BY <2>1
<1>4. ASSUME NEW i \in 1 .. Len(r), r[i].by = Head(q).by, r[i].for = Head(q).for PROVE FALSE
  <2>1. i + 1 = 1
    BY <1>1, <1>4 DEF InTurn
  <2> QED BY <2>1
<1>5. InTurn(r)
  BY <1>2, <1>3 DEF InTurn
<1> QED BY <1>1, <1>2, <1>4, <1>5 DEF r

\* The turns still fit, and a turn that was asked for is one more.
LEMMA TurnsKept ==
    ASSUME TypeOK, \A t \in Streams : Life(t), TurnInv,
           NEW s \in Streams, NEW a, NEW x, NEW f, Becomes(s, a, x, f), Onward(s, a, x),
           KeepsTurns(s, x)
    PROVE  /\ turns' \in [Ids -> Seq(Turns)] /\ TurnInv'
           /\ \A id \in Ids : turns'[id] # <<>> /\ Head(turns'[id]).at = "deletes" =>
                 turns[id] # <<>> /\ Head(turns'[id]) = Head(turns[id])
<1>1. ASSUME NEW id \in Ids PROVE turns[id] \in Seq(FittingTurns(id)')
  <2>1. FittingTurns(id) \subseteq FittingTurns(id)'
    BY TurnStillFits DEF FittingTurns
  <2>2. turns[id] \in Seq(FittingTurns(id))
    BY DEF TurnInv
  <2> QED BY ONLY <2>1, <2>2, SeqMonotonic
<1>2. CASE turns' = turns
  BY <1>1, <1>2 DEF TurnInv, TypeOK
<1>3. ASSUME NEW for \in {"prepare", "dispose", "late"}, Asks(s, x, for)
      PROVE  /\ turns' \in [Ids -> Seq(Turns)] /\ TurnInv'
             /\ \A id \in Ids : turns'[id] # <<>> /\ Head(turns'[id]).at = "deletes" =>
                   turns[id] # <<>> /\ Head(turns'[id]) = Head(turns[id])
  <2>0. IdOf(s) \in Ids /\ IdOf(s)' = IdOf(s)
    BY <1>3, BecomesThat DEF Asks, Onward, IdOf, TypeOK, ActiveStreams
  <2>1. PICK id0 \in Ids : id0 = IdOf(s) /\ id0 = IdOf(s)'
    BY <2>0
  <2> DEFINE q == turns[id0]
             turn == [by |-> s, for |-> for, at |-> "waits"]
  <2>2. turn \in Turns /\ turn.at = "waits" /\ turn.by = s /\ turn.for = for
    BY DEF Turns
  <2>3. turns' = [turns EXCEPT ![id0] = Append(q, turn)]
    BY <1>3, <2>1 DEF Asks, Enqueue
  <2> HIDE DEF turn
  <2>4. TurnFits(id0, turn)'
    BY <1>3, <2>1, <2>2, BecomesThat DEF TurnFits, Asks
  <2>5. turn \in FittingTurns(id0)'
    BY <2>2, <2>4 DEF FittingTurns
  <2>6. q \in Seq(FittingTurns(id0)) /\ q \in Seq(FittingTurns(id0)') /\ q \in Seq(Turns) /\ InTurn(q)
    BY <1>1, <2>1 DEF TurnInv, TypeOK
  <2>7. ASSUME NEW i \in 1 .. Len(q), q[i].by = turn.by, q[i].for = turn.for PROVE FALSE
    <3>1. q[i] \in FittingTurns(id0)
      BY ONLY <2>6, ElementOfSeq, i \in 1 .. Len(q)
    <3> QED BY <1>3, <2>2, <2>7, <3>1 DEF FittingTurns, TurnFits, Asks
  <2> HIDE DEF q
  <2>8. Append(q, turn) \in Seq(Turns) /\ Append(q, turn) \in Seq(FittingTurns(id0)')
    BY ONLY <2>2, <2>5, <2>6, AppendProperties
  <2>9. /\ InTurn(Append(q, turn)) /\ Append(q, turn) # <<>>
        /\ Head(Append(q, turn)) = IF q = <<>> THEN turn ELSE Head(q)
    BY <2>2, <2>6, <2>7, AppendInTurn
  <2>10. turns' \in [Ids -> Seq(Turns)]
    BY <2>1, <2>3, <2>8 DEF TypeOK
  <2>11. turns'[id0] = Append(q, turn) /\ \A id \in Ids \ {id0} : turns'[id] = turns[id]
    BY <2>1, <2>3 DEF TypeOK
  <2>12. ASSUME NEW id \in Ids PROVE turns'[id] \in Seq(FittingTurns(id)') /\ InTurn(turns'[id])
    <3>1. CASE id = id0
      BY <2>8, <2>9, <2>11, <3>1
    <3>2. CASE id # id0
      <4>1. turns'[id] = turns[id]
        BY <2>11, <3>2
      <4>2. turns[id] \in Seq(FittingTurns(id)') /\ InTurn(turns[id])
        BY <1>1 DEF TurnInv
      <4> QED BY <4>1, <4>2
    <3> QED BY <3>1, <3>2
  <2>13. TurnInv'
    BY <2>12 DEF TurnInv
  <2>14. ASSUME NEW id \in Ids, turns'[id] # <<>>, Head(turns'[id]).at = "deletes"
         PROVE  turns[id] # <<>> /\ Head(turns'[id]) = Head(turns[id])
    BY <2>2, <2>9, <2>11, <2>14 DEF q
  <2> QED BY <2>10, <2>13, <2>14
<1> QED BY <1>2, <1>3 DEF KeepsTurns

\* The files stay with the one whose they are.
LEMMA ArtifactsKept ==
    ASSUME IInv,
           NEW s \in Streams, NEW a, NEW x, NEW f, Becomes(s, a, x, f), Onward(s, a, x),
           KeepsOwners(s, x), KeepsFiles(s), KeepsTurns(s, x)
    PROVE  /\ owners' \in [Ids -> Owners] /\ files' \in [Ids -> SUBSET Owners]
           /\ OwnerInv' /\ FileInv'
<1>0. TypeOK
  BY DEF IInv
<1>1. ASSUME NEW t \in Streams
      PROVE  (Begun(t)' <=> Begun(t)) /\ (Begun(t) => IdOf(t)' = IdOf(t)) /\ IdOf(t) \in Ids
  <2>1. IdOf(t) \in Ids
    BY <1>0 DEF TypeOK, IdOf, ActiveStreams
  <2>2. CASE t = s
    <3>1. active'[s] = a /\ session'[s] = x
      BY <1>0, BecomesThat
    <3> QED BY <2>1, <2>2, <3>1 DEF Onward, Begun, IdOf
  <2>3. CASE t # s
    <3>1. active'[t] = active[t] /\ session'[t] = session[t]
      BY <1>0, <2>3, BecomesThat
    <3> QED BY <2>1, <3>1 DEF Begun, IdOf
  <2> QED BY <2>2, <2>3
<1>2. \A id \in Ids : owners'[id] = owners[id] \/ (owners[id] = s /\ failures' > 0 /\ x.stopped)
  <2>1. owners \in [Ids -> Owners] /\ IdOf(s) \in Ids
    BY <1>0, <1>1 DEF TypeOK
  <2> QED BY <2>1 DEF KeepsOwners, Release
<1>3. owners' \in [Ids -> Owners]
  <2>1. owners \in [Ids -> Owners] /\ IdOf(s) \in Ids /\ Nobody \in Owners
    BY <1>0, <1>1 DEF TypeOK, Owners
  <2> QED BY <2>1 DEF KeepsOwners, Release
<1>4. files' \in [Ids -> SUBSET Owners]
  <2>1. files \in [Ids -> SUBSET Owners] /\ IdOf(s) \in Ids /\ s \in Owners
    BY <1>0, <1>1 DEF TypeOK, Owners
  <2> QED BY <2>1 DEF KeepsFiles
<1>5. ASSUME NEW t \in Streams, Begun(t)', ~session'[t].stopped PROVE owners'[IdOf(t)'] = t
  <2>1. Begun(t) /\ ~session[t].stopped /\ (t = s => ~x.stopped)
    BY <1>1, <1>5, BecomesThat DEF IInv, Onward
  <2>2. owners[IdOf(t)] = t
    BY <2>1 DEF IInv, OwnerInv
  <2> QED BY <1>1, <1>2, <2>1, <2>2
<1>6. ASSUME NEW t \in Streams, Watched(t)', turns'[IdOf(t)'] # <<>>,
             Head(turns'[IdOf(t)']).at = "deletes"
      PROVE  Head(turns'[IdOf(t)']).by = t
  <2>1. Watched(t) /\ Begun(t)
    BY <1>6, BecomesThat DEF IInv, Watched, Onward, Begun
  <2>2. IdOf(t)' = IdOf(t) /\ IdOf(t) \in Ids
    BY <1>1, <2>1
  <2>3. turns[IdOf(t)] # <<>> /\ Head(turns'[IdOf(t)]) = Head(turns[IdOf(t)])
    BY <1>6, <2>2, TurnsKept DEF IInv
  <2> QED BY <1>6, <2>1, <2>2, <2>3 DEF IInv, OwnerInv
<1>7. OwnerInv'
  BY <1>5, <1>6 DEF OwnerInv
<1>8. ASSUME NEW id \in Ids, NEW t \in files'[id] \cap Streams
      PROVE  t \in files[id] \/ (t = s /\ id = IdOf(s) /\ s \in writers)
  <2>1. files \in [Ids -> SUBSET Owners] /\ IdOf(s) \in Ids
    BY <1>0, <1>1 DEF TypeOK
  <2> QED BY <1>8, <2>1 DEF KeepsFiles
<1>9. s \in writers => Begun(s) /\ MayWrite(s)
  BY DEF IInv, Life, Begun, SessionFits, MayWrite
<1>10. ASSUME NEW id \in Ids, NEW t \in files'[id] \cap Streams
       PROVE  Begun(t)' /\ IdOf(t)' = id
  BY <1>1, <1>8, <1>9 DEF IInv, FileInv
<1>11. ASSUME NEW t \in Streams, failures' = 0, Alone(t)', Begun(t)',
              MayWrite(t)' \/ t \in files'[IdOf(t)']
       PROVE  /\ owners'[IdOf(t)'] = t
              /\ session'[t].finalizer # "done" \/ session'[t].step \in {"writer", "late", "lateFiles"}
  <2>1. failures = 0
    BY <1>11 DEF Becomes, IInv, TypeOK
  <2>2. Begun(t) /\ IdOf(t)' = IdOf(t) /\ IdOf(t) \in Ids
    BY <1>1, <1>11
  <2>3. Alone(t)
    BY <1>1, <1>11, <2>2 DEF Alone
  <2>4. MayWrite(t)' => MayWrite(t)
    <3>1. CASE t = s
      BY <3>1, BecomesThat DEF IInv, MayWrite, Onward
    <3>2. CASE t # s
      BY <3>2, BecomesThat DEF IInv, MayWrite
    <3> QED BY <3>1, <3>2
  <2>5. t \in files'[IdOf(t)] => t \in files[IdOf(t)] \/ MayWrite(t)
    BY <1>8, <1>9, <2>2
  <2>6. /\ owners[IdOf(t)] = t
        /\ session[t].finalizer # "done" \/ session[t].step \in {"writer", "late", "lateFiles"}
    BY <1>11, <2>1, <2>2, <2>3, <2>4, <2>5 DEF IInv, FileInv
  <2>7. owners'[IdOf(t)] = t
    BY <1>2, <1>11, <2>2, <2>6
  <2>8. session'[t].finalizer # "done" \/ session'[t].step \in {"writer", "late", "lateFiles"}
    BY <1>11, <2>6, BecomesThat DEF IInv, Onward
  <2> QED BY <2>2, <2>7, <2>8
<1>12. FileInv'
  BY <1>10, <1>11 DEF FileInv
<1> QED BY <1>3, <1>4, <1>7, <1>12

-----------------------------------------------------------------------------
(* The steps of the manager. *)

\* A step keeps the invariant and the files of every stream that is being watched.
WatchedKept ==
    \A id \in Ids : \A s \in files[id] \ files'[id] :
        s \in Streams /\ session[s].step = "up" /\ CanSessionAdopt(s) => Head(turns[id]).by = s
Safe == IInv' /\ WatchedKept

\* A step of one stream that deletes nothing is safe.
LEMMA StepIsSafe ==
    ASSUME IInv,
           NEW s \in Streams, NEW a, NEW x, NEW f, Becomes(s, a, x, f), FitsAfter(s, a, x, f),
           Onward(s, a, x), KeepsOwners(s, x), KeepsFiles(s), KeepsTurns(s, x)
    PROVE  Safe
<1>1. TypeOK /\ (\A t \in Streams : Life(t)) /\ TurnInv
  BY DEF IInv
<1>2. (\A t \in Streams : Life(t))'
  BY <1>1, LivesOn
<1>3. turns' \in [Ids -> Seq(Turns)] /\ TurnInv'
  BY <1>1, TurnsKept
<1>4. owners' \in [Ids -> Owners] /\ files' \in [Ids -> SUBSET Owners] /\ OwnerInv' /\ FileInv'
  BY ArtifactsKept
<1>5. /\ active' \in [Streams -> ActiveStreams] /\ session' \in [Streams -> Sessions]
      /\ finalization' \in [Streams -> Finalizations]
      /\ tuners' \subseteq Streams /\ writers' \subseteq Streams
  BY <1>1, BecomesThat
<1>6. streams' \in [Ids -> Owners] /\ failures' \in Nat
  BY DEF Becomes
<1>7. TypeOK'
  BY <1>3, <1>4, <1>5, <1>6 DEF TypeOK
<1>8. \A id \in Ids : files[id] \subseteq files'[id]
  <2>1. files \in [Ids -> SUBSET Owners] /\ IdOf(s) \in Ids
    BY <1>1 DEF TypeOK, IdOf, ActiveStreams
  <2> QED BY <2>1 DEF KeepsFiles
<1>9. WatchedKept
  BY <1>8 DEF WatchedKept
<1> QED BY <1>2, <1>3, <1>4, <1>7, <1>9 DEF Safe, IInv

\* A step that changes what the manager knows of one stream, and nothing of its session.
LEMMA ManagerStep ==
    ASSUME IInv, NEW s \in Streams, NEW a \in ActiveStreams,
           active' = [active EXCEPT ![s] = a],
           UNCHANGED <<session, finalization, artifacts, world>>,
           ActiveFits(a, session[s]), Begun(s) => a.id = IdOf(s),
           streams' \in [Ids -> Owners],
           \A id \in Ids : \A t \in Streams \ {s} : streams[id] = t => streams'[id] = t,
           a.state # "none" /\ a.finalize # "done" => streams'[a.id] = s,
           failures' \in Nat, failures' >= failures
    PROVE  Safe
<1> DEFINE x == session[s]
           f == finalization[s]
<1>1. /\ x \in Sessions /\ f \in Finalizations
      /\ session' = [session EXCEPT ![s] = x] /\ finalization' = [finalization EXCEPT ![s] = f]
      /\ tuners' = tuners /\ writers' = writers /\ owners' = owners /\ turns' = turns /\ files' = files
  BY DEF IInv, TypeOK, artifacts, world
<1>2. Life(s)
  BY DEF IInv
<1>3. Becomes(s, a, x, f)
  BY <1>1 DEF Becomes
<1>4. FitsAfter(s, a, x, f)
  BY <1>1, <1>2 DEF FitsAfter, Life
<1>5. Onward(s, a, x)
  BY <1>1, <1>2 DEF Onward, Begun, MayWrite, Life, SessionFits
<1>6. KeepsOwners(s, x) /\ KeepsFiles(s) /\ KeepsTurns(s, x)
  BY <1>1 DEF KeepsOwners, KeepsFiles, KeepsTurns
<1> QED BY <1>3, <1>4, <1>5, <1>6, StepIsSafe

\* A stop, or the rejection of a start, begins to finalize a stream once and keeps its id.
Moves(a, b) ==
    /\ b \in ActiveStreams /\ b.id = a.id /\ b.step = a.step
    /\ \/ b.finalize = a.finalize /\ b.state = a.state
       \/ a.finalize = "none" /\ a.state = "starting" /\ b.finalize = "turn" /\ b.state = "stopping"

\* stopActive begins to finalize a stream that has its id.
LEMMA StoppedMoves ==
    ASSUME TypeOK, NEW s \in Streams, Life(s), NEW a \in ActiveStreams, active[s].state # "none",
           a.finalize = active[s].finalize, a.state = active[s].state
    PROVE  Moves(a, Stopped(s, a))
<1>1. a.finalize = "none" => a.state = "starting" /\ streams[IdOf(s)] = s
  BY DEF Life, ActiveFits, ActiveStreams
<1>2. [a EXCEPT !.finalize = "turn", !.state = "stopping",
                !.settled = IF @ = "no" THEN "rejected" ELSE @] \in ActiveStreams
  BY DEF ActiveStreams
<1> QED BY <1>1, <1>2 DEF Moves, Stopped, ActiveStreams

\* rejectStart stops a start that was not answered.
LEMMA RejectedMoves ==
    ASSUME TypeOK, NEW s \in Streams, Life(s), NEW a \in ActiveStreams,
           a.finalize = active[s].finalize, a.state = active[s].state
    PROVE  Moves(a, Rejected(s, a))
<1>1. CASE ~CanSettleStart(s)
  BY <1>1 DEF Moves, Rejected
<1>2. CASE CanSettleStart(s)
  <2> DEFINE b == [a EXCEPT !.settled = "rejected"]
  <2>1. /\ b \in ActiveStreams /\ b.finalize = a.finalize /\ b.state = a.state
        /\ b.id = a.id /\ b.step = a.step
    BY DEF ActiveStreams
  <2>2. active[s].state # "none"
    BY <1>2 DEF CanSettleStart
  <2> HIDE DEF b
  <2>3. Moves(b, Stopped(s, b))
    BY <2>1, <2>2, StoppedMoves
  <2>4. Rejected(s, a) = Stopped(s, b)
    BY <1>2 DEF Rejected, b
  <2> QED BY <2>1, <2>3, <2>4 DEF Moves
<1> QED BY <1>1, <1>2

\* What every step of stream s may rely on.
LEMMA Known ==
    ASSUME IInv, NEW s \in Streams
    PROVE  /\ TypeOK /\ Life(s) /\ active[s] \in ActiveStreams /\ session[s] \in Sessions
           /\ finalization[s] \in Finalizations /\ IdOf(s) \in Ids /\ Nobody \notin Streams
           /\ ActiveFits(active[s], session[s]) /\ SessionFits(session[s])
BY StreamsAssumption DEF IInv, TypeOK, ActiveStreams, IdOf, Life

\* captureSnapshot, the reading of the directory and its deadline: a start without an id.
LEMMA SnapshotSafe ==
    ASSUME IInv, NEW s \in Streams, AskSnapshot(s) \/ ReadDirectory(s) \/ SnapshotDeadline(s)
    PROVE  Safe
<1>1. PICK a \in ActiveStreams :
          /\ active' = [active EXCEPT ![s] = a]
          /\ a.id = active[s].id /\ a.state = active[s].state /\ a.finalize = active[s].finalize
          /\ a.step \in {"listing", "listed", "over"}
  <2>1. CASE AskSnapshot(s)
    <3> DEFINE a == [active[s] EXCEPT !.step = "listing"]
    <3>1. active' = [active EXCEPT ![s] = a]
      BY <2>1 DEF AskSnapshot
    <3>2. /\ a \in ActiveStreams /\ a.step \in {"listing", "listed", "over"}
          /\ a.id = active[s].id /\ a.state = active[s].state /\ a.finalize = active[s].finalize
      BY Known DEF ActiveStreams
    <3> HIDE DEF a
    <3> QED BY <3>1, <3>2
  <2>2. CASE ReadDirectory(s)
    <3> DEFINE a == [active[s] EXCEPT !.step = "listed"]
    <3>1. active' = [active EXCEPT ![s] = a]
      BY <2>2 DEF ReadDirectory
    <3>2. /\ a \in ActiveStreams /\ a.step \in {"listing", "listed", "over"}
          /\ a.id = active[s].id /\ a.state = active[s].state /\ a.finalize = active[s].finalize
      BY Known DEF ActiveStreams
    <3> HIDE DEF a
    <3> QED BY <3>1, <3>2
  <2>3. CASE SnapshotDeadline(s)
    <3> DEFINE a == [active[s] EXCEPT !.step = "over", !.settled = "rejected"]
    <3>1. active' = [active EXCEPT ![s] = a]
      BY <2>3, Known DEF SnapshotDeadline, TypeOK, ActiveStreams
    <3>2. /\ a \in ActiveStreams /\ a.step \in {"listing", "listed", "over"}
          /\ a.id = active[s].id /\ a.state = active[s].state /\ a.finalize = active[s].finalize
      BY Known DEF ActiveStreams
    <3> HIDE DEF a
    <3> QED BY <3>1, <3>2
  <2> QED BY <2>1, <2>2, <2>3
<1>2. active[s].step \in {"new", "listing", "listed"} /\ active[s].state = "none"
  BY Known DEF AskSnapshot, ReadDirectory, SnapshotDeadline, ActiveFits
<1>3. UNCHANGED <<streams, session, finalization, artifacts, world, failures>>
  BY DEF AskSnapshot, ReadDirectory, SnapshotDeadline
<1>4. ActiveFits(a, session[s])
  BY <1>1, <1>2, Known DEF ActiveFits
<1>5. streams' \in [Ids -> Owners] /\ failures' \in Nat /\ failures' >= failures
  BY <1>3, Known DEF TypeOK
<1> QED BY <1>1, <1>2, <1>3, <1>4, <1>5, ManagerStep DEF IdOf

\* startInternal takes an id that nobody has.
LEMMA ReserveIdSafe ==
    ASSUME IInv, NEW s \in Streams, ReserveId(s)
    PROVE  Safe
<1>1. PICK id \in Ids :
          /\ streams[id] = Nobody /\ streams' = [streams EXCEPT ![id] = s]
          /\ active' = [active EXCEPT ![s].step = "turn", ![s].id = id, ![s].state = "starting"]
  BY DEF ReserveId, IsFirstFree, Unavailable
<1> DEFINE a == [active[s] EXCEPT !.step = "turn", !.id = id, !.state = "starting"]
<1>2. active' = [active EXCEPT ![s] = a]
  BY <1>1, Known DEF TypeOK, ActiveStreams
<1>3. a \in ActiveStreams /\ a.id = id /\ a.step = "turn" /\ a.state = "starting"
      /\ a.finalize = active[s].finalize
  BY Known DEF ActiveStreams
<1> HIDE DEF a
<1>4. active[s].step = "listed" /\ active[s].state = "none" /\ session[s].step = "none"
      /\ active[s].finalize = "none"
  BY Known DEF ReserveId, ActiveFits
<1>5. ActiveFits(a, session[s])
  BY <1>3, <1>4, Known DEF ActiveFits, Starting
<1>6. UNCHANGED <<session, finalization, artifacts, world, failures>>
  BY DEF ReserveId
<1>7. /\ streams' \in [Ids -> Owners] /\ streams'[id] = s
      /\ \A i \in Ids : \A t \in Streams \ {s} : streams[i] = t => streams'[i] = t
  BY <1>1, Known DEF TypeOK, Owners
<1>8. failures' \in Nat /\ failures' >= failures
  BY <1>6, Known DEF TypeOK
<1> QED BY <1>2, <1>3, <1>4, <1>5, <1>6, <1>7, <1>8, ManagerStep DEF Begun

\* The timeout of a start, and stop and stopAll.
LEMMA StopSafe ==
    ASSUME IInv, NEW s \in Streams, StartTimeout(s) \/ Stop(s)
    PROVE  Safe
<1>1. PICK a \in ActiveStreams : active' = [active EXCEPT ![s] = a] /\ Moves(active[s], a)
  <2>1. CASE StartTimeout(s)
    <3>1. active' = [active EXCEPT ![s] = Rejected(s, active[s])]
      BY <2>1 DEF StartTimeout
    <3>2. Moves(active[s], Rejected(s, active[s]))
      BY Known, RejectedMoves
    <3> QED BY <3>1, <3>2 DEF Moves
  <2>2. CASE Stop(s)
    <3>1. active' = [active EXCEPT ![s] = Stopped(s, active[s])] /\ active[s].state # "none"
      BY <2>2 DEF Stop
    <3>2. Moves(active[s], Stopped(s, active[s]))
      BY <3>1, Known, StoppedMoves
    <3> QED BY <3>1, <3>2 DEF Moves
  <2> QED BY <2>1, <2>2
<1>2. UNCHANGED <<streams, session, finalization, artifacts, world, failures>>
  BY DEF StartTimeout, Stop
<1>3. ActiveFits(a, session[s])
  BY <1>1, Known DEF ActiveFits, Moves
<1>4. a.state # "none" /\ a.finalize # "done" => streams[a.id] = s
  BY <1>1, Known DEF Moves, Life, IdOf
<1>5. streams' \in [Ids -> Owners] /\ failures' \in Nat /\ failures' >= failures
  BY <1>2, Known DEF TypeOK
<1> QED BY <1>1, <1>2, <1>3, <1>4, <1>5, ManagerStep DEF Moves, IdOf

\* The turn of a start comes, or stream.start throws.
LEMMA StartGoesOnSafe ==
    ASSUME IInv, NEW s \in Streams, StartTurn(s) \/ StartThrows(s)
    PROVE  Safe
<1>1. UNCHANGED <<streams, session, finalization, artifacts, world, failures>>
  BY DEF StartTurn, StartThrows
<1>2. streams' \in [Ids -> Owners] /\ failures' \in Nat /\ failures' >= failures
  BY <1>1, Known DEF TypeOK
<1>3. CASE StartTurn(s)
  <2> DEFINE a == [active[s] EXCEPT !.step = IF CanSettleStart(s) THEN "recheck" ELSE "over"]
  <2>1. active' = [active EXCEPT ![s] = a]
    BY <1>3 DEF StartTurn
  <2>2. /\ a \in ActiveStreams /\ a.step \in {"recheck", "over"}
        /\ a.id = active[s].id /\ a.state = active[s].state /\ a.finalize = active[s].finalize
    BY Known DEF ActiveStreams
  <2> HIDE DEF a
  <2>3. active[s].step = "turn"
    BY <1>3 DEF StartTurn
  <2>4. ActiveFits(a, session[s])
    BY <2>2, <2>3, Known DEF ActiveFits, Starting
  <2>5. a.state # "none" /\ a.finalize # "done" => streams[a.id] = s
    BY <2>2, Known DEF Life, IdOf
  <2> QED BY <1>1, <1>2, <2>1, <2>2, <2>4, <2>5, ManagerStep DEF IdOf
<1>4. CASE StartThrows(s)
  <2> DEFINE b == [active[s] EXCEPT !.step = "over"]
             a == Rejected(s, b)
  <2>1. active' = [active EXCEPT ![s] = a]
    BY <1>4 DEF StartThrows
  <2>2. /\ b \in ActiveStreams /\ b.step = "over"
        /\ b.id = active[s].id /\ b.state = active[s].state /\ b.finalize = active[s].finalize
    BY Known DEF ActiveStreams
  <2> HIDE DEF b
  <2>3. Moves(b, a)
    BY <2>2, Known, RejectedMoves
  <2> HIDE DEF a
  <2>4. active[s].step = "start" /\ session[s].step = "failed"
    BY <1>4 DEF StartThrows
  <2>5. ActiveFits(a, session[s])
    BY <2>2, <2>3, <2>4, Known DEF ActiveFits, Moves, Starting
  <2>6. a.state # "none" /\ a.finalize # "done" => streams[a.id] = s
    BY <2>2, <2>3, Known DEF Life, IdOf, Moves
  <2>7. a \in ActiveStreams /\ a.id = IdOf(s)
    BY <2>2, <2>3 DEF Moves, IdOf
  <2> QED BY <1>1, <1>2, <2>1, <2>5, <2>6, <2>7, ManagerStep
<1> QED BY <1>3, <1>4

\* finalizeActive ends, and the id is free again.
LEMMA FinalizeEndsSafe ==
    ASSUME IInv, NEW s \in Streams, FinalizeEnds(s)
    PROVE  Safe
<1> DEFINE a == [active[s] EXCEPT !.finalize = "done"]
<1>1. active' = [active EXCEPT ![s] = a]
  BY DEF FinalizeEnds
<1>2. /\ a \in ActiveStreams /\ a.step = active[s].step /\ a.finalize = "done"
      /\ a.id = active[s].id /\ a.state = active[s].state
  BY Known DEF ActiveStreams
<1> HIDE DEF a
<1>3. active[s].finalize = "resources" /\ streams' = [streams EXCEPT ![IdOf(s)] = Nobody]
  BY DEF FinalizeEnds
<1>4. streams[IdOf(s)] = s
  BY <1>3, Known DEF Life, ActiveFits
<1>5. ActiveFits(a, session[s])
  BY <1>2, <1>3, Known DEF ActiveFits
<1>6. UNCHANGED <<session, finalization, artifacts, world, failures>>
  BY DEF FinalizeEnds
<1>7. /\ streams' \in [Ids -> Owners]
      /\ \A id \in Ids : \A t \in Streams \ {s} : streams[id] = t => streams'[id] = t
  BY <1>3, <1>4, Known DEF TypeOK, Owners
<1>8. failures' \in Nat /\ failures' >= failures
  BY <1>6, Known DEF TypeOK
<1> QED BY <1>1, <1>2, <1>5, <1>6, <1>7, <1>8, ManagerStep DEF IdOf

\* recheckManagedIdReservation gives the start up, or gives it another id.
LEMMA RecheckedSafe ==
    ASSUME IInv, NEW s \in Streams, Recheck(s), session' = session, owners' = owners
    PROVE  Safe
<1>1. active[s].step = "recheck" /\ session[s].step = "none"
  BY Known DEF Recheck, ActiveFits
<1>2. UNCHANGED <<session, finalization, artifacts, world>>
  BY DEF Recheck, artifacts
<1>3. ~Begun(s)
  BY <1>1 DEF Begun
<1>4. CASE streams' = streams /\ failures' = failures /\ active' = [active EXCEPT ![s].step = "over"]
  <2> DEFINE a == [active[s] EXCEPT !.step = "over"]
  <2>1. active' = [active EXCEPT ![s] = a]
    BY <1>4
  <2>2. /\ a \in ActiveStreams /\ a.step = "over"
        /\ a.id = active[s].id /\ a.state = active[s].state /\ a.finalize = active[s].finalize
    BY Known DEF ActiveStreams
  <2> HIDE DEF a
  <2>3. ActiveFits(a, session[s])
    BY <1>1, <2>2, Known DEF ActiveFits, Starting
  <2>4. a.state # "none" /\ a.finalize # "done" => streams'[a.id] = s
    BY <1>4, <2>2, Known DEF Life, IdOf
  <2>5. streams' \in [Ids -> Owners] /\ failures' \in Nat /\ failures' >= failures
    BY <1>4, Known DEF TypeOK
  <2> QED BY <1>2, <1>3, <1>4, <2>1, <2>2, <2>3, <2>4, <2>5, ManagerStep
<1>5. ASSUME NEW id \in Ids, CanSettleStart(s), streams[id] = Nobody, failures' = failures,
             streams' = [streams EXCEPT ![IdOf(s)] = Nobody, ![id] = s],
             active' = [active EXCEPT ![s].id = id]
      PROVE  Safe
  <2> DEFINE a == [active[s] EXCEPT !.id = id]
  <2>1. active' = [active EXCEPT ![s] = a]
    BY <1>5
  <2>2. /\ a \in ActiveStreams /\ a.step = active[s].step
        /\ a.id = id /\ a.state = active[s].state /\ a.finalize = active[s].finalize
    BY Known DEF ActiveStreams
  <2> HIDE DEF a
  <2>3. ActiveFits(a, session[s])
    BY <2>2, Known DEF ActiveFits
  <2>4. streams[IdOf(s)] = s /\ failures' \in Nat /\ failures' >= failures
    BY <1>5, Known DEF CanSettleStart, TypeOK
  <2>5. /\ streams' \in [Ids -> Owners] /\ streams'[id] = s
        /\ \A i \in Ids : \A t \in Streams \ {s} : streams[i] = t => streams'[i] = t
    BY <1>5, <2>4, Known DEF TypeOK, Owners
  <2> QED BY <1>2, <1>3, <2>1, <2>2, <2>3, <2>4, <2>5, ManagerStep
<1>6. ASSUME streams' = streams, failures' = failures + 1,
             active' = [active EXCEPT ![s] = Rejected(s, [active[s] EXCEPT !.step = "over"])]
      PROVE  Safe
  <2> DEFINE b == [active[s] EXCEPT !.step = "over"]
             a == Rejected(s, b)
  <2>1. active' = [active EXCEPT ![s] = a]
    BY <1>6
  <2>2. /\ b \in ActiveStreams /\ b.step = "over"
        /\ b.id = active[s].id /\ b.state = active[s].state /\ b.finalize = active[s].finalize
    BY Known DEF ActiveStreams
  <2> HIDE DEF b
  <2>3. Moves(b, a)
    BY <2>2, Known, RejectedMoves
  <2> HIDE DEF a
  <2>4. ActiveFits(a, session[s])
    BY <1>1, <2>2, <2>3, Known DEF ActiveFits, Moves, Starting
  <2>5. a.state # "none" /\ a.finalize # "done" => streams'[a.id] = s
    BY <1>6, <2>2, <2>3, Known DEF Life, IdOf, Moves
  <2>6. streams' \in [Ids -> Owners] /\ failures' \in Nat /\ failures' >= failures
    BY <1>6, Known DEF TypeOK
  <2>7. a \in ActiveStreams
    BY <2>3 DEF Moves
  <2> QED BY <1>2, <1>3, <1>6, <2>1, <2>4, <2>5, <2>6, <2>7, ManagerStep
<1>7. ASSUME session' = [session EXCEPT ![s].step = "directory"] PROVE FALSE
  BY <1>1, <1>7, Known DEF TypeOK, Sessions
<1> QED BY <1>4, <1>5, <1>6, <1>7 DEF Recheck, Fail, IsFirstFree, Unavailable

-----------------------------------------------------------------------------
(* The steps of a session that delete nothing. *)

\* A start that fails stops its session, and disposeSession begins once.
LEMMA BrokenIs ==
    ASSUME NEW x \in Sessions
    PROVE  /\ Broken(x) \in Sessions /\ Broken(x).step = "failed" /\ Broken(x).stopped
           /\ Broken(x).finalizer = IF x.finalizer = "none" THEN "stopping" ELSE x.finalizer
           /\ Broken(x).tuner = x.tuner /\ Broken(x).writer = x.writer
BY DEF Broken, Sessions

\* stopSession stops a session that there is, once.
StoppedSession(s) ==
    IF session[s].step = "none" THEN session[s]
    ELSE [session[s] EXCEPT !.stopped = TRUE,
                            !.finalizer = IF @ = "none" THEN "stopping" ELSE @]

\* What stop makes of a session.
LEMMA SessionStopsIs ==
    ASSUME TypeOK, NEW s \in Streams, SessionStops(s)
    PROVE  /\ session' = [session EXCEPT ![s] = StoppedSession(s)]
           /\ StoppedSession(s) \in Sessions /\ StoppedSession(s).step = session[s].step
           /\ StoppedSession(s).stopped <=> (session[s].stopped \/ session[s].step # "none")
           /\ StoppedSession(s).finalizer =
                 IF session[s].step # "none" /\ session[s].finalizer = "none" THEN "stopping"
                 ELSE session[s].finalizer
           /\ StoppedSession(s).tuner = session[s].tuner
           /\ StoppedSession(s).writer = session[s].writer
<1>1. session[s] \in Sessions /\ session \in [Streams -> Sessions]
  BY DEF TypeOK
<1>2. session' = [session EXCEPT ![s] = StoppedSession(s)]
  <2>1. CASE session[s].step = "none"
    BY <1>1, <2>1 DEF SessionStops, StoppedSession
  <2>2. CASE session[s].step # "none"
    BY <1>1, <2>2 DEF SessionStops, StoppedSession, Sessions
  <2> QED BY <2>1, <2>2
<1> QED BY <1>1, <1>2 DEF StoppedSession, Sessions

\* A step of the session of s changes the state of no other stream.
LEMMA SessionBecomes ==
    ASSUME IInv, NEW s \in Streams,
           NEW a \in ActiveStreams, NEW x \in Sessions, NEW f \in Finalizations,
           active' = [active EXCEPT ![s] = a], session' = [session EXCEPT ![s] = x],
           finalization' = [finalization EXCEPT ![s] = f], streams' = streams,
           tuners' \in {tuners, tuners \cup {s}, tuners \ {s}},
           writers' \in {writers, writers \cup {s}, writers \ {s}},
           failures' \in {failures, failures + 1}
    PROVE  Becomes(s, a, x, f) /\ (failures' # failures => failures' > 0)
<1>1. failures \in Nat /\ streams \in [Ids -> Owners]
  BY Known DEF TypeOK
<1>2. /\ tuners' \subseteq tuners \cup {s} /\ tuners \subseteq tuners' \cup {s}
      /\ writers' \subseteq writers \cup {s} /\ writers \subseteq writers' \cup {s}
  OBVIOUS
<1>3. failures' \in Nat /\ failures' >= failures /\ (failures' # failures => failures' > 0)
  BY <1>1
<1> QED BY <1>1, <1>2, <1>3 DEF Becomes

\* checkStreamDir: the files left from others are to be deleted, or the start fails.
LEMMA DirectoryReadySafe ==
    ASSUME IInv, NEW s \in Streams, DirectoryReady(s)
    PROVE  Safe
<1> DEFINE a == active[s]
           f == finalization[s]
<1>1. /\ session[s].step = "directory" /\ session[s].step # "none" /\ a.step = "start"
      /\ a \in ActiveStreams /\ f \in Finalizations /\ session[s] \in Sessions
  BY Known DEF DirectoryReady, ActiveFits, Starting
<1>2. /\ active' = [active EXCEPT ![s] = a] /\ finalization' = [finalization EXCEPT ![s] = f]
      /\ streams' = streams /\ files' = files /\ tuners' = tuners /\ writers' = writers
  BY Known DEF DirectoryReady, TypeOK, manager, world
<1>3. CASE session' = [session EXCEPT ![s].step = "prepare"] /\ Enqueue(s, "prepare")
           /\ owners' = owners /\ failures' = failures
  <2> DEFINE x == [session[s] EXCEPT !.step = "prepare"]
  <2>1. /\ x \in Sessions /\ x.step = "prepare" /\ x.stopped = session[s].stopped
        /\ x.finalizer = session[s].finalizer /\ x.tuner = session[s].tuner
        /\ x.writer = session[s].writer
    BY <1>1 DEF Sessions
  <2>2. session' = [session EXCEPT ![s] = x]
    BY <1>3
  <2> HIDE DEF x, a, f
  <2>3. Becomes(s, a, x, f)
    BY <1>1, <1>2, <1>3, <2>1, <2>2, SessionBecomes
  <2>4. FitsAfter(s, a, x, f)
    BY <1>1, <1>2, <2>1, Known DEF a, f, FitsAfter, Life, ActiveFits, SessionFits, IdOf
  <2>5. Onward(s, a, x)
    BY <1>1, <1>2, <2>1, Known DEF a, Onward, Begun, MayWrite, Life, IdOf
  <2>6. KeepsOwners(s, x) /\ KeepsFiles(s) /\ KeepsTurns(s, x)
    BY <1>1, <1>2, <1>3, <2>1 DEF KeepsOwners, KeepsFiles, KeepsTurns, Asks, Begun
  <2> QED BY <2>3, <2>4, <2>5, <2>6, StepIsSafe
<1>4. CASE session' = [session EXCEPT ![s] = Broken(session[s])] /\ turns' = turns
           /\ owners' = Release(s, owners) /\ failures' = failures + 1
  <2> DEFINE x == Broken(session[s])
  <2>1. /\ x \in Sessions /\ x.step = "failed" /\ x.stopped
        /\ x.finalizer = IF session[s].finalizer = "none" THEN "stopping" ELSE session[s].finalizer
        /\ x.tuner = session[s].tuner /\ x.writer = session[s].writer
    BY <1>1, BrokenIs
  <2>2. session' = [session EXCEPT ![s] = x]
    BY <1>4
  <2> HIDE DEF x, a, f
  <2>3. failures' # failures
    BY <1>4, Known DEF TypeOK
  <2>4. Becomes(s, a, x, f) /\ failures' > 0
    BY <1>1, <1>2, <1>4, <2>1, <2>2, <2>3, SessionBecomes
  <2>5. FitsAfter(s, a, x, f)
    BY <1>1, <1>2, <2>1, Known DEF a, f, FitsAfter, Life, ActiveFits, SessionFits, IdOf, Starting
  <2>6. Onward(s, a, x)
    BY <1>1, <1>2, <2>1, <2>4, Known DEF a, Onward, Begun, MayWrite, Life, IdOf
  <2>7. KeepsOwners(s, x) /\ KeepsFiles(s) /\ KeepsTurns(s, x)
    BY <1>2, <1>4, <2>1, <2>4 DEF KeepsOwners, KeepsFiles, KeepsTurns
  <2> QED BY <2>4, <2>5, <2>6, <2>7, StepIsSafe
<1> QED BY <1>3, <1>4 DEF DirectoryReady, Fail

\* setMirakurunStream adopts the connection, or the start fails and the connection, which
\* may have ended by then, is closed with the session.
LEMMA TunerOpensSafe ==
    ASSUME IInv, NEW s \in Streams, TunerOpens(s)
    PROVE  Safe
<1>1. /\ session[s].step = "tuner" /\ active[s].step = "start" /\ active[s].state # "none"
      /\ session[s].finalizer # "none" <=> session[s].stopped
  BY Known DEF TunerOpens, ActiveFits, SessionFits, Starting
<1>2. /\ streams' = streams /\ files' = files /\ writers' = writers
      /\ owners' = owners /\ turns' = turns
  BY DEF TunerOpens, artifacts
<1>3. CASE /\ CanSessionAdopt(s) /\ tuners' = tuners \cup {s}
           /\ session' = [session EXCEPT ![s].step = "writer", ![s].tuner = TRUE]
           /\ finalization' = [finalization EXCEPT ![s].pending = TRUE]
           /\ active' = active /\ failures' = failures
  <2> DEFINE a == active[s]
             x == [session[s] EXCEPT !.step = "writer", !.tuner = TRUE]
             f == [finalization[s] EXCEPT !.pending = TRUE]
  <2>1. /\ x \in Sessions /\ x.step = "writer" /\ x.stopped = session[s].stopped
        /\ x.finalizer = session[s].finalizer /\ x.tuner /\ x.writer = session[s].writer
    BY Known DEF Sessions
  <2>2. f \in Finalizations /\ f.pending /\ f.attempted = finalization[s].attempted
    BY Known DEF Finalizations
  <2>3. /\ session' = [session EXCEPT ![s] = x] /\ finalization' = [finalization EXCEPT ![s] = f]
        /\ active' = [active EXCEPT ![s] = a] /\ a \in ActiveStreams
    BY <1>3, Known DEF TypeOK, Sessions
  <2> HIDE DEF a, x, f
  <2>4. Becomes(s, a, x, f)
    BY <1>2, <1>3, <2>1, <2>2, <2>3, SessionBecomes
  <2>5. FitsAfter(s, a, x, f)
    BY <1>1, <1>2, <1>3, <2>1, <2>2, Known
    DEF a, FitsAfter, Life, ActiveFits, SessionFits, IdOf, CanSessionAdopt
  <2>6. Onward(s, a, x)
    BY <1>1, <1>2, <1>3, <2>1, Known DEF a, Onward, Begun, MayWrite, Life, IdOf, CanSessionAdopt
  <2>7. KeepsOwners(s, x) /\ KeepsFiles(s) /\ KeepsTurns(s, x)
    BY <1>2 DEF KeepsOwners, KeepsFiles, KeepsTurns
  <2> QED BY <2>4, <2>5, <2>6, <2>7, StepIsSafe
<1>4. CASE /\ session' = [session EXCEPT ![s] = Broken(session[s])] /\ finalization' = finalization
           /\ active' = active /\ tuners' = tuners /\ failures' \in {failures, failures + 1}
  <2> DEFINE a == active[s]
             x == Broken(session[s])
             f == finalization[s]
  <2>1. /\ x \in Sessions /\ x.step = "failed" /\ x.stopped
        /\ x.finalizer = IF session[s].finalizer = "none" THEN "stopping" ELSE session[s].finalizer
        /\ x.tuner = session[s].tuner /\ x.writer = session[s].writer
    BY Known, BrokenIs
  <2>2. /\ session' = [session EXCEPT ![s] = x] /\ finalization' = [finalization EXCEPT ![s] = f]
        /\ active' = [active EXCEPT ![s] = a] /\ a \in ActiveStreams /\ f \in Finalizations
    BY <1>4, Known DEF TypeOK
  <2> HIDE DEF a, x, f
  <2>3. Becomes(s, a, x, f)
    BY <1>2, <1>4, <2>1, <2>2, SessionBecomes
  <2>4. FitsAfter(s, a, x, f)
    BY <1>1, <1>2, <1>4, <2>1, Known DEF a, f, FitsAfter, Life, ActiveFits, SessionFits, IdOf, Starting
  <2>5. Onward(s, a, x)
    BY <1>1, <1>2, <2>1, Known DEF a, Onward, Begun, MayWrite, Life, IdOf
  <2>6. KeepsOwners(s, x) /\ KeepsFiles(s) /\ KeepsTurns(s, x)
    BY <1>2 DEF KeepsOwners, KeepsFiles, KeepsTurns
  <2> QED BY <2>3, <2>4, <2>5, <2>6, StepIsSafe
<1>5. CASE /\ session' = [session EXCEPT ![s] = Broken([session[s] EXCEPT !.tuner = TRUE])]
           /\ active' = [active EXCEPT ![s] = Stopped(s, active[s])] /\ finalization' = finalization
           /\ CanSessionAdopt(s) /\ tuners' = tuners \cup {s} /\ failures' = failures + 1
  <2> DEFINE a == Stopped(s, active[s])
             y == [session[s] EXCEPT !.tuner = TRUE]
             x == Broken(y)
             f == finalization[s]
  <2>1. /\ y \in Sessions /\ y.finalizer = session[s].finalizer /\ y.tuner
        /\ y.writer = session[s].writer
    BY Known DEF Sessions
  <2> HIDE DEF y
  <2>2. /\ x \in Sessions /\ x.step = "failed" /\ x.stopped /\ x.tuner /\ x.writer = session[s].writer
        /\ x.finalizer = IF session[s].finalizer = "none" THEN "stopping" ELSE session[s].finalizer
    BY <2>1, BrokenIs
  <2>3. Moves(active[s], a)
    BY <1>1, Known, StoppedMoves
  <2>4. /\ session' = [session EXCEPT ![s] = x] /\ finalization' = [finalization EXCEPT ![s] = f]
        /\ active' = [active EXCEPT ![s] = a] /\ a \in ActiveStreams /\ f \in Finalizations
    BY <1>5, <2>3, Known DEF TypeOK, y, Moves
  <2> HIDE DEF a, x, f
  <2>5. Becomes(s, a, x, f)
    BY <1>2, <1>5, <2>2, <2>4, SessionBecomes
  <2>6. FitsAfter(s, a, x, f)
    <3>1. ActiveFits(a, x)
      BY <1>1, <2>2, <2>3, Known DEF Moves, ActiveFits, Starting
    <3>2. SessionFits(x)
      BY <1>1, <1>5, <2>2, Known DEF SessionFits, CanSessionAdopt
    <3>3. a.state # "none" /\ a.finalize # "done" => streams'[a.id] = s
      BY <1>2, <2>3, Known DEF Moves, Life, IdOf
    <3> QED BY <1>1, <1>2, <2>2, <3>1, <3>2, <3>3, Known DEF f, FitsAfter, Life, SessionFits
  <2>7. Onward(s, a, x)
    BY <1>1, <1>2, <2>2, <2>3, Known DEF Moves, Onward, Begun, MayWrite, Life, IdOf
  <2>8. KeepsOwners(s, x) /\ KeepsFiles(s) /\ KeepsTurns(s, x)
    BY <1>2 DEF KeepsOwners, KeepsFiles, KeepsTurns
  <2> QED BY <2>5, <2>6, <2>7, <2>8, StepIsSafe
<1> QED BY <1>3, <1>4, <1>5 DEF TunerOpens, Fail

\* createHlsWriter returns a process, which the session adopts unless it was stopped.
LEMMA WriterStartsSafe ==
    ASSUME IInv, NEW s \in Streams, WriterStarts(s)
    PROVE  Safe
<1>1. /\ session[s].step = "writer" /\ active[s].step = "start" /\ active[s].state # "none"
      /\ session[s].finalizer # "none" <=> session[s].stopped
  BY Known DEF WriterStarts, ActiveFits, SessionFits, Starting
<1>2. /\ streams' = streams /\ files' = files /\ writers' = writers \cup {s}
      /\ turns' = turns /\ tuners' = tuners /\ failures' = failures
  BY DEF WriterStarts
<1>3. CASE CanSessionAdopt(s)
  <2> DEFINE a == Returned(s, active[s])
             x == [session[s] EXCEPT !.step = "up", !.writer = TRUE]
             f == [finalization[s] EXCEPT !.pending = FALSE]
  <2>1. /\ x \in Sessions /\ x.step = "up" /\ x.stopped = session[s].stopped
        /\ x.finalizer = session[s].finalizer /\ x.tuner = session[s].tuner /\ x.writer
    BY Known DEF Sessions
  <2>2. f \in Finalizations /\ f.attempted = finalization[s].attempted
    BY Known DEF Finalizations
  <2>3. /\ a \in ActiveStreams /\ a.step = "over" /\ a.id = active[s].id
        /\ a.state = active[s].state /\ a.finalize = active[s].finalize
    BY Known DEF Returned, ActiveStreams
  <2>4. ~finalization[s].attempted /\ ~session[s].stopped
    BY <1>3, Known DEF Life, CanSessionAdopt
  <2>5. /\ session' = [session EXCEPT ![s] = x] /\ finalization' = [finalization EXCEPT ![s] = f]
        /\ active' = [active EXCEPT ![s] = a] /\ owners' = owners
    BY <1>3, <2>4, Known DEF WriterStarts, WriterStartCompleted, TypeOK, Sessions
  <2> HIDE DEF a, x, f
  <2>6. Becomes(s, a, x, f)
    BY <1>2, <2>1, <2>2, <2>3, <2>5, SessionBecomes
  <2>7. FitsAfter(s, a, x, f)
    BY <1>1, <1>2, <2>1, <2>2, <2>3, <2>4, Known
    DEF FitsAfter, Life, ActiveFits, SessionFits, IdOf, Starting
  <2>8. Onward(s, a, x)
    BY <1>1, <1>2, <2>1, <2>3, <2>4, Known DEF Onward, Begun, MayWrite, Life, IdOf, SessionFits
  <2>9. KeepsOwners(s, x) /\ KeepsFiles(s) /\ KeepsTurns(s, x)
    BY <1>2, <2>5 DEF KeepsOwners, KeepsFiles, KeepsTurns
  <2> QED BY <2>6, <2>7, <2>8, <2>9, StepIsSafe
<1>4. CASE ~CanSessionAdopt(s)
  <2> DEFINE a == active[s]
             x == [session[s] EXCEPT !.step = "late"]
             f == finalization[s]
  <2>1. /\ x \in Sessions /\ x.step = "late" /\ x.stopped = session[s].stopped
        /\ x.finalizer = session[s].finalizer /\ x.tuner = session[s].tuner
        /\ x.writer = session[s].writer
    BY Known DEF Sessions
  <2>2. session[s].stopped
    BY <1>4 DEF CanSessionAdopt
  <2>3. /\ session' = [session EXCEPT ![s] = x] /\ finalization' = [finalization EXCEPT ![s] = f]
        /\ active' = [active EXCEPT ![s] = a] /\ owners' = owners
        /\ a \in ActiveStreams /\ f \in Finalizations
    BY <1>4, Known DEF WriterStarts, TypeOK
  <2> HIDE DEF a, x, f
  <2>4. Becomes(s, a, x, f)
    BY <1>2, <2>1, <2>3, SessionBecomes
  <2>5. FitsAfter(s, a, x, f)
    BY <1>1, <1>2, <2>1, <2>2, Known DEF a, f, FitsAfter, Life, ActiveFits, SessionFits, IdOf
  <2>6. Onward(s, a, x)
    BY <1>1, <1>2, <2>1, Known DEF a, Onward, Begun, MayWrite, Life, IdOf
  <2>7. KeepsOwners(s, x) /\ KeepsFiles(s) /\ KeepsTurns(s, x)
    BY <1>2, <2>3 DEF KeepsOwners, KeepsFiles, KeepsTurns
  <2> QED BY <2>4, <2>5, <2>6, <2>7, StepIsSafe
<1> QED BY <1>3, <1>4

\* createHlsWriter fails: the start fails, and what waits for it is released.
LEMMA WriterFailsSafe ==
    ASSUME IInv, NEW s \in Streams, WriterFails(s)
    PROVE  Safe
<1> DEFINE a == active[s]
           x == Broken(session[s])
           f == [finalization[s] EXCEPT !.pending = FALSE]
<1>1. /\ session[s].step = "writer" /\ active[s].step = "start" /\ active[s].state # "none"
      /\ session[s].finalizer # "none" <=> session[s].stopped
  BY Known DEF WriterFails, ActiveFits, SessionFits, Starting
<1>2. /\ streams' = streams /\ files' = files /\ writers' = writers
      /\ turns' = turns /\ tuners' = tuners /\ failures' = failures + 1
      /\ owners' = owners \/ owners' = Release(s, owners)
  BY DEF WriterFails, WriterStartCompleted, manager, world, Fail
<1>3. failures' # failures
  BY <1>2, Known DEF TypeOK
<1>4. /\ x \in Sessions /\ x.step = "failed" /\ x.stopped
      /\ x.finalizer = IF session[s].finalizer = "none" THEN "stopping" ELSE session[s].finalizer
      /\ x.tuner = session[s].tuner /\ x.writer = session[s].writer
  BY Known, BrokenIs
<1>5. f \in Finalizations /\ f.attempted = finalization[s].attempted
  BY Known DEF Finalizations
<1>6. /\ session' = [session EXCEPT ![s] = x] /\ finalization' = [finalization EXCEPT ![s] = f]
      /\ active' = [active EXCEPT ![s] = a] /\ a \in ActiveStreams
  BY Known DEF WriterFails, WriterStartCompleted, manager, TypeOK
<1> HIDE DEF a, x, f
<1>7. Becomes(s, a, x, f) /\ failures' > 0
  BY <1>2, <1>3, <1>4, <1>5, <1>6, SessionBecomes
<1>8. FitsAfter(s, a, x, f)
  BY <1>1, <1>2, <1>4, <1>5, Known DEF a, FitsAfter, Life, ActiveFits, SessionFits, IdOf, Starting
<1>9. Onward(s, a, x)
  BY <1>1, <1>2, <1>4, <1>7, Known DEF a, Onward, Begun, MayWrite, Life, IdOf
<1>10. KeepsOwners(s, x) /\ KeepsFiles(s) /\ KeepsTurns(s, x)
  BY <1>2, <1>4, <1>7 DEF KeepsOwners, KeepsFiles, KeepsTurns
<1> QED BY <1>7, <1>8, <1>9, <1>10, StepIsSafe

\* A writer that comes too late is ended, and its files are to be deleted.
LEMMA LateWriterStopsSafe ==
    ASSUME IInv, NEW s \in Streams, LateWriterStops(s)
    PROVE  Safe
<1> DEFINE a == active[s]
           x == [session[s] EXCEPT !.step = "lateFiles"]
           f == finalization[s]
<1>1. session[s].step = "late" /\ active[s].step = "start" /\ session[s].stopped
  BY Known DEF LateWriterStops, ActiveFits, SessionFits, Starting
<1>2. /\ streams' = streams /\ files' = files /\ writers' = writers \ {s} /\ owners' = owners
      /\ tuners' = tuners /\ failures' = failures /\ Enqueue(s, "late")
  BY DEF LateWriterStops, manager
<1>3. /\ x \in Sessions /\ x.step = "lateFiles" /\ x.stopped = session[s].stopped
      /\ x.finalizer = session[s].finalizer /\ x.tuner = session[s].tuner
      /\ x.writer = session[s].writer
  BY Known DEF Sessions
<1>4. /\ session' = [session EXCEPT ![s] = x] /\ finalization' = [finalization EXCEPT ![s] = f]
      /\ active' = [active EXCEPT ![s] = a] /\ a \in ActiveStreams /\ f \in Finalizations
  BY Known DEF LateWriterStops, manager, TypeOK
<1> HIDE DEF a, x, f
<1>5. Becomes(s, a, x, f)
  BY <1>2, <1>3, <1>4, SessionBecomes
<1>6. FitsAfter(s, a, x, f)
  BY <1>1, <1>2, <1>3, Known DEF a, f, FitsAfter, Life, ActiveFits, SessionFits, IdOf, Starting
<1>7. Onward(s, a, x)
  BY <1>1, <1>2, <1>3, Known DEF a, Onward, Begun, MayWrite, Life, IdOf
<1>8. KeepsOwners(s, x) /\ KeepsFiles(s) /\ KeepsTurns(s, x)
  BY <1>1, <1>2, <1>3 DEF KeepsOwners, KeepsFiles, KeepsTurns, Asks, Begun
<1> QED BY <1>5, <1>6, <1>7, <1>8, StepIsSafe

\* A writer process writes a file with the id of its stream.
LEMMA WriterWritesSafe ==
    ASSUME IInv, NEW s \in Streams, WriterWrites(s)
    PROVE  Safe
<1> DEFINE a == active[s]
           x == session[s]
           f == finalization[s]
<1>1. /\ streams' = streams /\ owners' = owners /\ turns' = turns /\ writers' = writers
      /\ tuners' = tuners /\ failures' = failures /\ s \in writers
      /\ files' = [files EXCEPT ![IdOf(s)] = @ \cup {s}]
  BY DEF WriterWrites, manager, world
<1>2. /\ session' = [session EXCEPT ![s] = x] /\ finalization' = [finalization EXCEPT ![s] = f]
      /\ active' = [active EXCEPT ![s] = a]
      /\ a \in ActiveStreams /\ x \in Sessions /\ f \in Finalizations
  BY Known DEF WriterWrites, manager, TypeOK
<1>3. FitsAfter(s, a, x, f)
  BY <1>1, Known DEF FitsAfter, Life, IdOf
<1>4. Onward(s, a, x)
  BY <1>1, Known DEF Onward, Begun, MayWrite, IdOf
<1> HIDE DEF a, x, f
<1>5. Becomes(s, a, x, f)
  BY <1>1, <1>2, SessionBecomes
<1>6. KeepsOwners(s, x) /\ KeepsFiles(s) /\ KeepsTurns(s, x)
  BY <1>1 DEF KeepsOwners, KeepsFiles, KeepsTurns
<1> QED BY <1>3, <1>4, <1>5, <1>6, StepIsSafe

\* The stream of the tuner ends.
LEMMA TunerEndsSafe ==
    ASSUME IInv, NEW s \in Streams, TunerEnds(s)
    PROVE  Safe
<1> DEFINE a == active[s]
           x == [session[s] EXCEPT !.tuner = FALSE]
           f == finalization[s]
<1>1. /\ streams' = streams /\ owners' = owners /\ turns' = turns /\ writers' = writers
      /\ tuners' = tuners \ {s} /\ failures' = failures /\ files' = files
      /\ session[s].step \in {"writer", "up"}
  BY DEF TunerEnds, manager, artifacts
<1>2. /\ x \in Sessions /\ x.step = session[s].step /\ x.stopped = session[s].stopped
      /\ x.finalizer = session[s].finalizer /\ x.tuner = FALSE /\ x.writer = session[s].writer
  BY Known DEF Sessions
<1>3. /\ session' = [session EXCEPT ![s] = x] /\ finalization' = [finalization EXCEPT ![s] = f]
      /\ active' = [active EXCEPT ![s] = a] /\ a \in ActiveStreams /\ f \in Finalizations
  BY Known DEF TunerEnds, manager, TypeOK
<1> HIDE DEF a, x, f
<1>4. Becomes(s, a, x, f)
  BY <1>1, <1>2, <1>3, SessionBecomes
<1>5. FitsAfter(s, a, x, f)
  BY <1>1, <1>2, Known DEF a, f, FitsAfter, Life, ActiveFits, SessionFits, IdOf
<1>6. Onward(s, a, x)
  BY <1>1, <1>2, Known DEF a, Onward, Begun, MayWrite, Life, IdOf
<1>7. KeepsOwners(s, x) /\ KeepsFiles(s) /\ KeepsTurns(s, x)
  BY <1>1 DEF KeepsOwners, KeepsFiles, KeepsTurns
<1> QED BY <1>4, <1>5, <1>6, <1>7, StepIsSafe

\* The process ends by itself, and its exit stops the stream.
LEMMA ProcessExitsSafe ==
    ASSUME IInv, NEW s \in Streams, ProcessExits(s)
    PROVE  Safe
<1> DEFINE a == Stopped(s, active[s])
           x == session[s]
           f == finalization[s]
<1>1. /\ streams' = streams /\ owners' = owners /\ turns' = turns /\ writers' = writers \ {s}
      /\ tuners' = tuners /\ failures' = failures /\ files' = files
      /\ session[s].step = "up" /\ CanSessionAdopt(s)
  BY DEF ProcessExits, artifacts
<1>2. active[s].state # "none"
  BY <1>1, Known DEF ActiveFits
<1>3. Moves(active[s], a)
  BY <1>2, Known, StoppedMoves
<1>4. /\ session' = [session EXCEPT ![s] = x] /\ finalization' = [finalization EXCEPT ![s] = f]
      /\ active' = [active EXCEPT ![s] = a]
      /\ a \in ActiveStreams /\ x \in Sessions /\ f \in Finalizations
  BY <1>3, Known DEF ProcessExits, TypeOK, Moves
<1> HIDE DEF a
<1>5. FitsAfter(s, a, x, f)
  BY <1>1, <1>3, Known DEF FitsAfter, Life, ActiveFits, IdOf, Moves, Starting
<1>6. Onward(s, a, x)
  BY <1>1, <1>3, Known DEF Onward, Begun, MayWrite, IdOf, Moves
<1> HIDE DEF x, f
<1>7. Becomes(s, a, x, f)
  BY <1>1, <1>4, SessionBecomes
<1>8. KeepsOwners(s, x) /\ KeepsFiles(s) /\ KeepsTurns(s, x)
  BY <1>1 DEF KeepsOwners, KeepsFiles, KeepsTurns
<1> QED BY <1>5, <1>6, <1>7, <1>8, StepIsSafe

\* The timer stops a stream that nobody asked to keep.
LEMMA StopTimerSafe ==
    ASSUME IInv, NEW s \in Streams, StopTimer(s)
    PROVE  Safe
<1> DEFINE a == Stopped(s, active[s])
           x == StoppedSession(s)
           f == finalization[s]
<1>1. /\ streams' = streams /\ owners' = owners /\ turns' = turns /\ writers' = writers
      /\ tuners' = tuners /\ failures' = failures /\ files' = files
      /\ session[s].step = "up" /\ CanSessionAdopt(s)
  BY DEF StopTimer, artifacts, world
<1>2. active[s].state # "none" /\ session[s].finalizer = "none"
  BY <1>1, Known DEF ActiveFits, SessionFits, CanSessionAdopt
<1>3. Moves(active[s], a)
  BY <1>2, Known, StoppedMoves
<1>4. /\ session' = [session EXCEPT ![s] = x] /\ x \in Sessions /\ x.step = session[s].step
      /\ x.stopped /\ x.finalizer = "stopping"
      /\ x.tuner = session[s].tuner /\ x.writer = session[s].writer
  BY <1>1, <1>2, Known, SessionStopsIs DEF StopTimer
<1>5. /\ finalization' = [finalization EXCEPT ![s] = f] /\ active' = [active EXCEPT ![s] = a]
      /\ a \in ActiveStreams /\ f \in Finalizations
  BY <1>3, Known DEF StopTimer, TypeOK, Moves
<1> HIDE DEF a, x
<1>6. FitsAfter(s, a, x, f)
  <2>1. ActiveFits(a, x) /\ SessionFits(x)
    BY <1>1, <1>3, <1>4, Known DEF ActiveFits, SessionFits, Moves, Starting
  <2>2. a.state # "none" /\ a.finalize # "done" => streams'[a.id] = s
    BY <1>1, <1>3, Known DEF Moves, Life, IdOf
  <2> QED BY <1>1, <1>4, <2>1, <2>2, Known DEF FitsAfter, Life
<1>7. Onward(s, a, x)
  BY <1>1, <1>2, <1>3, <1>4, Known DEF Onward, Begun, MayWrite, IdOf, Moves
<1> HIDE DEF f
<1>8. Becomes(s, a, x, f)
  BY <1>1, <1>4, <1>5, SessionBecomes
<1>9. KeepsOwners(s, x) /\ KeepsFiles(s) /\ KeepsTurns(s, x)
  BY <1>1 DEF KeepsOwners, KeepsFiles, KeepsTurns
<1> QED BY <1>6, <1>7, <1>8, <1>9, StepIsSafe

\* disposeSession closes the tuner and the process, and its files are to be deleted.
LEMMA DisposeSafe ==
    ASSUME IInv, NEW s \in Streams, Dispose(s)
    PROVE  Safe
<1> DEFINE a == active[s]
           x == [session[s] EXCEPT !.finalizer = "files", !.tuner = FALSE, !.writer = FALSE]
           f == finalization[s]
<1>1. /\ streams' = streams /\ owners' = owners /\ failures' = failures /\ files' = files
      /\ session[s].finalizer = "stopping" /\ session[s].stopped /\ session[s].step # "none"
      /\ Enqueue(s, "dispose")
  BY Known DEF Dispose, manager, SessionFits
<1>2. /\ tuners' = IF session[s].tuner THEN tuners \ {s} ELSE tuners
      /\ writers' = IF session[s].writer THEN writers \ {s} ELSE writers
  BY DEF Dispose
<1>3. /\ x \in Sessions /\ x.step = session[s].step /\ x.stopped = session[s].stopped
      /\ x.finalizer = "files" /\ x.tuner = FALSE /\ x.writer = FALSE
  BY Known DEF Sessions
<1>4. /\ session' = [session EXCEPT ![s] = x] /\ finalization' = [finalization EXCEPT ![s] = f]
      /\ active' = [active EXCEPT ![s] = a] /\ a \in ActiveStreams /\ f \in Finalizations
  BY Known DEF Dispose, manager, TypeOK, Sessions
<1> HIDE DEF a, x, f
<1>5. Becomes(s, a, x, f)
  BY <1>1, <1>2, <1>3, <1>4, SessionBecomes
<1>6. s \notin tuners' /\ (s \in writers' => s \in writers /\ session[s].step = "late")
  BY <1>2, Known DEF Life
<1>7. FitsAfter(s, a, x, f)
  BY <1>1, <1>3, <1>6, Known DEF a, f, FitsAfter, Life, ActiveFits, SessionFits, IdOf
<1>8. Onward(s, a, x)
  BY <1>1, <1>3, <1>6, Known DEF a, Onward, Begun, MayWrite, Life, IdOf
<1>9. KeepsOwners(s, x) /\ KeepsFiles(s) /\ KeepsTurns(s, x)
  BY <1>1, <1>3 DEF KeepsOwners, KeepsFiles, KeepsTurns, Asks, Begun
<1> QED BY <1>5, <1>7, <1>8, <1>9, StepIsSafe

\* finalizeActive stops the session of the stream, when there is one.
LEMMA FinalizeTurnSafe ==
    ASSUME IInv, NEW s \in Streams, FinalizeTurn(s)
    PROVE  Safe
<1> DEFINE a == [active[s] EXCEPT !.finalize = "resources"]
           x == StoppedSession(s)
           f == finalization[s]
<1>1. /\ streams' = streams /\ owners' = owners /\ turns' = turns /\ writers' = writers
      /\ tuners' = tuners /\ failures' = failures /\ files' = files /\ active[s].finalize = "turn"
  BY DEF FinalizeTurn, artifacts, world
<1>2. /\ a \in ActiveStreams /\ a.finalize = "resources" /\ a.id = active[s].id
      /\ a.step = active[s].step /\ a.state = active[s].state
  BY Known DEF ActiveStreams
<1>3. /\ session' = [session EXCEPT ![s] = x] /\ x \in Sessions /\ x.step = session[s].step
      /\ x.stopped <=> (session[s].stopped \/ session[s].step # "none")
      /\ x.finalizer = IF session[s].step # "none" /\ session[s].finalizer = "none"
                       THEN "stopping" ELSE session[s].finalizer
      /\ x.tuner = session[s].tuner /\ x.writer = session[s].writer
  BY Known, SessionStopsIs DEF FinalizeTurn
<1>4. /\ finalization' = [finalization EXCEPT ![s] = f] /\ active' = [active EXCEPT ![s] = a]
      /\ f \in Finalizations
  BY Known DEF FinalizeTurn, TypeOK
<1>5. CASE session[s].step = "none"
  <2>1. x = session[s]
    BY <1>5 DEF StoppedSession
  <2> HIDE DEF a, x
  <2>2. FitsAfter(s, a, x, f)
    BY <1>1, <1>2, <1>5, <2>1, Known DEF FitsAfter, Life, ActiveFits, IdOf
  <2>3. Onward(s, a, x)
    BY <1>1, <1>2, <1>5, <2>1, Known DEF Onward, Begun, MayWrite, IdOf
  <2> HIDE DEF f
  <2>4. Becomes(s, a, x, f)
    BY <1>1, <1>2, <1>3, <1>4, SessionBecomes
  <2>5. KeepsOwners(s, x) /\ KeepsFiles(s) /\ KeepsTurns(s, x)
    BY <1>1 DEF KeepsOwners, KeepsFiles, KeepsTurns
  <2> QED BY <2>2, <2>3, <2>4, <2>5, StepIsSafe
<1>6. CASE session[s].step # "none"
  <2> HIDE DEF a, x
  <2>1. FitsAfter(s, a, x, f)
    <3>1. ActiveFits(a, x) /\ SessionFits(x)
      BY <1>1, <1>2, <1>3, <1>6, Known DEF ActiveFits, SessionFits, Sessions
    <3>2. a.state # "none" /\ a.finalize # "done" => streams'[a.id] = s
      BY <1>1, <1>2, Known DEF Life, IdOf
    <3> QED BY <1>1, <1>3, <3>1, <3>2, Known DEF FitsAfter, Life
  <2>2. Onward(s, a, x)
    BY <1>1, <1>2, <1>3, <1>6, Known DEF Onward, Begun, MayWrite, IdOf
  <2> HIDE DEF f
  <2>3. Becomes(s, a, x, f)
    BY <1>1, <1>2, <1>3, <1>4, SessionBecomes
  <2>4. KeepsOwners(s, x) /\ KeepsFiles(s) /\ KeepsTurns(s, x)
    BY <1>1 DEF KeepsOwners, KeepsFiles, KeepsTurns
  <2> QED BY <2>1, <2>2, <2>3, <2>4, StepIsSafe
<1> QED BY <1>5, <1>6

-----------------------------------------------------------------------------
(* A session begins; the clean-up of the files. *)

\* stream.start of a start that was not stopped: nobody else that goes on has the id, so it
\* takes the files with it over.
LEMMA SessionBeginsSafe ==
    ASSUME IInv, NEW s \in Streams, CanSettleStart(s), files[IdOf(s)] = {},
           active[s].step = "recheck",
           active' = [active EXCEPT ![s].step = "start"],
           session' = [session EXCEPT ![s].step = "directory"],
           owners' = [owners EXCEPT ![IdOf(s)] = s],
           UNCHANGED <<streams, finalization, turns, files, world, failures>>
    PROVE  Safe
<1> DEFINE a == [active[s] EXCEPT !.step = "start"]
           x == [session[s] EXCEPT !.step = "directory"]
           f == finalization[s]
<1>1. /\ session[s].step = "none" /\ ~session[s].stopped /\ session[s].finalizer = "none"
      /\ ~session[s].tuner /\ ~session[s].writer
      /\ streams[IdOf(s)] = s /\ active[s].state = "starting"
  BY Known DEF ActiveFits, SessionFits, CanSettleStart
<1>2. /\ a \in ActiveStreams /\ a.step = "start" /\ a.id = active[s].id
      /\ a.state = active[s].state /\ a.finalize = active[s].finalize
  BY Known DEF ActiveStreams
<1>3. /\ x \in Sessions /\ x.step = "directory" /\ ~x.stopped /\ x.finalizer = "none"
      /\ ~x.tuner /\ ~x.writer
  BY <1>1, Known DEF Sessions
<1>4. /\ active' = [active EXCEPT ![s] = a] /\ session' = [session EXCEPT ![s] = x]
      /\ finalization' = [finalization EXCEPT ![s] = f] /\ f \in Finalizations
  BY Known DEF TypeOK
<1>5. /\ streams' = streams /\ turns' = turns /\ files' = files /\ failures' = failures
      /\ tuners' = tuners /\ writers' = writers
  BY DEF world
<1> HIDE DEF a, x
<1>6. FitsAfter(s, a, x, f)
  BY <1>1, <1>2, <1>3, <1>5, Known DEF FitsAfter, Life, ActiveFits, SessionFits, IdOf
<1> HIDE DEF f
<1>7. Becomes(s, a, x, f)
  BY <1>2, <1>3, <1>4, <1>5, SessionBecomes
<1>8. (\A t \in Streams : Life(t))'
  BY <1>6, <1>7, LivesOn DEF IInv
<1>9. /\ active' \in [Streams -> ActiveStreams] /\ session' \in [Streams -> Sessions]
      /\ finalization' \in [Streams -> Finalizations] /\ active'[s] = a /\ session'[s] = x
      /\ \A t \in Streams \ {s} : active'[t] = active[t] /\ session'[t] = session[t]
  BY <1>7, Known, BecomesThat
<1>10. ~Begun(s) /\ Begun(s)' /\ IdOf(s)' = IdOf(s)
  BY <1>1, <1>2, <1>3, <1>9 DEF Begun, IdOf
<1>11. \A t \in Streams \ {s} : (Begun(t)' <=> Begun(t)) /\ IdOf(t)' = IdOf(t)
  BY <1>9 DEF Begun, IdOf
<1>12. owners' \in [Ids -> Owners] /\ owners'[IdOf(s)] = s
       /\ \A id \in Ids : id # IdOf(s) => owners'[id] = owners[id]
  BY Known DEF TypeOK, Owners
<1>13. TypeOK'
  BY <1>5, <1>9, <1>12, Known DEF TypeOK
<1>14. TurnInv'
  <2>1. ASSUME NEW id \in Ids PROVE turns[id] \in Seq(FittingTurns(id)') /\ InTurn(turns[id])
    <3>1. ASSUME NEW turn \in Turns, TurnFits(id, turn) PROVE TurnFits(id, turn)'
      <4>1. turn.by \in Streams \ {s}
        BY <1>10, <3>1, BegunBy DEF IInv, Turns
      <4> QED BY <1>9, <1>11, <3>1, <4>1 DEF TurnFits
    <3>2. FittingTurns(id) \subseteq FittingTurns(id)'
      BY <3>1 DEF FittingTurns
    <3>3. turns[id] \in Seq(FittingTurns(id)) /\ InTurn(turns[id])
      BY DEF IInv, TurnInv
    <3>4. turns[id] \in Seq(FittingTurns(id)')
      BY ONLY <3>2, <3>3, SeqMonotonic
    <3> QED BY <3>3, <3>4
  <2> QED BY <1>5, <2>1 DEF TurnInv
<1>15. ASSUME NEW t \in Streams \ {s}, Begun(t), ~session[t].stopped PROVE IdOf(t) # IdOf(s)
  <2>1. streams[IdOf(t)] = t
    BY <1>15, Known DEF Life, ActiveFits, SessionFits, Begun, ActiveStreams
  <2> QED BY <1>1, <2>1
<1>16. OwnerInv'
  <2>1. ASSUME NEW t \in Streams, Begun(t)', ~session'[t].stopped PROVE owners'[IdOf(t)'] = t
    <3>1. CASE t = s
      BY <1>10, <1>12, <3>1
    <3>2. CASE t # s
      <4>1. Begun(t) /\ ~session[t].stopped /\ IdOf(t)' = IdOf(t) /\ IdOf(t) \in Ids
        BY <1>9, <1>11, <2>1, <3>2, Known
      <4>2. owners[IdOf(t)] = t
        BY <4>1 DEF IInv, OwnerInv
      <4> QED BY <1>12, <1>15, <3>2, <4>1, <4>2
    <3> QED BY <3>1, <3>2
  <2>2. ASSUME NEW t \in Streams, Watched(t)', turns'[IdOf(t)'] # <<>>,
               Head(turns'[IdOf(t)']).at = "deletes"
        PROVE  Head(turns'[IdOf(t)']).by = t
    <3>1. t # s
      BY <1>3, <1>9, <2>2 DEF Watched
    <3>2. Watched(t) /\ IdOf(t)' = IdOf(t)
      BY <1>9, <1>11, <2>2, <3>1 DEF Watched
    <3> QED BY <1>5, <2>2, <3>2 DEF IInv, OwnerInv
  <2> QED BY <2>1, <2>2 DEF OwnerInv
<1>17. FileInv'
  <2>1. ASSUME NEW id \in Ids, NEW t \in files'[id] \cap Streams PROVE Begun(t)' /\ IdOf(t)' = id
    <3>1. Begun(t) /\ IdOf(t) = id
      BY <1>5, <2>1 DEF IInv, FileInv
    <3>2. t # s
      BY <1>10, <3>1
    <3> QED BY <1>11, <3>1, <3>2
  <2>2. ASSUME NEW t \in Streams, failures' = 0, Alone(t)', Begun(t)',
               MayWrite(t)' \/ t \in files'[IdOf(t)']
        PROVE  /\ owners'[IdOf(t)'] = t
               /\ session'[t].finalizer # "done" \/ session'[t].step \in {"writer", "late", "lateFiles"}
    <3>1. CASE t = s
      BY <1>3, <1>9, <1>10, <1>12, <3>1
    <3>2. CASE t # s
      <4>1. Begun(t) /\ IdOf(t)' = IdOf(t) /\ IdOf(t) \in Ids
        BY <1>11, <2>2, <3>2, Known
      <4>2. IdOf(t) # IdOf(s)
        BY <1>10, <1>11, <2>2, <3>2, <4>1 DEF Alone
      <4>3. Alone(t)
        BY <1>10, <1>11, <2>2, <3>2 DEF Alone
      <4>4. MayWrite(t) \/ t \in files[IdOf(t)]
        BY <1>5, <1>9, <2>2, <3>2, <4>1 DEF MayWrite
      <4>5. /\ owners[IdOf(t)] = t
            /\ session[t].finalizer # "done" \/ session[t].step \in {"writer", "late", "lateFiles"}
        BY <1>5, <2>2, <4>1, <4>3, <4>4 DEF IInv, FileInv
      <4> QED BY <1>9, <1>12, <3>2, <4>1, <4>2, <4>5
    <3> QED BY <3>1, <3>2
  <2> QED BY <2>1, <2>2 DEF FileInv
<1>18. WatchedKept
  BY <1>5 DEF WatchedKept
<1> QED BY <1>8, <1>13, <1>14, <1>16, <1>17, <1>18 DEF Safe, IInv

\* recheckManagedIdReservation and, when it lets the start go on, stream.start.
LEMMA RecheckSafe ==
    ASSUME IInv, NEW s \in Streams, Recheck(s)
    PROVE  Safe
<1>1. CASE session' = session /\ owners' = owners
  BY <1>1, RecheckedSafe
<1>2. CASE ~(session' = session /\ owners' = owners)
  BY <1>2, SessionBeginsSafe DEF Recheck
<1> QED BY <1>1, <1>2

\* runHlsArtifactCleanupTurn begins to delete for the one whose the files are.
LEMMA TurnBeginsSafe ==
    ASSUME IInv, NEW id \in Ids, TurnBegins(id)
    PROVE  Safe
<1> DEFINE q == turns[id]
           r == [q EXCEPT ![1].at = "deletes"]
<1>1. /\ q # <<>> /\ owners[id] = Head(q).by /\ turns' = [turns EXCEPT ![id] = r]
      /\ UNCHANGED <<manager, session, finalization, owners, files, world, failures>>
  BY DEF TurnBegins
<1>2. /\ active' = active /\ streams' = streams /\ session' = session /\ owners' = owners
      /\ finalization' = finalization /\ files' = files /\ failures' = failures
      /\ tuners' = tuners /\ writers' = writers
  BY <1>1 DEF manager, world
<1>3. q \in Seq(Turns) /\ q \in Seq(FittingTurns(id)) /\ InTurn(q)
  BY DEF IInv, TypeOK, TurnInv
<1>4. 1 \in 1 .. Len(q) /\ Head(q) = q[1]
  BY ONLY <1>1, <1>3, EmptySeq, LenProperties
<1>5. q[1] \in FittingTurns(id) /\ Head(q) \in Turns
  BY ONLY <1>1, <1>3, <1>4, ElementOfSeq, HeadTailProperties
<1> DEFINE first == [q[1] EXCEPT !.at = "deletes"]
<1>6. first \in FittingTurns(id) /\ first \in Turns
  BY <1>5 DEF FittingTurns, Turns, TurnFits
<1>7. r = [q EXCEPT ![1] = first]
  OBVIOUS
<1> HIDE DEF first
<1>8. [q EXCEPT ![1] = first] \in Seq(FittingTurns(id)) /\ [q EXCEPT ![1] = first] \in Seq(Turns)
  BY ONLY <1>3, <1>4, <1>6, ExceptSeq
<1>9. r \in Seq(FittingTurns(id)) /\ r \in Seq(Turns)
  BY <1>7, <1>8
<1>10. InTurn(r) /\ r # <<>> /\ Head(r) = [Head(q) EXCEPT !.at = "deletes"]
  BY <1>1, <1>3, BeginInTurn
<1> HIDE DEF r, q
<1>11. /\ turns' \in [Ids -> Seq(Turns)] /\ turns'[id] = r
       /\ \A i \in Ids : i # id => turns'[i] = turns[i]
  BY <1>1, <1>9 DEF IInv, TypeOK
<1>12. TypeOK'
  BY <1>2, <1>11 DEF IInv, TypeOK
<1>13. (\A t \in Streams : Life(t))'
  BY <1>2 DEF IInv, Life, IdOf
<1>14. TurnInv'
  <2>1. ASSUME NEW i \in Ids PROVE turns'[i] \in Seq(FittingTurns(i)') /\ InTurn(turns'[i])
    <3>1. FittingTurns(i)' = FittingTurns(i)
      BY <1>2 DEF FittingTurns, TurnFits, IdOf
    <3>2. turns[i] \in Seq(FittingTurns(i)) /\ InTurn(turns[i])
      BY DEF IInv, TurnInv
    <3>3. CASE i = id
      BY <1>9, <1>10, <1>11, <3>1, <3>3
    <3>4. CASE i # id
      BY <1>11, <3>1, <3>2, <3>4
    <3> QED BY <3>3, <3>4
  <2> QED BY <2>1 DEF TurnInv
<1>15. OwnerInv'
  <2>1. \A t \in Streams : Begun(t)' /\ ~session'[t].stopped => owners'[IdOf(t)'] = t
    BY <1>2 DEF IInv, OwnerInv, Begun, IdOf
  <2>2. ASSUME NEW t \in Streams, Watched(t)', turns'[IdOf(t)'] # <<>>,
               Head(turns'[IdOf(t)']).at = "deletes"
        PROVE  Head(turns'[IdOf(t)']).by = t
    <3>1. Watched(t) /\ IdOf(t)' = IdOf(t) /\ IdOf(t) \in Ids
      BY <1>2, <2>2, Known DEF Watched, IdOf
    <3>2. CASE IdOf(t) = id
      <4>1. owners[id] = t
        BY <3>1, <3>2 DEF IInv, OwnerInv, Watched, Begun
      <4>2. Head(r).by = Head(q).by
        BY <1>5, <1>10 DEF Turns
      <4> QED BY <1>1, <1>11, <3>1, <3>2, <4>1, <4>2
    <3>3. CASE IdOf(t) # id
      BY <1>11, <2>2, <3>1, <3>3 DEF IInv, OwnerInv
    <3> QED BY <3>2, <3>3
  <2> QED BY <2>1, <2>2 DEF OwnerInv
<1>16. FileInv'
  BY <1>2 DEF IInv, FileInv, Begun, IdOf, Alone, MayWrite
<1>17. WatchedKept
  BY <1>2 DEF WatchedKept
<1> QED BY <1>12, <1>13, <1>14, <1>15, <1>16, <1>17 DEF Safe, IInv

\* A turn of the clean-up ends and its stream goes on with session x: the files are deleted,
\* left alone, or a deletion failed.
TurnEndsFor(id, s, for, x, f) ==
    /\ turns[id] # <<>> /\ s = Head(turns[id]).by /\ for = Head(turns[id]).for
    /\ turns' = [turns EXCEPT ![id] = Tail(turns[id])]
    /\ x \in Sessions /\ session' = [session EXCEPT ![s] = x]
    /\ f \in Finalizations /\ finalization' = [finalization EXCEPT ![s] = f]
    /\ UNCHANGED <<manager, world>>
    /\ \/ owners[id] # s /\ UNCHANGED <<files, failures>>
       \/ /\ Head(turns[id]).at = "deletes"
          /\ files' = [files EXCEPT ![id] = {}] /\ failures' = failures
       \/ failures' = failures + 1 /\ files' = files
    /\ owners' = owners \/ (x.stopped /\ owners' = Release(s, owners))
    /\ x.step # "none" /\ (session[s].stopped => x.stopped)
    /\ session[s].step = "prepare" => x.step = "prepare" \/ for = "prepare"
    /\ session[s].step = "lateFiles" => x.step = "lateFiles" \/ for = "late"
    /\ session[s].finalizer = "files" => x.finalizer = "files" \/ for = "dispose"

\* Whose turn it was, and what it means for the files.
LEMMA TurnEndsKnown ==
    ASSUME IInv, NEW id \in Ids, NEW s, NEW for, NEW x, NEW f, TurnEndsFor(id, s, for, x, f)
    PROVE  /\ s \in Streams /\ IdOf(s) = id /\ Begun(s)
           /\ for = "prepare" => session[s].step = "prepare"
           /\ for = "late" => session[s].step = "lateFiles"
           /\ for = "dispose" => session[s].finalizer = "files"
           /\ failures' \in Nat /\ failures' >= failures
           /\ failures' = 0 /\ Alone(s) => s \notin files'[id]
<1>1. turns[id] # <<>> /\ turns[id] \in Seq(FittingTurns(id))
  BY DEF IInv, TurnInv, TurnEndsFor
<1>2. Head(turns[id]) \in FittingTurns(id)
  BY ONLY <1>1, HeadTailProperties
<1>3. Head(turns[id]) \in Turns /\ TurnFits(id, Head(turns[id]))
  BY <1>2 DEF FittingTurns
<1>4. /\ s \in Streams /\ IdOf(s) = id
      /\ for = "prepare" => session[s].step = "prepare"
      /\ for = "late" => session[s].step = "lateFiles"
      /\ for = "dispose" => session[s].finalizer = "files"
  BY <1>3 DEF TurnEndsFor, TurnFits, Turns
<1>5. Begun(s)
  BY <1>3, <1>4, BegunBy DEF IInv, TurnEndsFor
<1>6. failures \in Nat /\ files \in [Ids -> SUBSET Owners]
  BY DEF IInv, TypeOK
<1>7. failures' \in Nat /\ failures' >= failures /\ (failures' = 0 => failures = 0)
  BY <1>6 DEF TurnEndsFor
<1>8. ASSUME failures' = 0, Alone(s), s \in files'[id] PROVE FALSE
  <2>1. owners[id] # s /\ s \in files[id]
    BY <1>6, <1>8 DEF TurnEndsFor
  <2> QED BY <1>4, <1>5, <1>7, <1>8, <2>1 DEF IInv, FileInv
<1> QED BY <1>4, <1>5, <1>7, <1>8

\* The turns that are left still fit, and the next one has not begun to delete.
LEMMA LeftTurnsFit ==
    ASSUME IInv, NEW id \in Ids, NEW s, NEW for, NEW x, NEW f, TurnEndsFor(id, s, for, x, f)
    PROVE  /\ turns' \in [Ids -> Seq(Turns)] /\ TurnInv'
           /\ turns'[id] # <<>> => Head(turns'[id]).at = "waits"
           /\ \A i \in Ids : i # id => turns'[i] = turns[i]
<1>1. /\ s \in Streams /\ IdOf(s) = id /\ Begun(s)
      /\ turns[id] # <<>> /\ s = Head(turns[id]).by /\ for = Head(turns[id]).for
  <2>1. s \in Streams /\ IdOf(s) = id /\ Begun(s)
    BY TurnEndsKnown
  <2> QED BY <2>1 DEF TurnEndsFor
<1>2. /\ turns \in [Ids -> Seq(Turns)] /\ session'[s] = x /\ active' = active
      /\ \A t \in Streams : t # s => session'[t] = session[t]
  BY <1>1 DEF IInv, TypeOK, TurnEndsFor, manager
<1>3. ASSUME NEW i \in Ids, NEW turn \in Turns, TurnFits(i, turn), ~(turn.by = s /\ turn.for = for)
      PROVE  TurnFits(i, turn)'
  <2>1. turn.by \in Streams
    BY DEF Turns
  <2>2. CASE turn.by = s
    BY <1>1, <1>2, <1>3, <2>1, <2>2 DEF TurnFits, IdOf, TurnEndsFor
  <2>3. CASE turn.by # s
    BY <1>2, <1>3, <2>1, <2>3 DEF TurnFits, IdOf
  <2> QED BY <2>2, <2>3
<1>4. ASSUME NEW i \in Ids, i # id PROVE turns[i] \in Seq(FittingTurns(i)')
  <2>1. FittingTurns(i) \subseteq FittingTurns(i)'
    BY <1>1, <1>3, <1>4 DEF FittingTurns, TurnFits
  <2>2. turns[i] \in Seq(FittingTurns(i))
    BY DEF IInv, TurnInv
  <2> QED BY ONLY <2>1, <2>2, SeqMonotonic
<1> DEFINE q == turns[id]
           r == Tail(q)
<1>5. q # <<>> /\ q \in Seq(Turns) /\ q \in Seq(FittingTurns(id)) /\ InTurn(q)
  BY <1>1, <1>2 DEF IInv, TurnInv
<1>6. /\ InTurn(r) /\ (r # <<>> => Head(r).at = "waits")
      /\ \A i \in 1 .. Len(r) : ~(r[i].by = s /\ r[i].for = for)
  BY <1>1, <1>5, LeaveInTurn
<1>7. /\ r \in Seq(Turns) /\ r \in Seq(FittingTurns(id)) /\ Len(q) \in Nat
      /\ Len(r) = Len(q) - 1 /\ \A i \in 1 .. Len(r) : r[i] = q[i + 1]
      /\ r = SubSeq(q, 2, Len(q))
  BY ONLY <1>5, HeadTailProperties, LenProperties, TailIsSubSeq
<1>8. ASSUME NEW i \in 2 .. Len(q) PROVE q[i] \in FittingTurns(id)'
  <2>1. i - 1 \in 1 .. Len(r) /\ r[i - 1] = q[i]
    BY <1>7
  <2>2. r[i - 1] \in FittingTurns(id)
    BY ONLY <1>7, <2>1, ElementOfSeq
  <2>3. ~(q[i].by = s /\ q[i].for = for)
    BY <1>6, <2>1
  <2> QED BY <1>3, <2>1, <2>2, <2>3 DEF FittingTurns
<1>9. SubSeq(q, 2, Len(q)) \in Seq(FittingTurns(id)')
  <2>1. \A i \in 2 .. Len(q) : q[i] \in FittingTurns(id)'
    BY <1>8
  <2>2. 2 \in Int /\ Len(q) \in Int
    BY <1>7
  <2> QED BY ONLY <2>1, <2>2, SubSeqProperties
<1>10. r \in Seq(FittingTurns(id)')
  BY ONLY <1>7, <1>9
<1> HIDE DEF r
<1>11. /\ turns' \in [Ids -> Seq(Turns)] /\ turns'[id] = r
       /\ \A i \in Ids : i # id => turns'[i] = turns[i]
  BY <1>2, <1>7 DEF TurnEndsFor, r
<1> HIDE DEF q
<1>12. ASSUME NEW i \in Ids PROVE turns'[i] \in Seq(FittingTurns(i)') /\ InTurn(turns'[i])
  <2>1. CASE i = id
    BY <1>6, <1>10, <1>11, <2>1
  <2>2. CASE i # id
    BY <1>4, <1>11, <2>2 DEF IInv, TurnInv
  <2> QED BY <2>1, <2>2
<1>13. TurnInv'
  BY <1>12 DEF TurnInv
<1> QED BY <1>6, <1>11, <1>13

\* The end of a turn is safe when the stream that goes on, if it may still write or has files,
\* keeps them and will delete them.
LEMMA EndedTurnSafe ==
    ASSUME IInv, NEW id \in Ids, NEW s, NEW for, NEW x, NEW f, TurnEndsFor(id, s, for, x, f),
           FitsAfter(s, active[s], x, f),
           failures' = 0 /\ Alone(s) /\ MayWrite(s)' =>
               /\ owners'[id] = s
               /\ x.finalizer # "done" \/ x.step \in {"writer", "late", "lateFiles"}
    PROVE  Safe
<1>1. /\ s \in Streams /\ IdOf(s) = id /\ Begun(s) /\ failures' \in Nat /\ failures' >= failures
      /\ failures' = 0 /\ Alone(s) => s \notin files'[id]
  BY TurnEndsKnown
<1>2. TypeOK /\ (\A t \in Streams : Life(t)) /\ active[s] \in ActiveStreams
  BY <1>1, Known DEF IInv
<1>3. /\ active' = active /\ streams' = streams /\ tuners' = tuners /\ writers' = writers
      /\ owners' = owners \/ (x.stopped /\ owners' = Release(s, owners))
      /\ x.step # "none" /\ (session[s].stopped => x.stopped)
  BY DEF TurnEndsFor, manager, world
<1>4. Becomes(s, active[s], x, f)
  <2>1. /\ session' = [session EXCEPT ![s] = x] /\ finalization' = [finalization EXCEPT ![s] = f]
        /\ x \in Sessions /\ f \in Finalizations
    BY DEF TurnEndsFor
  <2>2. active' = [active EXCEPT ![s] = active[s]] /\ streams' \in [Ids -> Owners]
    BY <1>1, <1>2, <1>3 DEF TypeOK
  <2> QED BY <1>1, <1>2, <1>3, <2>1, <2>2 DEF Becomes
<1>5. (\A t \in Streams : Life(t))'
  BY <1>1, <1>2, <1>4, LivesOn
<1>6. /\ active' \in [Streams -> ActiveStreams] /\ session' \in [Streams -> Sessions]
      /\ finalization' \in [Streams -> Finalizations] /\ session'[s] = x
      /\ \A t \in Streams : t # s => session'[t] = session[t]
      /\ tuners' \subseteq Streams /\ writers' \subseteq Streams
  BY <1>1, <1>2, <1>4, BecomesThat
<1>7. \A t \in Streams : (Begun(t)' <=> Begun(t)) /\ IdOf(t)' = IdOf(t) /\ IdOf(t) \in Ids
  BY <1>1, <1>2, <1>3, <1>6 DEF Begun, IdOf, TypeOK, ActiveStreams
<1>8. \A i \in Ids : owners'[i] = owners[i] \/ (i = id /\ owners[i] = s /\ x.stopped)
  <2>1. owners \in [Ids -> Owners]
    BY <1>2 DEF TypeOK
  <2> QED BY <1>1, <1>3, <2>1 DEF Release
<1>9. owners' \in [Ids -> Owners]
  <2>1. owners \in [Ids -> Owners] /\ Nobody \in Owners
    BY <1>2 DEF TypeOK, Owners
  <2> QED BY <1>1, <1>3, <2>1 DEF Release
<1>10. files' \in [Ids -> SUBSET Owners] /\ \A i \in Ids : files'[i] \subseteq files[i]
  <2>1. files \in [Ids -> SUBSET Owners]
    BY <1>2 DEF TypeOK
  <2>2. files' = files \/ files' = [files EXCEPT ![id] = {}]
    BY DEF TurnEndsFor
  <2> QED BY <2>1, <2>2
<1>11. \A i \in Ids : i # id => files'[i] = files[i]
  <2>1. files' = files \/ files' = [files EXCEPT ![id] = {}]
    BY DEF TurnEndsFor
  <2> QED BY <1>2, <2>1 DEF TypeOK
<1>12. /\ turns' \in [Ids -> Seq(Turns)] /\ TurnInv'
       /\ turns'[id] # <<>> => Head(turns'[id]).at = "waits"
       /\ \A i \in Ids : i # id => turns'[i] = turns[i]
  BY LeftTurnsFit
<1>13. TypeOK'
  BY <1>1, <1>2, <1>3, <1>6, <1>9, <1>10, <1>12 DEF TypeOK
<1>14. OwnerInv'
  <2>1. ASSUME NEW t \in Streams, Begun(t)', ~session'[t].stopped PROVE owners'[IdOf(t)'] = t
    <3>1. Begun(t) /\ ~session[t].stopped /\ (t = s => ~x.stopped)
      BY <1>3, <1>6, <1>7, <2>1
    <3>2. owners[IdOf(t)] = t
      BY <3>1 DEF IInv, OwnerInv
    <3> QED BY <1>7, <1>8, <3>1, <3>2
  <2>2. ASSUME NEW t \in Streams, Watched(t)', turns'[IdOf(t)'] # <<>>,
               Head(turns'[IdOf(t)']).at = "deletes"
        PROVE  Head(turns'[IdOf(t)']).by = t
    <3>1. IdOf(t)' = IdOf(t) /\ IdOf(t) \in Ids /\ IdOf(t) # id
      BY <1>7, <1>12, <2>2
    <3>2. t # s
      BY <1>1, <3>1
    <3>3. Watched(t)
      BY <1>6, <2>2, <3>2 DEF Watched
    <3> QED BY <1>12, <2>2, <3>1, <3>3 DEF IInv, OwnerInv
  <2> QED BY <2>1, <2>2 DEF OwnerInv
<1>15. FileInv'
  <2>1. ASSUME NEW i \in Ids, NEW t \in files'[i] \cap Streams PROVE Begun(t)' /\ IdOf(t)' = i
    BY <1>7, <1>10, <2>1 DEF IInv, FileInv
  <2>2. ASSUME NEW t \in Streams, failures' = 0, Alone(t)', Begun(t)',
               MayWrite(t)' \/ t \in files'[IdOf(t)']
        PROVE  /\ owners'[IdOf(t)'] = t
               /\ session'[t].finalizer # "done" \/ session'[t].step \in {"writer", "late", "lateFiles"}
    <3>1. Alone(t) /\ Begun(t) /\ IdOf(t)' = IdOf(t) /\ IdOf(t) \in Ids
      BY <1>7, <2>2 DEF Alone
    <3>2. CASE t = s
      BY <1>1, <1>6, <2>2, <3>1, <3>2
    <3>3. CASE t # s
      <4>1. failures = 0
        BY <1>1, <1>2, <2>2 DEF TypeOK
      <4>2. MayWrite(t) \/ t \in files[IdOf(t)]
        BY <1>3, <1>6, <1>10, <2>2, <3>1, <3>3 DEF MayWrite
      <4>3. /\ owners[IdOf(t)] = t
            /\ session[t].finalizer # "done" \/ session[t].step \in {"writer", "late", "lateFiles"}
        BY <3>1, <4>1, <4>2 DEF IInv, FileInv
      <4> QED BY <1>6, <1>8, <3>1, <3>3, <4>3
    <3> QED BY <3>2, <3>3
  <2> QED BY <2>1, <2>2 DEF FileInv
<1>16. WatchedKept
  <2>1. ASSUME NEW i \in Ids, NEW t \in files[i] \ files'[i], t \in Streams,
               session[t].step = "up", CanSessionAdopt(t)
        PROVE  Head(turns[i]).by = t
    <3>1. i = id /\ turns[id] # <<>> /\ Head(turns[id]).at = "deletes"
      BY <1>11, <2>1 DEF TurnEndsFor
    <3>2. IdOf(t) = id /\ Watched(t)
      BY <2>1, <3>1 DEF IInv, FileInv, Watched, CanSessionAdopt
    <3> QED BY <2>1, <3>1, <3>2 DEF IInv, OwnerInv
  <2> QED BY <2>1 DEF WatchedKept
<1> QED BY <1>5, <1>12, <1>13, <1>14, <1>15, <1>16 DEF Safe, IInv

\* The end of a turn: prepStreamDir goes on, disposeSession ends, or the late writer's start.
LEMMA TurnEndsSafe ==
    ASSUME IInv, NEW id \in Ids, TurnEnds(id),
           NEW s, s = Head(turns[id]).by, NEW for, for = Head(turns[id]).for
    PROVE  Safe
<1>1. turns[id] # <<>> /\ turns[id] \in Seq(FittingTurns(id))
  BY DEF IInv, TurnInv, TurnEnds
<1>2. Head(turns[id]) \in FittingTurns(id)
  BY ONLY <1>1, HeadTailProperties
<1>3. Head(turns[id]) \in Turns /\ TurnFits(id, Head(turns[id]))
  BY <1>2 DEF FittingTurns
<1>4. /\ s \in Streams /\ IdOf(s) = id /\ for \in {"prepare", "late", "dispose"}
      /\ for = "prepare" => session[s].step = "prepare"
      /\ for = "late" => session[s].step = "lateFiles"
      /\ for = "dispose" => session[s].finalizer = "files"
  BY <1>3 DEF TurnFits, Turns
<1>5. /\ turns' = [turns EXCEPT ![id] = Tail(turns[id])] /\ UNCHANGED <<manager, world>>
      /\ \/ owners[id] # s /\ UNCHANGED <<files, failures>>
         \/ /\ Head(turns[id]).at = "deletes"
            /\ files' = [files EXCEPT ![id] = {}] /\ failures' = failures
         \/ failures' = failures + 1 /\ files' = files
  BY DEF TurnEnds, Leaves, Deletes, Fail
<1>6. streams' = streams /\ tuners' = tuners /\ writers' = writers
  BY <1>5 DEF manager, world
<1>7. CASE for = "prepare"
  <2> DEFINE x == IF CanSessionAdopt(s) THEN [session[s] EXCEPT !.step = "tuner"] ELSE Broken(session[s])
             f == finalization[s]
  <2>1. session[s].step = "prepare" /\ active[s].step = "start" /\ owners' = owners
        /\ session' = [session EXCEPT ![s] = x] /\ finalization' = finalization
    BY <1>4, <1>7, Known DEF TurnEnds, ActiveFits, Starting
  <2>2. /\ x \in Sessions
        /\ x.step = IF session[s].stopped THEN "failed" ELSE "tuner"
        /\ x.stopped = session[s].stopped
        /\ x.finalizer = session[s].finalizer /\ x.tuner = session[s].tuner
        /\ x.writer = session[s].writer
    <3>1. CASE CanSessionAdopt(s)
      BY <1>4, <3>1, Known DEF Sessions, CanSessionAdopt
    <3>2. CASE ~CanSessionAdopt(s)
      BY <1>4, <3>2, Known, BrokenIs DEF SessionFits, CanSessionAdopt, Sessions
    <3> QED BY <3>1, <3>2
  <2>3. f \in Finalizations /\ finalization' = [finalization EXCEPT ![s] = f]
    BY <1>4, <2>1, Known DEF TypeOK
  <2> HIDE DEF x, f
  <2>4. TurnEndsFor(id, s, for, x, f)
    BY <1>1, <1>4, <1>5, <1>7, <2>1, <2>2, <2>3 DEF TurnEndsFor
  <2>5. FitsAfter(s, active[s], x, f)
    <3>1. /\ ActiveFits(active[s], session[s]) /\ SessionFits(session[s]) /\ Life(s)
          /\ ~session[s].writer
      BY <1>4, <2>1, Known DEF SessionFits
    <3>2. ActiveFits(active[s], x)
      BY <2>1, <2>2, <3>1 DEF ActiveFits, Starting
    <3>3. SessionFits(x)
      BY <2>1, <2>2, <3>1 DEF SessionFits
    <3> QED BY <1>6, <2>1, <2>2, <3>1, <3>2, <3>3 DEF f, FitsAfter, Life, IdOf
  <2>6. session'[s] = x /\ writers' = writers
    BY <1>4, <1>6, <2>1, Known DEF TypeOK
  <2>7. MayWrite(s)' => owners'[id] = s /\ x.finalizer # "done"
    <3>1. MayWrite(s)' => ~session[s].stopped
      BY <1>4, <2>1, <2>2, <2>6, Known DEF MayWrite, Life, SessionFits
    <3>2. ~session[s].stopped => owners[id] = s /\ session[s].finalizer = "none"
      BY <1>4, <2>1, Known DEF IInv, OwnerInv, Begun, SessionFits
    <3> QED BY <2>1, <2>2, <3>1, <3>2
  <2> QED BY <2>4, <2>5, <2>7, EndedTurnSafe
<1>8. CASE for = "dispose"
  <2> DEFINE x == [session[s] EXCEPT !.finalizer = "done"]
             f == [finalization[s] EXCEPT !.attempted = TRUE]
  <2>1. /\ session[s].finalizer = "files" /\ session[s].stopped /\ session[s].step # "none"
        /\ ~session[s].tuner /\ ~session[s].writer
    BY <1>4, <1>8, Known DEF SessionFits
  <2>2. /\ session' = [session EXCEPT ![s] = x]
        /\ owners' = IF finalization[s].pending THEN owners ELSE Release(s, owners)
        /\ finalization' = [finalization EXCEPT ![s] = f]
    BY <1>4, <1>8, Known DEF TurnEnds
  <2>3. /\ x \in Sessions /\ x.step = session[s].step /\ x.stopped /\ x.finalizer = "done"
        /\ x.tuner = session[s].tuner /\ x.writer = session[s].writer
    BY <1>4, <2>1, Known DEF Sessions
  <2>4. f \in Finalizations /\ f.pending = finalization[s].pending /\ f.attempted
    BY <1>4, Known DEF Finalizations
  <2> HIDE DEF x, f
  <2>5. TurnEndsFor(id, s, for, x, f)
    BY <1>1, <1>5, <1>8, <2>1, <2>2, <2>3, <2>4 DEF TurnEndsFor
  <2>6. FitsAfter(s, active[s], x, f)
    BY <1>4, <1>6, <2>1, <2>3, <2>4, Known DEF FitsAfter, Life, ActiveFits, SessionFits, IdOf
  <2>7. session'[s] = x /\ writers' = writers
    BY <1>4, <1>6, <2>2, Known DEF TypeOK
  <2>8. MayWrite(s)' => x.step \in {"writer", "late"}
    BY <1>4, <2>1, <2>3, <2>7, Known DEF MayWrite, Life
  <2>9. failures' = 0 /\ Alone(s) /\ x.step \in {"writer", "late"} => owners'[id] = s
    <3>1. failures' = 0 => failures = 0
      BY <1>4, <1>5, Known DEF TypeOK
    <3>2. x.step \in {"writer", "late"} => MayWrite(s) /\ Begun(s) /\ finalization[s].pending
      BY <1>4, <2>3, Known DEF MayWrite, Begun, Life
    <3>3. failures = 0 /\ Alone(s) /\ MayWrite(s) /\ Begun(s) => owners[id] = s
      BY <1>4 DEF IInv, FileInv
    <3> QED BY <2>2, <3>1, <3>2, <3>3
  <2> QED BY <2>5, <2>6, <2>8, <2>9, EndedTurnSafe
<1>9. CASE for = "late"
  <2> DEFINE x == Broken(session[s])
             f == [pending |-> FALSE, attempted |-> TRUE]
  <2>1. /\ session[s].step = "lateFiles" /\ session[s].stopped /\ active[s].step = "start"
        /\ ~session[s].writer /\ session[s].finalizer # "none"
    BY <1>4, <1>9, Known DEF SessionFits, ActiveFits, Starting
  <2>2. /\ session' = [session EXCEPT ![s] = x] /\ owners' = Release(s, owners)
        /\ finalization' = [finalization EXCEPT ![s] = f]
    BY <1>4, <1>9, Known DEF TurnEnds
  <2>3. /\ x \in Sessions /\ x.step = "failed" /\ x.stopped /\ x.finalizer = session[s].finalizer
        /\ x.tuner = session[s].tuner /\ x.writer = session[s].writer
    BY <1>4, <2>1, Known, BrokenIs
  <2>4. f \in Finalizations /\ f.attempted
    BY DEF Finalizations
  <2> HIDE DEF x, f
  <2>5. TurnEndsFor(id, s, for, x, f)
    BY <1>1, <1>5, <1>9, <2>1, <2>2, <2>3, <2>4 DEF TurnEndsFor
  <2>6. FitsAfter(s, active[s], x, f)
    BY <1>4, <1>6, <2>1, <2>3, <2>4, Known DEF FitsAfter, Life, ActiveFits, SessionFits, IdOf, Starting
  <2>7. session'[s] = x /\ writers' = writers
    BY <1>4, <1>6, <2>2, Known DEF TypeOK
  <2>8. ~MayWrite(s)'
    BY <1>4, <2>1, <2>3, <2>7, Known DEF MayWrite, Life
  <2> QED BY <2>5, <2>6, <2>8, EndedTurnSafe
<1> QED BY <1>4, <1>7, <1>8, <1>9

-----------------------------------------------------------------------------
(* The theorems. *)

\* The process starts with no stream, and with the files that could not be deleted.
LEMMA InitKeeps == Init => IInv
<1> SUFFICES ASSUME Init PROVE IInv
  OBVIOUS
<1> USE DEF Init
<1>1. TypeOK
  <2>1. 0 \in Ids /\ Nobody \in Owners
    BY StreamsAssumption DEF Ids, Owners
  <2>2. /\ active \in [Streams -> ActiveStreams] /\ session \in [Streams -> Sessions]
        /\ finalization \in [Streams -> Finalizations]
    BY <2>1 DEF ActiveStreams, Sessions, Finalizations
  <2>3. /\ streams \in [Ids -> Owners] /\ owners \in [Ids -> Owners]
        /\ files \in [Ids -> SUBSET Owners]
    BY <2>1
  <2>4. <<>> \in Seq(Turns)
    BY ONLY EmptySeq
  <2>5. turns \in [Ids -> Seq(Turns)]
    BY <2>4
  <2> QED BY <2>2, <2>3, <2>5 DEF TypeOK
<1>2. \A s \in Streams : Life(s)
  BY DEF Life, ActiveFits, SessionFits, Starting
<1>3. TurnInv
  <2>1. ASSUME NEW id \in Ids PROVE turns[id] \in Seq(FittingTurns(id)) /\ InTurn(turns[id])
    <3>1. turns[id] = <<>>
      OBVIOUS
    <3>2. <<>> \in Seq(FittingTurns(id)) /\ Len(<<>>) = 0
      BY ONLY EmptySeq
    <3>3. InTurn(<<>>)
      BY <3>2 DEF InTurn
    <3> QED BY <3>1, <3>2, <3>3
  <2> QED BY <2>1 DEF TurnInv
<1>4. \A s \in Streams : ~Begun(s)
  BY DEF Begun
<1>5. OwnerInv
  BY <1>4 DEF OwnerInv, Watched, Begun
<1>6. \A id \in Ids : files[id] \cap Streams = {}
  BY StreamsAssumption
<1>7. FileInv
  BY <1>4, <1>6 DEF FileInv
<1> QED BY <1>1, <1>2, <1>3, <1>5, <1>7 DEF IInv

\* Nothing changes.
LEMMA StutterSafe == ASSUME IInv, UNCHANGED vars PROVE Safe
<1>1. /\ active' = active /\ streams' = streams /\ session' = session /\ owners' = owners
      /\ finalization' = finalization /\ files' = files /\ failures' = failures
      /\ tuners' = tuners /\ writers' = writers /\ turns' = turns
  BY DEF vars, manager, world, artifacts
<1>2. TypeOK' /\ (\A s \in Streams : Life(s))'
  BY <1>1 DEF IInv, TypeOK, Life, IdOf
<1>3. TurnInv'
  <2>1. \A id \in Ids : FittingTurns(id)' = FittingTurns(id)
    BY <1>1 DEF FittingTurns, TurnFits, IdOf
  <2> QED BY <1>1, <2>1 DEF IInv, TurnInv
<1>4. OwnerInv' /\ FileInv'
  BY <1>1 DEF IInv, OwnerInv, FileInv, Watched, Begun, IdOf, Alone, MayWrite
<1>5. WatchedKept
  BY <1>1 DEF WatchedKept
<1> QED BY <1>2, <1>3, <1>4, <1>5 DEF Safe, IInv

\* Every step keeps the invariant and the files of the streams that are being watched.
LEMMA NextSafe == ASSUME IInv, [Next]_vars PROVE Safe
<1>1. ASSUME NEW s \in Streams, AskSnapshot(s) \/ ReadDirectory(s) \/ SnapshotDeadline(s) PROVE Safe
  BY <1>1, SnapshotSafe
<1>2. ASSUME NEW s \in Streams, ReserveId(s) \/ Recheck(s) PROVE Safe
  BY <1>2, ReserveIdSafe, RecheckSafe
<1>3. ASSUME NEW s \in Streams, StartTimeout(s) \/ Stop(s) PROVE Safe
  BY <1>3, StopSafe
<1>4. ASSUME NEW s \in Streams, StartTurn(s) \/ StartThrows(s) PROVE Safe
  BY <1>4, StartGoesOnSafe
<1>5. ASSUME NEW s \in Streams, Dispose(s) \/ FinalizeTurn(s) \/ FinalizeEnds(s) PROVE Safe
  BY <1>5, DisposeSafe, FinalizeTurnSafe, FinalizeEndsSafe
<1>6. ASSUME NEW s \in Streams, DirectoryReady(s) \/ TunerOpens(s) \/ TunerEnds(s) PROVE Safe
  BY <1>6, DirectoryReadySafe, TunerOpensSafe, TunerEndsSafe
<1>7. ASSUME NEW s \in Streams, WriterStarts(s) \/ WriterFails(s) \/ LateWriterStops(s) PROVE Safe
  BY <1>7, WriterStartsSafe, WriterFailsSafe, LateWriterStopsSafe
<1>8. ASSUME NEW s \in Streams, WriterWrites(s) \/ ProcessExits(s) \/ StopTimer(s) PROVE Safe
  BY <1>8, WriterWritesSafe, ProcessExitsSafe, StopTimerSafe
<1>9. ASSUME NEW id \in Ids, TurnBegins(id) \/ TurnEnds(id) PROVE Safe
  BY <1>9, TurnBeginsSafe, TurnEndsSafe
<1>10. CASE UNCHANGED vars
  BY <1>10, StutterSafe
<1> QED BY <1>1, <1>2, <1>3, <1>4, <1>5, <1>6, <1>7, <1>8, <1>9, <1>10 DEF Next, Progress

\* The invariant holds in every state.
THEOREM Invariance == Spec => []IInv
<1>1. IInv /\ [Next]_vars => IInv'
  BY NextSafe DEF Safe
<1> QED BY InitKeeps, <1>1, PTL DEF Spec

\* The variables always have their types.
THEOREM TypeCorrect == Spec => []TypeOK
<1>1. IInv => TypeOK
  BY DEF IInv
<1> QED BY Invariance, <1>1, PTL

\* A stream that is gone holds neither a tuner nor a process, and left no file unless a
\* deletion failed or its id went to another stream.
THEOREM NothingStays == Spec => []NothingLeft
<1>1. IInv => NothingLeft
  <2> SUFFICES ASSUME IInv, NEW s \in Streams, Gone(s)
               PROVE  /\ s \notin tuners \cup writers
                      /\ \/ failures > 0
                         \/ \E t \in Streams \ {s} : session[t].step # "none" /\ IdOf(t) = IdOf(s)
                         \/ s \notin files[IdOf(s)]
    BY DEF NothingLeft
  <2>1. session[s].step \notin Starting
    BY Known DEF Gone, ActiveFits, Starting
  <2>2. session[s].finalizer = "none" => session[s].step = "none"
    BY Known DEF Gone, ActiveFits, SessionFits
  <2>3. ~session[s].tuner /\ ~session[s].writer
    BY <2>2, Known DEF Gone, SessionFits
  <2>4. s \notin tuners \cup writers
    BY <2>1, <2>3, Known DEF Life, Starting
  <2>5. ASSUME ~(failures > 0), Alone(s), s \in files[IdOf(s)] PROVE FALSE
    <3>1. failures = 0
      BY <2>5, Known DEF TypeOK
    <3>2. Begun(s)
      BY <2>5, Known DEF IInv, FileInv
    <3>3. session[s].finalizer # "done"
      BY <2>1, <2>5, <3>1, <3>2 DEF IInv, FileInv, Starting
    <3> QED BY <2>2, <3>2, <3>3 DEF Gone, Begun
  <2> QED BY <2>4, <2>5 DEF Alone, Begun
<1> QED BY Invariance, <1>1, PTL

\* Nobody else deletes the files of a stream that is being watched.
THEOREM NobodyElseDeletes == Spec => WatchedFilesKept
<1>1. IInv /\ [Next]_vars =>
        \A id \in Ids : \A s \in files[id] \ files'[id] :
            s \in Streams /\ session[s].step = "up" /\ CanSessionAdopt(s) => Head(turns[id]).by = s
  BY NextSafe DEF Safe, WatchedKept
<1> QED BY Invariance, <1>1, PTL DEF Spec, WatchedFilesKept
=============================================================================
