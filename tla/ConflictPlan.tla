---------------------------- MODULE ConflictPlan ----------------------------
(***************************************************************************)
(* createReserves and createReservesDiff of ReservationManageModel: which   *)
(* of the wanted reservations are kept, which of them conflict for lack of  *)
(* a tuner (a sweep along the time axis with a greedy, priority-ordered     *)
(* assignment of tuners), and the insert/update/delete that takes the old   *)
(* rows to the new ones.  Pure functions of rows; Reservation uses them.    *)
(***************************************************************************)
EXTENDS Integers, Sequences, FiniteSets
LOCAL INSTANCE SequencesExt

CONSTANTS
    Tuners,         \* sequence of the sets of channel types each tuner receives
    TypeOf          \* physical channel -> its channel type

\* Null programId / ruleId / id of a row that is not stored yet, and "idle tuner".
None == 0

\* The elements of the finite set S in the strict total order Before.
Ordered(S, Before(_, _)) == SetToSortSeq(S, Before)

-----------------------------------------------------------------------------
(* Row predicates. *)

IsManual(r) == r.ruleId = None
IsRuleProgram(r) == r.ruleId # None /\ r.programId # None /\ ~r.isEventRelay

\* Rows that compete for a tuner.
IsCandidate(r) == ~r.isSkip /\ ~r.isOverlap

\* Rows the recorder records without a warning.
IsNormal(r) == IsCandidate(r) /\ ~r.isConflict

\* sortReserve: time-specified manual, then manual by age, then rules by id.
SortsBefore(a, b) ==
    \/ IsManual(a) /\ ~IsManual(b)
    \/ /\ IsManual(a) /\ IsManual(b)
       /\ \/ a.isTimeSpecified /\ ~b.isTimeSpecified
          \/ a.isTimeSpecified = b.isTimeSpecified /\ a.updateTime < b.updateTime
    \/ /\ ~IsManual(a) /\ ~IsManual(b)
       /\ a.ruleId < b.ruleId

\* Array.sort is stable: rows that compare equal keep their order.
StableSort(rows) ==
    LET Before(i, j) == \/ SortsBefore(rows[i], rows[j])
                        \/ ~SortsBefore(rows[j], rows[i]) /\ i < j
        order == Ordered(DOMAIN rows, Before)
    IN  [k \in DOMAIN rows |-> rows[order[k]]]

\* Mutant: every rule keeps a row of its own.
BugProgramKey(r) ==
    IF IsManual(r) THEN <<r.programId>> ELSE <<r.programId, r.ruleId>>

\* getRuleProgramIdKey: rows with one key are one reservation of the program.
ProgramKey(r) ==
    IF IsManual(r) THEN <<r.programId>>
    ELSE IF r.isSkip \/ r.isOverlap
           THEN <<r.programId, IF r.isSkip THEN "skip" ELSE "overlap", r.ruleId>>
           ELSE <<r.programId, r.isConflict>>

-----------------------------------------------------------------------------
(* createReserves. *)

\* Mutant: a skip concerns its own row only.
BugSkipIsPerRule(rows) == rows

\* A skip is per program: no other rule's row of a skipped program survives.
DropSkippedPrograms(rows) ==
    LET skipped == {rows[i].programId : i \in {j \in DOMAIN rows :
                        IsRuleProgram(rows[j]) /\ rows[j].isSkip}}
        Keep(r) == ~IsRuleProgram(r) \/ r.isSkip \/ r.programId \notin skipped
    IN  SelectSeq(rows, Keep)

\* The rows that enter the sweep: the first one of every program key.
Listed(rows) ==
    {i \in DOMAIN rows :
        \/ rows[i].programId = None
        \/ \A j \in 1 .. i - 1 : rows[j].programId = None
                                   \/ ProgramKey(rows[j]) # ProgramKey(rows[i])}

\* Start and end events in sweep order: by time, ends first, then by index.
Events(S) == [idx : S, isStart : BOOLEAN]
TimeOf(rows, e) == IF e.isStart THEN rows[e.idx].startAt ELSE rows[e.idx].endAt
EventBefore(rows, a, b) ==
    \/ TimeOf(rows, a) < TimeOf(rows, b)
    \/ /\ TimeOf(rows, a) = TimeOf(rows, b)
       /\ \/ ~a.isStart /\ b.isStart
          \/ a.isStart = b.isStart /\ a.idx < b.idx

\* The rows in `reserves` right after event e.
ActiveAfter(rows, S, e) ==
    {i \in S :
        LET start == [idx |-> i, isStart |-> TRUE]
            end   == [idx |-> i, isStart |-> FALSE]
        IN  /\ ~rows[i].isSkip
            /\ start = e \/ EventBefore(rows, start, e)
            /\ end # e /\ ~EventBefore(rows, end, e)}

\* Their order: `reserves` is sorted after every push, and the sort is stable, so
\* of two rows that compare equal the one that started first comes first.
ServedBefore(rows, i, j) ==
    \/ SortsBefore(rows[i], rows[j])
    \/ /\ ~SortsBefore(rows[j], rows[i])
       /\ EventBefore(rows, [idx |-> i, isStart |-> TRUE], [idx |-> j, isStart |-> TRUE])

\* Tuner.add: the tuner receives the type and is idle or on the same channel.
\* `used` gives each tuner's channel.
Accepts(used, t, r) ==
    TypeOf[r.channel] \in Tuners[t] /\ used[t] \in {None, r.channel}

\* The greedy assignment of one instant: the active rows in order, each to the
\* first tuner that accepts it; the rows left without one.
Unserved(rows, active) ==
    LET order == Ordered(active, LAMBDA i, j : ServedBefore(rows, i, j))
        Step(acc, i) ==
            LET fits == {t \in DOMAIN Tuners : Accepts(acc.used, t, rows[i])}
                t    == CHOOSE x \in fits : \A y \in fits : x <= y
            IN  IF rows[i].isOverlap THEN acc
                ELSE IF fits = {} THEN [acc EXCEPT !.conflict = @ \cup {i}]
                ELSE [acc EXCEPT !.used[t] = rows[i].channel]
        after[k \in 0 .. Len(order)] ==
            IF k = 0 THEN [used |-> [t \in DOMAIN Tuners |-> None], conflict |-> {}]
            ELSE Step(after[k - 1], order[k])
    IN  after[Len(order)].conflict

\* Indexes that lack a tuner after some event.
Conflicts(rows, S) ==
    LET instants == {ActiveAfter(rows, S, e) : e \in {x \in Events(S) : ~rows[x.idx].isSkip}}
    IN  UNION {Unserved(rows, active) : active \in instants}

CreateReserves(allMatches) ==
    LET rows == StableSort(DropSkippedPrograms(allMatches))
        S    == Listed(rows)
        bad  == Conflicts(rows, S)
        kept == Ordered(S, LAMBDA i, j :
                    \/ rows[i].startAt < rows[j].startAt
                    \/ rows[i].startAt = rows[j].startAt /\ i < j)
    IN  [k \in DOMAIN kept |-> [rows[kept[k]] EXCEPT !.isConflict = kept[k] \in bad]]

-----------------------------------------------------------------------------
(* createReservesDiff. *)

\* Mutant: a time-specified row is known by its time and channel alone.
BugReserveKey(r) ==
    IF r.programId = None THEN <<r.startAt, r.endAt, r.channel>>
                          ELSE <<r.programId, r.ruleId>>

\* createReserveKey
ReserveKey(r) ==
    IF r.programId = None THEN <<r.startAt, r.endAt, r.channel, r.ruleId>>
                          ELSE <<r.programId, r.ruleId>>

\* checkProgramIdReserveDiff and checkTimeRuleReserveDiff.
Differs(old, new) ==
    \/ old.isSkip # new.isSkip
    \/ old.isConflict # new.isConflict
    \/ old.isOverlap # new.isOverlap
    \/ old.programId # None /\ old.programUpdateTime # new.programUpdateTime
    \/ (old.programId # None \/ (old.ruleId # None /\ new.ruleId # None))
          /\ old.ruleUpdateCnt # new.ruleUpdateCnt

\* The old rows by key; of several rows with one key the last one is indexed.
CreateReservesDiff(old, new) ==
    LET oldKeys == {ReserveKey(old[i]) : i \in DOMAIN old}
        newKeys == {ReserveKey(new[i]) : i \in DOMAIN new}
        At(k)   == old[CHOOSE i \in DOMAIN old :
                        /\ ReserveKey(old[i]) = k
                        /\ \A j \in i + 1 .. Len(old) : ReserveKey(old[j]) # k]
        Fresh(r)   == ReserveKey(r) \notin oldKeys
        Changed(r) == ReserveKey(r) \in oldKeys /\ Differs(At(ReserveKey(r)), r)
        updates == SelectSeq(new, Changed)
    IN  [insert |-> SelectSeq(new, Fresh),
         update |-> [i \in DOMAIN updates |->
                        [updates[i] EXCEPT !.id = At(ReserveKey(updates[i])).id]],
         delete |-> {At(k).id : k \in oldKeys \ newKeys}]

-----------------------------------------------------------------------------
(* Reference definition of "the tuners suffice". *)

\* The channels of a set of rows can be received at once: an injective choice
\* of a tuner of the right type for each channel.
Receivable(channels) ==
    \E f \in [channels -> DOMAIN Tuners] :
        /\ \A c \in channels : TypeOf[c] \in Tuners[f[c]]
        /\ \A c, d \in channels : f[c] = f[d] => c = d

\* At every instant the rows of the set S that are running fit on the tuners.
Fits(S) ==
    \A r \in S :
        Receivable({s.channel : s \in {x \in S : x.startAt <= r.startAt
                                                  /\ r.startAt < x.endAt}})
=============================================================================
