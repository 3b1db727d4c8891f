---------------------------- MODULE Reservation ----------------------------
(***************************************************************************)
(* ReservationManageModel: the table of reservations and the operations     *)
(* that change it.  Every operation runs under the reservation lock         *)
(* (ExecutionManagement shows that it is exclusive), so an operation is one *)
(* action; what the code does outside the lock (the id lists of updateAll,  *)
(* the first check of addEventRelay) is a step of its own, and updateRule,  *)
(* which holds the lock while the rules and the guide go on changing, is a  *)
(* reading and a writing step.  An operation that throws or returns early   *)
(* changes nothing and is not a step.                                       *)
(*                                                                          *)
(* The programme guide, the rules and the recorded history are the inputs:  *)
(* they change by themselves (EpgChange, Rule..., Recorded).                *)
(***************************************************************************)
EXTENDS ConflictPlan

CONSTANTS
    Programs,           \* programme ids (positive integers)
    ServiceOf,          \* programme -> its service (channelId)
    PhysicalOf,         \* service -> its physical channel
    EpgSlots,           \* programme -> sequence of the [startAt, endAt] it may be listed at
    Rules,              \* rule ids (positive integers), in priority order
    InitialRules,       \* the rules that are already stored when the behaviour begins
    TimeRules,          \* the rules with isTimeSpecification
    RulePrograms,       \* rule -> the programmes its search matches
    RuleTimes,          \* time rule -> the [channelId, startAt, endAt] it asks for
    NameMatches,        \* time rule -> programmes whose name has its keyword
    AvoidDuplicate,     \* the rules with reserveOption.avoidDuplicate
    TimeSlots,          \* what users ask for: [channelId, startAt, endAt]
    RelayCalls,         \* calls of addEventRelay
    RelayTargets,       \* the programmes an event relay may lead to
    Refreshers,         \* calls of updateAll that may run at the same time
    Limits              \* bounds, one of which a behaviour keeps to: the programmes and rules
                        \* there are, changes of the guide (epg) and of rules (rule), manual
                        \* additions and edits, the clock (time), ids of rows, and whether
                        \* database errors and lock timeouts are explored (fail)

ASSUME RulesAssumption == 
    Rules \subseteq Nat \ {None} /\ TimeRules \subseteq Rules /\ InitialRules \subseteq Rules
ASSUME ProgramsAssumption == Programs \subseteq Nat \ {None}
ASSUME LimitsAssumption ==
    \A l \in Limits : /\ l.programs \subseteq Programs /\ l.rules \subseteq Rules /\ l.fail \in BOOLEAN
                      /\ {l.epg, l.rule, l.edits, l.time, l.ids} \subseteq Nat

VARIABLES
    reserves,           \* the table: id -> row
    nextReserveId,      \* its auto-increment
    programs,           \* programme -> [startAt, endAt, updateTime], updateTime None: not listed
    rules,              \* rule -> [exists, enable, updateCnt]
    recorded,           \* programmes with a recorded history (overlap)
    refresh,            \* updateAll call -> [work, clean], or Idle
    relay,              \* addEventRelay call -> [step, programId, ruleId]
    toUpdate,           \* rules with an updateRule call under way
    holder,             \* the updateRule that holds the lock and what it read, or Nobody
    now,                \* the clock
    updateTime,         \* logical clock of manual rows
    budget,             \* changes made, and the bounds: [epg, rule, limit]
    failed,             \* history: rules whose last updateRule failed
    planned,            \* history: only plan-keeping steps since the last sweep
    fresh               \* history: the last updateAll saw the current guide

table == <<reserves, nextReserveId>>
inputs == <<programs, rules, recorded, now, budget>>
calls == <<refresh, relay, toUpdate, failed>>
history == <<planned, fresh>>
vars == <<table, inputs, calls, holder, updateTime, history>>

Idle == [work |-> <<>>, clean |-> FALSE, running |-> FALSE]
Nobody == [rule |-> None, new |-> <<>>, times |-> {}]
LockFree == holder = Nobody
limit == budget.limit

-----------------------------------------------------------------------------
(* ReserveDB. *)

Rows == {reserves[i] : i \in DOMAIN reserves}

\* Rows in the order of a query: by startAt, and by id where that leaves a choice.
ByStart(S) == Ordered(S, LAMBDA a, b : \/ a.startAt < b.startAt
                                       \/ a.startAt = b.startAt /\ a.id < b.id)
ById(S) == Ordered(S, LAMBDA a, b : a.id < b.id)

InWindow(r, times) == \E t \in times : r.endAt >= t.startAt /\ r.startAt < t.endAt

FindTimeRanges(times, hasSkip, hasOverlap, excluded) ==
    ByStart({r \in Rows : /\ InWindow(r, times)
                          /\ hasSkip \/ ~r.isSkip
                          /\ hasOverlap \/ ~r.isOverlap
                          /\ r.id \notin excluded})

WindowOf(r) == [startAt |-> r.startAt, endAt |-> r.endAt]

\* updateMany: delete, insert, update in one transaction.
UpdateMany(diff) ==
    LET fresh_ == {nextReserveId + k - 1 : k \in DOMAIN diff.insert}
        kept   == DOMAIN reserves \ diff.delete
        Last(i) == CHOOSE k \in DOMAIN diff.update :
                      /\ diff.update[k].id = i
                      /\ \A j \in k + 1 .. Len(diff.update) : diff.update[j].id # i
        Stored(i) == IF i \in fresh_
                       THEN [diff.insert[i - nextReserveId + 1] EXCEPT !.id = i]
                       ELSE IF \E k \in DOMAIN diff.update : diff.update[k].id = i
                         THEN diff.update[Last(i)] ELSE reserves[i]
    IN  /\ nextReserveId + Len(diff.insert) <= limit.ids + 1
        /\ reserves' = [i \in kept \cup fresh_ |-> Stored(i)]
        /\ nextReserveId' = nextReserveId + Len(diff.insert)

InsertOnce(row) ==
    UpdateMany([insert |-> <<row>>, update |-> <<>>, delete |-> {}])

-----------------------------------------------------------------------------
(* Building rows. *)

IsListed(p) == programs[p].updateTime # None

EmptyRow ==
    [id |-> None, programId |-> None, ruleId |-> None, startAt |-> 0, endAt |-> 0,
     channelId |-> None, channel |-> None,
     isTimeSpecified |-> FALSE, isEventRelay |-> FALSE, isSkip |-> FALSE,
     isConflict |-> FALSE, isOverlap |-> FALSE, isIgnoreOverlap |-> FALSE,
     programUpdateTime |-> None, ruleUpdateCnt |-> None, updateTime |-> 0]

SetProgramToReserve(r, p) ==
    [r EXCEPT !.programId = p, !.programUpdateTime = programs[p].updateTime,
              !.channelId = ServiceOf[p], !.channel = PhysicalOf[ServiceOf[p]],
              !.startAt = programs[p].startAt, !.endAt = programs[p].endAt]

SetTimeToReserve(r, t) ==
    [r EXCEPT !.isTimeSpecified = TRUE, !.startAt = t.startAt, !.endAt = t.endAt,
              !.channelId = t.channelId, !.channel = PhysicalOf[t.channelId]]

\* programDB.findRule: matching programmes that are not over, with their overlap.
FindRule(r) ==
    Ordered({p \in RulePrograms[r] : IsListed(p) /\ now <= programs[p].endAt},
            LAMBDA a, b : \/ programs[a].startAt < programs[b].startAt
                          \/ programs[a].startAt = programs[b].startAt /\ a < b)
Overlap(r, p) == r \in AvoidDuplicate /\ p \in recorded

\* isTimeSpecificationRuleMatched: no programme on air then, or one with the keyword.
IsTimeSpecificationRuleMatched(r, t) ==
    \A p \in Programs :
        /\ IsListed(p) /\ ServiceOf[p] = t.channelId
        /\ programs[p].startAt <= t.startAt /\ t.startAt < programs[p].endAt
        => p \in NameMatches[r]

\* The times of a time rule that are not over.
RuleTimesLeft(r) == {t \in RuleTimes[r] : t.endAt >= now}

-----------------------------------------------------------------------------
(* createDiff and the check of a single addition. *)

\* The rows in `base` are recomputed together with `addNew`; the table goes from
\* `addOld` and `base` to the result.
CreateDiff(base, addNew, addOld) ==
    UpdateMany(CreateReservesDiff(addOld \o base, CreateReserves(addNew \o base)))

\* Mutant: rows that already conflict are left out of the check.
BugCheckSingleReserveConflict(row) ==
    LET base == SelectSeq(FindTimeRanges({WindowOf(row)}, FALSE, FALSE, {}),
                          LAMBDA r : ~r.isConflict)
        plan == CreateReserves(Append(base, row))
    IN  \A k \in DOMAIN plan : plan[k].id = None => ~plan[k].isConflict

\* The new row fits, and no row that had a tuner loses it.
CheckSingleReserveConflict(row) ==
    LET base   == FindTimeRanges({WindowOf(row)}, FALSE, FALSE, {})
        stored == {base[k].id : k \in {j \in DOMAIN base : base[j].isConflict}}
        plan   == CreateReserves(Append(base, row))
    IN  \A k \in DOMAIN plan : plan[k].isConflict => plan[k].id \in stored

-----------------------------------------------------------------------------
\* The rules are stored, none of them processed yet.
Init ==
    /\ budget \in {[epg |-> 0, rule |-> 0, limit |-> l] : l \in Limits}
    /\ reserves = <<>>
    /\ nextReserveId = 1
    /\ programs = [p \in Programs |-> [startAt |-> EpgSlots[p][1].startAt, endAt |-> EpgSlots[p][1].endAt,
                                       updateTime |-> IF p \in limit.programs THEN 1 ELSE None]]
    /\ toUpdate = InitialRules \cap limit.rules
    /\ rules = [r \in Rules |-> [exists |-> r \in toUpdate, enable |-> r \in toUpdate, updateCnt |-> 0]]
    /\ recorded = {}
    /\ refresh = [u \in Refreshers |-> Idle]
    /\ relay = [c \in RelayCalls |-> [step |-> "idle", programId |-> None, ruleId |-> None]]
    /\ failed = {}
    /\ holder = Nobody
    /\ now = 0
    /\ updateTime = 1
    /\ planned = TRUE
    /\ fresh = TRUE

\* add with a programId; findProgramId refuses a programme that has a row.
AddProgram(p) ==
    LET row == [SetProgramToReserve(EmptyRow, p) EXCEPT !.updateTime = updateTime]
    IN  /\ LockFree
        /\ IsListed(p)
        /\ \A r \in Rows : r.programId # p
        /\ updateTime <= limit.edits
        /\ CheckSingleReserveConflict(row)
        /\ InsertOnce(row)
        /\ updateTime' = updateTime + 1
        /\ UNCHANGED <<inputs, calls, holder, history>>

\* add with a timeSpecifiedOption; findTimeSpecification refuses a second one.
AddTimeSpecified(t) ==
    LET row == [SetTimeToReserve(EmptyRow, t) EXCEPT
                    !.isEventRelay = TRUE, !.updateTime = updateTime]
    IN  /\ LockFree
        /\ t.startAt < t.endAt /\ t.endAt > now
        /\ ~\E r \in Rows : /\ r.ruleId = None /\ r.channelId = t.channelId
                            /\ r.startAt = t.startAt /\ r.endAt = t.endAt
        /\ updateTime <= limit.edits
        /\ CheckSingleReserveConflict(row)
        /\ InsertOnce(row)
        /\ updateTime' = updateTime + 1
        /\ UNCHANGED <<inputs, calls, holder, history>>

\* addEventRelay, before the lock: give up when the programme has a row.
EventRelayCheck(c, p, i) ==
    /\ relay[c].step = "idle"
    /\ \A r \in Rows : r.programId # p
    /\ relay' = [relay EXCEPT ![c] = [step |-> "checked", programId |-> p,
                                      ruleId |-> reserves[i].ruleId]]
    /\ UNCHANGED <<table, inputs, refresh, toUpdate, failed, holder, updateTime, history>>

\* addEventRelay, under the lock; it does not look for the programme again.
EventRelayInsert(c) ==
    LET p   == relay[c].programId
        row == [SetProgramToReserve(EmptyRow, p) EXCEPT
                    !.isEventRelay = TRUE, !.ruleId = relay[c].ruleId,
                    !.updateTime = updateTime]
    IN  /\ LockFree
        /\ relay[c].step = "checked"
        /\ IsListed(p)
        /\ updateTime <= limit.edits
        /\ CheckSingleReserveConflict(row)
        /\ InsertOnce(row)
        /\ updateTime' = updateTime + 1
        /\ relay' = [relay EXCEPT ![c].step = "done"]
        /\ UNCHANGED <<inputs, refresh, toUpdate, failed, holder, history>>

\* The relay is refused: no programme, or no tuner.
EventRelayRefused(c) ==
    LET p   == relay[c].programId
        row == [SetProgramToReserve(EmptyRow, p) EXCEPT
                    !.isEventRelay = TRUE, !.ruleId = relay[c].ruleId,
                    !.updateTime = updateTime]
    IN  /\ LockFree
        /\ relay[c].step = "checked"
        /\ IsListed(p) => ~CheckSingleReserveConflict(row)
        /\ relay' = [relay EXCEPT ![c].step = "done"]
        /\ UNCHANGED <<table, inputs, refresh, toUpdate, failed, holder, updateTime, history>>

-----------------------------------------------------------------------------
(* update and updateRule, as changes of the table. *)

\* update(i): the row follows its programme; nothing when there is no row, no
\* programme or no new version of it.
UpdateTable(i) ==
    IF i \in DOMAIN reserves /\ reserves[i].programId # None
       /\ IsListed(reserves[i].programId)
       /\ reserves[i].programUpdateTime # programs[reserves[i].programId].updateTime
      THEN LET old == reserves[i]
               new == [SetProgramToReserve(old, old.programId) EXCEPT !.isConflict = FALSE]
           IN  CreateDiff(FindTimeRanges({WindowOf(old), WindowOf(new)}, FALSE, FALSE, {i}),
                          <<new>>, <<old>>)
      ELSE UNCHANGED table

\* Mutants: the new rows forget the user's decisions; a disabled rule is searched.
BugForgetDecisions(r, old) ==
    LET rule  == [EmptyRow EXCEPT !.ruleId = r, !.ruleUpdateCnt = rules[r].updateCnt]
        found == FindRule(r)
        times == Ordered(RuleTimesLeft(r), LAMBDA a, b : a.startAt < b.startAt)
    IN  IF ~rules[r].exists \/ ~rules[r].enable THEN <<>>
        ELSE IF r \in TimeRules
          THEN [k \in DOMAIN times |-> SetTimeToReserve(rule, times[k])]
          ELSE [k \in DOMAIN found |-> SetProgramToReserve(rule, found[k])]
BugIgnoreEnable(r, old) ==
    LET found == FindRule(r)
        rule  == [EmptyRow EXCEPT !.ruleId = r, !.ruleUpdateCnt = rules[r].updateCnt]
    IN  IF ~rules[r].exists THEN <<>>
        ELSE [k \in DOMAIN found |-> SetProgramToReserve(rule, found[k])]

\* The rows a rule asks for now, with the user's decisions on the old rows kept.
RuleRows(r, old) ==
    LET Keep(row) ==
            LET same == {k \in DOMAIN old : ReserveKey(old[k]) = ReserveKey(row)}
                o    == old[CHOOSE k \in same : \A j \in same : j <= k]
            IN  IF same = {} THEN row
                ELSE [row EXCEPT !.isSkip = o.isSkip,
                                 !.isIgnoreOverlap = o.isIgnoreOverlap,
                                 !.isOverlap = IF o.isIgnoreOverlap \/ r \in TimeRules
                                                 THEN o.isOverlap ELSE @]
        rule  == [EmptyRow EXCEPT !.ruleId = r, !.ruleUpdateCnt = rules[r].updateCnt]
        found == FindRule(r)
        times == Ordered({t \in RuleTimesLeft(r) : IsTimeSpecificationRuleMatched(r, t)},
                         LAMBDA a, b : \/ a.channelId < b.channelId
                                       \/ a.channelId = b.channelId /\ a.startAt < b.startAt)
    IN  IF ~rules[r].exists \/ ~rules[r].enable THEN <<>>
        ELSE IF r \in TimeRules
          THEN [k \in DOMAIN times |-> Keep(SetTimeToReserve(rule, times[k]))]
          ELSE [k \in DOMAIN found |->
                  Keep([SetProgramToReserve(rule, found[k]) EXCEPT
                           !.isOverlap = Overlap(r, found[k])])]

RowsOfRule(r) == ByStart({x \in Rows : x.ruleId = r /\ ~x.isEventRelay})

\* updateRule(r) has the lock and reads the rule, its rows and the guide.
UpdateRuleRead(r) ==
    /\ LockFree
    /\ failed' = failed \ {r}
    /\ LET old == RowsOfRule(r)
           new == RuleRows(r, old)
           asked == IF rules[r].exists /\ rules[r].enable /\ r \in TimeRules
                      THEN RuleTimesLeft(r) ELSE {}
       IN  holder' = [rule |-> r, new |-> new,
                      times |-> {WindowOf(t) : t \in asked}
                                \cup {WindowOf(new[k]) : k \in DOMAIN new}
                                \cup {WindowOf(old[k]) : k \in DOMAIN old}]

\* ... and then writes what follows from them.
UpdateRuleWrite ==
    /\ ~LockFree
    /\ CreateDiff(FindTimeRanges(holder.times, TRUE, TRUE,
                                 {i \in DOMAIN reserves : reserves[i].ruleId = holder.rule}),
                  holder.new, RowsOfRule(holder.rule))
    /\ holder' = Nobody
    /\ planned' = FALSE
    /\ UNCHANGED <<inputs, calls, updateTime, fresh>>

\* The transaction of updateMany fails and is rolled back.
UpdateRuleAborts ==
    /\ limit.fail
    /\ ~LockFree
    /\ holder' = Nobody
    /\ failed' = failed \cup {holder.rule}
    /\ refresh' = [u \in Refreshers |-> [refresh[u] EXCEPT !.clean = FALSE]]
    /\ UNCHANGED <<table, inputs, relay, toUpdate, updateTime, history>>

\* updateRule called for an event: a change of the rule, the end of a recording.
UpdateRule(r) ==
    /\ r \in toUpdate
    /\ UpdateRuleRead(r)
    /\ toUpdate' = toUpdate \ {r}
    /\ UNCHANGED <<table, inputs, refresh, relay, updateTime, history>>

\* The call fails (no lock within its timeout, a database error): it is logged.
UpdateRuleFails(r) ==
    /\ limit.fail
    /\ r \in toUpdate
    /\ toUpdate' = toUpdate \ {r}
    /\ failed' = failed \cup {r}
    /\ UNCHANGED <<table, inputs, refresh, relay, holder, updateTime, history>>

-----------------------------------------------------------------------------
(* What users do to a row. *)

\* cancel(i): a rule's row is skipped (or stays overlapped), any other is deleted.
Cancel(i) ==
    LET old == reserves[i]
        new == IF old.isOverlap
                 THEN [old EXCEPT !.isIgnoreOverlap = FALSE, !.isConflict = FALSE]
                 ELSE [old EXCEPT !.isSkip = TRUE, !.isConflict = FALSE]
    IN  /\ LockFree
        /\ CreateDiff(FindTimeRanges({WindowOf(old)}, FALSE, TRUE, {i}),
                      IF old.ruleId # None /\ ~old.isEventRelay THEN <<new>> ELSE <<>>,
                      <<old>>)
        /\ planned' = FALSE
        /\ UNCHANGED <<inputs, calls, holder, updateTime, fresh>>

\* removeSkip(i): the skip of the programme is lifted, for every rule.
RemoveSkip(i) ==
    LET old    == reserves[i]
        others == ById({r \in Rows : /\ old.programId # None /\ r.programId = old.programId
                                     /\ r.id # i /\ IsRuleProgram(r) /\ r.isSkip})
        olds   == <<old>> \o others
    IN  /\ LockFree
        /\ old.ruleId # None /\ ~old.isEventRelay /\ old.isSkip
        /\ CreateDiff(FindTimeRanges({WindowOf(old)}, FALSE, FALSE, {i}),
                      [k \in DOMAIN olds |-> [olds[k] EXCEPT !.isSkip = FALSE]], olds)
        /\ planned' = FALSE
        /\ UNCHANGED <<inputs, calls, holder, updateTime, fresh>>

\* removeOverlap(i)
RemoveOverlap(i) ==
    LET old == reserves[i]
    IN  /\ LockFree
        /\ old.ruleId # None /\ ~old.isEventRelay
        /\ ~(old.isIgnoreOverlap /\ ~old.isOverlap)
        /\ CreateDiff(FindTimeRanges({WindowOf(old)}, FALSE, FALSE, {i}),
                      <<[old EXCEPT !.isIgnoreOverlap = TRUE, !.isOverlap = FALSE]>>, <<old>>)
        /\ planned' = FALSE
        /\ UNCHANGED <<inputs, calls, holder, updateTime, fresh>>

IsEditableManualReserve(r) ==
    /\ r.ruleId = None
    /\ \/ ~r.isTimeSpecified /\ r.programId # None
       \/ r.isTimeSpecified /\ r.isEventRelay /\ r.programId = None

\* edit(i): the recording options, and with them the age of the row.
Edit(i) ==
    /\ LockFree
    /\ IsEditableManualReserve(reserves[i])
    /\ updateTime <= limit.edits
    /\ reserves' = [reserves EXCEPT ![i].updateTime = updateTime]
    /\ updateTime' = updateTime + 1
    /\ UNCHANGED <<nextReserveId, inputs, calls, holder, history>>

-----------------------------------------------------------------------------
(* cleanup and updateAll, which recompute the conflicts of a whole set. *)

CreateConflictSweepDiff(old, candidates, preserved) ==
    UpdateMany(CreateReservesDiff(old, CreateReserves(candidates) \o preserved))

\* The rows of S and the candidates that a chain of touching windows connects to them.
Connected(S) ==
    LET Grow(T) == T \cup {r \in Rows : IsCandidate(r) /\ InWindow(r, {WindowOf(x) : x \in T})}
        reach[k \in 0 .. Cardinality(Rows)] == IF k = 0 THEN S ELSE Grow(reach[k - 1])
    IN  reach[Cardinality(Rows)]

\* cleanup: rows that are over are deleted.
Cleanup ==
    LET expired == {r \in Rows : r.endAt < now}
        survivors == ById(Connected(expired) \ expired)
    IN  /\ LockFree
        /\ expired # {}
        /\ CreateConflictSweepDiff(ById(expired) \o survivors, survivors, <<>>)
        /\ UNCHANGED <<inputs, calls, holder, updateTime, history>>

\* updateAll, first: the rows that follow a programme, then the rules, by id.
RefreshStart(u) ==
    LET manual == ById({r \in Rows : r.ruleId = None /\ r.programId # None})
        relays == ById({r \in Rows : r.ruleId # None /\ r.isEventRelay})
        known  == Ordered({r \in Rules : rules[r].exists}, LAMBDA a, b : a < b)
    IN  /\ ~refresh[u].running
        /\ refresh' = [refresh EXCEPT ![u] =
               [work |-> [k \in DOMAIN manual |-> <<"update", manual[k].id>>]
                         \o [k \in DOMAIN relays |-> <<"update", relays[k].id>>]
                         \o [k \in DOMAIN known |-> <<"rule", known[k]>>],
                clean |-> TRUE, running |-> TRUE]]
        /\ UNCHANGED <<table, inputs, relay, toUpdate, failed, holder, updateTime, history>>

\* updateAll, item by item.
RefreshRow(u) ==
    /\ LockFree
    /\ refresh[u].work # <<>> /\ Head(refresh[u].work)[1] = "update"
    /\ UpdateTable(Head(refresh[u].work)[2])
    /\ refresh' = [refresh EXCEPT ![u].work = Tail(@)]
    /\ planned' = FALSE
    /\ UNCHANGED <<inputs, relay, toUpdate, failed, holder, updateTime, fresh>>

RefreshRule(u) ==
    /\ refresh[u].work # <<>> /\ Head(refresh[u].work)[1] = "rule"
    /\ UpdateRuleRead(Head(refresh[u].work)[2])
    /\ refresh' = [refresh EXCEPT ![u].work = Tail(@)]
    /\ UNCHANGED <<table, inputs, relay, toUpdate, updateTime, history>>

\* An item that fails is logged and passed over.
RefreshItemFails(u) ==
    /\ limit.fail
    /\ refresh[u].work # <<>>
    /\ refresh' = [refresh EXCEPT ![u].work = Tail(@), ![u].clean = FALSE]
    /\ UNCHANGED <<table, inputs, relay, toUpdate, failed, holder, updateTime, history>>

\* updateAll, last: the conflicts of all rows are recomputed at once.
RefreshSweep(u) ==
    LET all == ById(Rows)
    IN  /\ LockFree
        /\ refresh[u].running /\ refresh[u].work = <<>>
        /\ CreateConflictSweepDiff(all, SelectSeq(all, IsCandidate),
                                   SelectSeq(all, LAMBDA r : ~IsCandidate(r)))
        /\ refresh' = [refresh EXCEPT ![u] = Idle]
        /\ planned' = TRUE
        /\ fresh' = refresh[u].clean
        /\ UNCHANGED <<inputs, relay, toUpdate, failed, holder, updateTime>>

-----------------------------------------------------------------------------
(* The inputs. *)

\* The EPG updater stores programme p at another time (k) or drops it (k = 0).
EpgChange(p, k) ==
    LET slot == EpgSlots[p][k]
    IN  /\ p \in limit.programs /\ budget.epg < limit.epg
        /\ k = 0 => IsListed(p)
        /\ k # 0 => ~IsListed(p) \/ WindowOf(programs[p]) # slot
        /\ programs' = [programs EXCEPT ![p] =
               IF k = 0 THEN [@ EXCEPT !.updateTime = None]
               ELSE [startAt |-> slot.startAt, endAt |-> slot.endAt,
                     updateTime |-> budget.epg + 2]]
        /\ budget' = [budget EXCEPT !.epg = @ + 1]
        /\ refresh' = [u \in Refreshers |-> [refresh[u] EXCEPT !.clean = FALSE]]
        /\ fresh' = FALSE
        /\ UNCHANGED <<table, rules, recorded, now, relay, toUpdate, failed, holder, updateTime, planned>>

\* The recording of row i ends: rules that avoid duplicates see the programme from
\* now on, and the rule of the row is updated for it (a manual row is cancelled).
Recorded(i) ==
    LET r == reserves[i]
    IN  /\ IsNormal(r) /\ r.programId \notin recorded \cup {None} /\ r.startAt <= now
        /\ recorded' = recorded \cup {r.programId}
        /\ toUpdate' = IF r.ruleId # None /\ ~r.isEventRelay
                         THEN toUpdate \cup {r.ruleId} ELSE toUpdate
        /\ UNCHANGED <<table, programs, rules, now, budget, refresh, relay, failed, holder,
                       updateTime, history>>

\* RuleManageModel: the rule is stored and updateRule is called for the event.
RuleChange(r, rule) ==
    /\ r \in limit.rules /\ budget.rule < limit.rule
    /\ rules' = [rules EXCEPT ![r] = rule]
    /\ budget' = [budget EXCEPT !.rule = @ + 1]
    /\ toUpdate' = toUpdate \cup {r}
    /\ UNCHANGED <<table, programs, recorded, now, refresh, relay, failed, holder, updateTime, history>>

\* Rule ids are not used again after a deletion (updateCnt stays).
RuleAdd(r) ==
    /\ ~rules[r].exists /\ rules[r].updateCnt = 0
    /\ \A s \in Rules : s < r => rules[s].exists \/ rules[s].updateCnt > 0
    /\ RuleChange(r, [exists |-> TRUE, enable |-> TRUE, updateCnt |-> 0])
RuleUpdate(r, enabled) ==
    /\ rules[r].exists
    /\ RuleChange(r, [rules[r] EXCEPT !.enable = enabled, !.updateCnt = @ + 1])

\* enable and disable leave a rule alone that is in that state already, and a rule
\* that is not there can be deleted; the event is sent all the same.
RuleSetEnable(r, enabled) ==
    /\ rules[r].exists
    /\ RuleChange(r, IF rules[r].enable = enabled THEN rules[r]
                     ELSE [rules[r] EXCEPT !.enable = enabled, !.updateCnt = @ + 1])
RuleEnable(r) == RuleSetEnable(r, TRUE)
RuleDisable(r) == RuleSetEnable(r, FALSE)
RuleDelete(r) ==
    RuleChange(r, IF ~rules[r].exists THEN rules[r]
                  ELSE [exists |-> FALSE, enable |-> FALSE, updateCnt |-> rules[r].updateCnt + 1])

Tick ==
    /\ now < limit.time
    /\ now' = now + 1
    /\ UNCHANGED <<table, programs, rules, recorded, budget, calls, holder, updateTime, history>>

UserStep ==
    \/ \E p \in Programs : AddProgram(p)
    \/ \E t \in TimeSlots : AddTimeSpecified(t)
    \/ \E i \in DOMAIN reserves : Cancel(i) \/ RemoveSkip(i) \/ RemoveOverlap(i) \/ Edit(i)
    \/ \E r \in Rules : \/ RuleAdd(r) \/ RuleEnable(r) \/ RuleDisable(r) \/ RuleDelete(r)
                        \/ \E e \in BOOLEAN : RuleUpdate(r, e)

ServerStep ==
    \/ \E c \in RelayCalls : \/ \E p \in RelayTargets \cap limit.programs, i \in DOMAIN reserves : EventRelayCheck(c, p, i)
                             \/ EventRelayInsert(c) \/ EventRelayRefused(c)
    \/ \E r \in Rules : UpdateRule(r) \/ UpdateRuleFails(r)
    \/ UpdateRuleWrite \/ UpdateRuleAborts
    \/ Cleanup
    \/ \E u \in Refreshers : \/ RefreshStart(u) \/ RefreshRow(u) \/ RefreshRule(u)
                             \/ RefreshItemFails(u) \/ RefreshSweep(u)

WorldStep ==
    \/ \E i \in DOMAIN reserves : Recorded(i)
    \/ \E p \in Programs : \E k \in 0 .. Len(EpgSlots[p]) : EpgChange(p, k)
    \/ Tick

Next == UserStep \/ ServerStep \/ WorldStep
Spec == Init /\ [][Next]_vars
-----------------------------------------------------------------------------
(* Properties. *)

NormalRows == {r \in Rows : IsNormal(r)}

\* The plan can be recorded: after the sweep of updateAll the rows without a
\* conflict fit on the tuners at every instant, with rows of one physical channel on one
\* tuner, and adding, relaying, editing and cleaning up, which look at a part of the table
\* only, keep it so.
PlanFits == planned => Fits(NormalRows)

\* The user's skip is per programme: once updateAll has seen the current guide and
\* every changed rule was processed, no rule plans a programme that is skipped.
SkipIsPerProgram ==
    fresh /\ toUpdate = {} /\ failed = {} /\ LockFree =>
        \A r, s \in {x \in Rows : IsRuleProgram(x)} :
            r.programId = s.programId /\ r.isSkip => ~IsCandidate(s)

\* Rules that match the same programme record it once: when the guide and the rules
\* have been processed, at most one rule has a row without a warning for it, whatever
\* skips and overlaps were set and lifted.
OneRulePlansProgram ==
    planned /\ fresh /\ toUpdate = {} /\ failed = {} /\ LockFree =>
        \A r, s \in {x \in NormalRows : IsRuleProgram(x)} :
            r.programId = s.programId => r = s

\* No rule's row outlives its rule: once the calls for rule changes are through,
\* however they interleave with updateAll, only live rules have rows, and rules whose
\* last call failed: that call is logged and not made again.
NoOrphanRows ==
    toUpdate = {} /\ LockFree =>
        \A r \in Rows : r.ruleId # None /\ ~r.isEventRelay /\ r.ruleId \notin failed =>
            rules[r.ruleId].exists /\ rules[r.ruleId].enable

\* A manual row goes away only when it is cancelled or over, and never becomes the
\* row of a rule, whatever happens to other rows of the programme or the time.
ManualRowsKept ==
    [][\A i \in DOMAIN reserves : IsManual(reserves[i]) =>
          \/ i \in DOMAIN reserves' /\ IsManual(reserves'[i])
          \/ i \notin DOMAIN reserves' /\ (Cancel(i) \/ Cleanup)]_vars

\* What the user decided about a rule's programme survives every refresh: a row
\* that is skipped, or whose overlap was lifted, keeps that state while it exists
\* unless the user changes it.
DecisionsKept ==
    [][\A i \in DOMAIN reserves \cap DOMAIN reserves' :
          LET old == reserves[i]
              new == reserves'[i]
          IN  /\ old.isSkip /\ ~new.isSkip => \E j \in DOMAIN reserves : RemoveSkip(j)
              /\ old.isIgnoreOverlap /\ ~old.isOverlap /\ new.isOverlap => Cancel(i)]_vars
=============================================================================
