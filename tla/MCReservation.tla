--------------------------- MODULE MCReservation ---------------------------
(***************************************************************************)
(* Small guides for Reservation: for the rules, terrestrial services on a   *)
(* physical channel each; for the plan, services that share a channel and   *)
(* compete for two tuners.                                                  *)
(***************************************************************************)
EXTENDS Reservation

Slot(s, e) == [startAt |-> s, endAt |-> e]
TimeSlot(c, s, e) == [channelId |-> c, startAt |-> s, endAt |-> e]

MCTypeOf == [c \in 1 .. 3 |-> "GR"]
MCPhysicalOf == [c \in 1 .. 3 |-> c]
TwoTuners == <<{"GR"}, {"GR", "BS"}>>
NoSlots == {}
NoPrograms == [r \in Rules |-> {}]

OwnServices == [p \in Programs |-> p]

\* Four programmes on three channels for two tuners: 2 and 3 are services of one physical
\* channel, 4 is on a satellite channel, which one of the tuners receives.  1, 2 and 4 want
\* three channels at once; when 1 is over, its tuner takes over 3, alone or with 2.  In the
\* first scenario two rules and one addition compete; in the second a rule for 1 and 3 and
\* two additions; in the third time passes and rows are cleaned up.
SharedTypeOf == [c \in 1 .. 3 |-> IF c = 3 THEN "BS" ELSE "GR"]
SharedPhysicalOf == [s \in 1 .. 4 |-> CASE s = 1 -> 1 [] s \in {2, 3} -> 2 [] OTHER -> 3]
SharedSlots == [p \in Programs |->
    CASE p = 1 -> <<Slot(1, 2)>> [] p \in {2, 4} -> <<Slot(1, 3)>> [] OTHER -> <<Slot(2, 4)>>]
SharedRulePrograms == [r \in Rules |-> IF r = 1 THEN {1, 3} ELSE {2}]
SharedLimits == {
    [programs |-> {1, 2, 4}, rules |-> {1, 2}, epg |-> 0, rule |-> 0, edits |-> 1, time |-> 0, ids |-> 4, fail |-> FALSE],
    [programs |-> 1 .. 4, rules |-> {1}, epg |-> 0, rule |-> 0, edits |-> 2, time |-> 0, ids |-> 4, fail |-> FALSE],
    [programs |-> {1, 2, 4}, rules |-> {1}, epg |-> 0, rule |-> 0, edits |-> 2, time |-> 3, ids |-> 3, fail |-> FALSE]}

\* Rules 1 and 2 want programme 1, which may move.  Rule 3 asks for a time, as a user may
\* do; programme 2, which is on air then and may be moved, does not have its keyword.
RulesSlots == [p \in Programs |-> IF p = 1 THEN <<Slot(0, 1), Slot(2, 3)>> ELSE <<Slot(0, 1), Slot(1, 2)>>]
RulesPrograms == [r \in Rules |-> IF r = 3 THEN {} ELSE {1}]
RulesTimes == [r \in Rules |-> IF r = 3 THEN {TimeSlot(2, 0, 1)} ELSE {}]
RulesSlotsAsked == {TimeSlot(2, 0, 1)}
RulesLimits == {
    [programs |-> {1}, rules |-> {1, 2}, epg |-> 1, rule |-> 2, edits |-> 0, time |-> 1, ids |-> 3, fail |-> FALSE],
    [programs |-> {2}, rules |-> {3}, epg |-> 1, rule |-> 1, edits |-> 1, time |-> 0, ids |-> 2, fail |-> TRUE]}
=============================================================================
