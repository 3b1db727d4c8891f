------------------------- MODULE MCRecordingManage -------------------------
(* Small instances of RecordingManage. *)
EXTENDS RecordingManage

Slot(s, e) == [startAt |-> s, endAt |-> e]
MCShortSlots == {Slot(1, 2), Slot(2, 3)}

\* One reservation that is changed and fails more often, or two that meet.
CONSTANTS r1, r2
Limit(rs, m, f) == [reserves |-> rs, mutations |-> m, failures |-> f]
MCLimits == {Limit({r1}, 2, 2), Limit({r1}, 0, 3), Limit({r1, r2}, 1, 0), Limit({r1, r2}, 0, 2)}
=============================================================================
