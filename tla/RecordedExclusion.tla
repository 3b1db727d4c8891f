------------------------ MODULE RecordedExclusion ------------------------
(***************************************************************************)
(* What the leases on recordings promise: a recording that somebody reads   *)
(* or writes is not being deleted to make room on its storage, and one that *)
(* is being deleted is not taken into use.                                  *)
(***************************************************************************)
CONSTANTS Recs,     \* recordings
          Users     \* whoever may use one: leases, recording sessions, processes

VARIABLES uses,     \* the set of <<user, recording>> in use
          deleting  \* recordings that are being deleted

exclusionVars == <<uses, deleting>>

InUse(rec) == \E u \in Users : <<u, rec>> \in uses

Init == uses = {} /\ deleting = {}

\* Somebody begins to use recordings that are not being deleted, or stops, or hands over.
Use ==
    /\ uses' \in SUBSET (Users \X Recs)
    /\ \A use \in uses' : use[2] \in deleting => use \in uses
    /\ UNCHANGED deleting

StartDeletion(rec) ==
    /\ ~InUse(rec) /\ rec \notin deleting
    /\ deleting' = deleting \cup {rec}
    /\ UNCHANGED uses

EndDeletion(rec) ==
    /\ rec \in deleting
    /\ deleting' = deleting \ {rec}
    /\ UNCHANGED uses

Next == Use \/ \E rec \in Recs : StartDeletion(rec) \/ EndDeletion(rec)

Spec == Init /\ [][Next]_exclusionVars

\* No recording is in use and being deleted.
Exclusion == \A use \in uses : use[2] \notin deleting
=============================================================================
