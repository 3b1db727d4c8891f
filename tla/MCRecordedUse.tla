--------------------------- MODULE MCRecordedUse ---------------------------
(* Two leases on recordings, a plain request, and two ids for the three.       *)
EXTENDS RecordedUse, TLC

CONSTANTS a, b, q, r1, r2

MCRecOf == a :> r1 @@ b :> r1 @@ q :> r2
=============================================================================
