--------------------------- MODULE MCEncodeQueue ---------------------------
(* A user's request that removes the file it converts, and a request of a      *)
(* finished recording for the same file.                                       *)
EXTENDS EncodeQueue

CONSTANTS r1, r2

MCSourceOf == r1 :> "a" @@ r2 :> "a"
Disturbance(fault, list, crash, suspend, starts) ==
    [fault |-> fault, list |-> list, crash |-> crash, suspend |-> suspend, starts |-> starts]
MCDisturbances == {Disturbance(1, 0, 1, 0, 3), Disturbance(0, 0, 1, 1, 3),
                   Disturbance(0, 1, 0, 0, 2)}
=============================================================================
