------------------------- MODULE MCRecordingSession -------------------------
(* One recorder with a drop checker; three disturbances let an update, a      *)
(* cancel or a deletion meet a failure in every step of a registration.        *)
EXTENDS RecordingSession
=============================================================================
