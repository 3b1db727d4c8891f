------------------------- MODULE MCRecordedContent -------------------------
(* One recording, from its recorder to its deletions: an encoder that replaces   *)
(* the recorded file by its own, and three who delete at any time.               *)
EXTENDS RecordedContent, TLC

CONSTANTS rec1, live, enc, user, one, full, job

MCRecOf == live :> rec1 @@ enc :> rec1
MCRecorded == rec1 :> live
MCKindOf == user :> "user" @@ one :> "video" @@ full :> "storage" @@ job :> "encode"
MCAsked == user :> live @@ one :> enc @@ full :> live @@ job :> live
MCMade == job :> enc
=============================================================================
