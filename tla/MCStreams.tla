------------------------------ MODULE MCStreams ------------------------------
(* Two streams.  With no files left over each finds an id of its own; with the  *)
(* id 1 taken by old files the second one gets the id of the first one.         *)
EXTENDS Streams

MCLeftovers == {{}, {1}}
=============================================================================
