---------------------------- MODULE MCThumbnails ----------------------------
(* Requests of one recording, so that they meet under one file name.  The      *)
(* requests are interchangeable.                                               *)
EXTENDS Thumbnails, TLC

Symmetry == Permutations(Requests)
=============================================================================
