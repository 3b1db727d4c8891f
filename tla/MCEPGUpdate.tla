----------------------------- MODULE MCEPGUpdate -----------------------------
(* Two programmes (or services), one of which begins soon; a feed that may be   *)
(* opened twice; a server of either product.                                    *)
EXTENDS EPGUpdate
=============================================================================
