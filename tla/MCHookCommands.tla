--------------------------- MODULE MCHookCommands ---------------------------
(* One reservation with its three commands, and room for one that waits: some *)
(* commands are dropped, others wait behind one that hangs.                   *)
EXTENDS HookCommands
=============================================================================
