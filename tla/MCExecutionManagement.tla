----------------------- MODULE MCExecutionManagement -----------------------
(* TLC instances of ExecutionManagement. *)
EXTENDS ExecutionManagement
=============================================================================
