------------------------ MODULE MCExecutionCoordinator ------------------------
(***************************************************************************)
(* Model checking of ExecutionCoordinator.  As many entries as tasks are   *)
(* enough: a task refers to at most one entry, and a key of the map whose  *)
(* entry nobody refers to any more does not outlive its destructor.        *)
(***************************************************************************)
EXTENDS ExecutionCoordinator
=============================================================================
