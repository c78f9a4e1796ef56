----------------------------- MODULE MCExecutor -----------------------------
(***************************************************************************)
(* Executor for TLC.  Producers, controllers and plain callbacks are       *)
(* interchangeable; callbacks that call stop() are not plain ones.         *)
(***************************************************************************)
EXTENDS Executor, TLC

Symmetry ==
    Permutations(Producers) \cup Permutations(Controllers) \cup Permutations(Tasks \ StopTasks)
=============================================================================
