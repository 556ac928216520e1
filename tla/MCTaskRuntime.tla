--------------------------- MODULE MCTaskRuntime ---------------------------
(* Instances of TaskRuntime for TLC.                                       *)
EXTENDS TaskRuntime, TLC

\* The planner's ids are interchangeable.
Interchangeable == Permutations(StepIds)

=============================================================================
