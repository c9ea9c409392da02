------------------------------ MODULE MCTaskRun ------------------------------
(* Model checking TaskRun with one or two deliveries and cancel requests. *)
EXTENDS TaskRun, TLC

Symmetry == Permutations(Runs)
=============================================================================
