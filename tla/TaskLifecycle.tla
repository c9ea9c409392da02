---------------------------- MODULE TaskLifecycle ----------------------------
(***************************************************************************)
(* The life of a task as its readers understand TaskStatus: it moves       *)
(* through its stages, back to planning when its message is delivered      *)
(* again, and ends in one of three final states, which it never leaves.    *)
(***************************************************************************)
VARIABLE stage

Final == {"completed", "failed", "cancelled"}

Successors(s) ==
  CASE s = "none"      -> {"submitted"}
    [] s = "submitted" -> {"planning", "cancelled"}
    [] s = "planning"  -> {"running", "failed", "cancelled"}
    [] s = "running"   -> {"completed", "failed", "cancelled", "planning"}
    [] OTHER           -> {}

LifecycleInit == stage = "none"

Advance == stage' \in Successors(stage)

LifecycleSpec == LifecycleInit /\ [][Advance]_stage
=============================================================================
