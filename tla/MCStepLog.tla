------------------------------ MODULE MCStepLog ------------------------------
(* Model checking StepLog on a few emitters and a bounded log. *)
EXTENDS StepLog

CONSTANTS
  MaxSteps,        \* bound: no emit starts once the log holds this many steps
  Kinds            \* bound: the step types emitted, a subset of StepTypes

BoundedNext ==
  \E e \in Emitters :
    \/ /\ Cardinality(rows) < MaxSteps
       /\ \E type \in Kinds : EmitCall(e, type, SseTypeOf(type))
    \/ EmitStep(e)
    \/ EmitReturn(e)
    \/ EmitterDies(e)

FairSpec == LogInit /\ [][BoundedNext]_logVars /\ LogFairness
=============================================================================
