SPECIFICATION FairSpec
CONSTANTS
  Emitters = {e1, e2, e3}
  Faults = {"store", "publish", "crash"}
  MaxSteps = 2
  Kinds = {"report"}
INVARIANTS LogTypeOK StepsNumbered PublishedArePersisted PublishedOnceInOrder
PROPERTIES ImplementsStepSequence EmitTerminates
CHECK_DEADLOCK FALSE
