SPECIFICATION FairAgentSpec
CONSTANTS
  DefaultIterations = 3
  IterationsCap = 4
  MaxTotalFailures = 3
  MaxCalls = 6
  Requested <- SomeRequests
INVARIANTS GraphTypeOK LimitNeverReached WorkBelowLimits FailuresBounded LoopBounded
INVARIANTS MessagesTypeOK AnswersFollowCalls ResultsObserved
PROPERTIES GraphEnds
CHECK_DEADLOCK FALSE
