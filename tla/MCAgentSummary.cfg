SPECIFICATION AgentSpec
CONSTANTS
  DefaultIterations = 3
  IterationsCap = 4
  MaxTotalFailures = 3
  MaxCalls = 2
  Requested <- SomeRequests
PROPERTIES SummaryReplacesOldest
CHECK_DEADLOCK FALSE
