SPECIFICATION FairUserSpec
CONSTANTS
  Tasks = {1, 2, 3}
  Requests = {q1, q2}
  Workers = {w1, w2}
  Limit = 1
  PageSize = 1
  MaxRecent = 1
  Deliveries <- Twice
  Amounts = {1}
  Workloads <- Together
  MaxTasks <- Sizes
INVARIANTS UserTypeOK AdmissionBounded ListComplete UsageBetween RecentBounded
PROPERTIES RoomReturns
CHECK_DEADLOCK FALSE
