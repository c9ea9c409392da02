SPECIFICATION FairStreamSpec
CONSTANTS
  Runs = {r1}
  Cancels = {}
  Emitters = {r1}
  Api = api
  Processes = {r1, api}
  WorkKinds = {"plan_update"}
  MaxSteps = 3
  MaxConnections = 2
  Faults = {"agent", "memory"}
INVARIANTS StreamTypeOK ReceivedInOrder
PROPERTIES SubscribedClientEnds
CHECK_DEADLOCK FALSE
