SPECIFICATION StreamSpec
CONSTANTS
  Runs = {r1}
  Cancels = {}
  Emitters = {r1}
  Api = api
  Processes = {r1, api}
  WorkKinds = {"think"}
  MaxSteps = 3
  MaxConnections = 1
  Faults = {}
INVARIANTS NoEventMissed
CHECK_DEADLOCK FALSE
