SPECIFICATION Spec
CONSTANTS
  Runs = {r1}
  Cancels = {c1}
  Emitters = {r1, c1}
  Api = api
  Processes = {r1, api}
  WorkKinds = {"think"}
  MaxSteps = 2
  Faults = {}
PROPERTIES CancelNeverFromFinished
CHECK_DEADLOCK FALSE
