SPECIFICATION Spec
CONSTANTS
  Runs = {r1, r2}
  Cancels = {c1}
  Emitters = {r1, r2, c1}
  Api = api
  Processes = {r1, r2, api}
  WorkKinds = {"think"}
  MaxSteps = 0
  Faults = {"store", "crash", "redelivery"}
SYMMETRY Symmetry
INVARIANTS TypeOK AtMostOneAgent ReturnedMeansSettled
PROPERTIES SettledForGood
CHECK_DEADLOCK FALSE
