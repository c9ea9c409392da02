SPECIFICATION Spec
CONSTANTS
  Runs = {r1, r2}
  Cancels = {}
  Emitters = {r1, r2}
  Api = api
  Processes = {r1, r2, api}
  WorkKinds = {"think"}
  MaxSteps = 2
  Faults = {"store", "publish", "memory", "broker", "docker", "unhealthy", "agent", "crash", "redelivery"}
SYMMETRY Symmetry
INVARIANTS OutcomeAnnounced SessionsOwnContainer
PROPERTIES LogSpec SandboxSpec
CHECK_DEADLOCK FALSE
