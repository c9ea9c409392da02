SPECIFICATION FairSpec
CONSTANTS
  Runs = {r1, r2, r3}
  Cancels = {}
  Emitters = {r1, r2, r3}
  Api = api
  Processes = {r1, r2, r3, api}
  WorkKinds = {"think"}
  MaxSteps = 3
  Faults = {"broker", "unhealthy", "agent"}
INVARIANTS SandboxReclaimed
PROPERTIES FollowsLifecycle TaskSettles
CHECK_DEADLOCK FALSE
