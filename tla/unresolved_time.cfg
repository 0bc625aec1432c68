SPECIFICATION Spec
CONSTANTS
  c1 = c1
  c2 = c2
  Client = {c1}
  Requests <- Plain
  Deployments <- NoFeatures
  Resolved = {}
  Shutdowns = {}
INVARIANTS TasksAreRunning
CHECK_DEADLOCK FALSE
