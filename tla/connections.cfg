SPECIFICATION FairSpec
CONSTANTS
  c1 = c1
  c2 = c2
  Client = {c1, c2}
  Requests <- MCRequests
  Deployments <- MCDeployments
  Resolved <- Names
  Shutdowns = {"interrupt", "stop"}
INVARIANTS TypeOK TasksAreRunning  DropsAreCounted FlaggedIsIsolated
PROPERTIES GracefulShutdown StopEnds 
CHECK_DEADLOCK FALSE
