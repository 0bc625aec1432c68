SPECIFICATION FairElection
CONSTANTS
  Node = {n1}
  Nobody = Nobody
  Lease = 5
  Pause = 2
  Round = 1
  MaxFaults = 1
PROPERTIES LeaderInTheEnd
CHECK_DEADLOCK FALSE
