\* Server port 1 and a single client port 2; ClientPortsInRange is violated.
CONSTANTS
  Clients = {c1, c2}
  SrvPort = 1
  MinClient = 2
  MaxClient = 2
  MaxAttempts = 1
  MaxRounds = 2
  MaxQueue = 2
  Loss = TRUE
SPECIFICATION Spec
INVARIANT ClientPortsInRange
CHECK_DEADLOCK FALSE
