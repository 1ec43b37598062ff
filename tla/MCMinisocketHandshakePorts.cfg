\* The bounds of MCMinisocketHandshake.cfg; OpenBound is violated.
CONSTANTS
  Clients = {c1, c2}
  SrvPort = 0
  MinClient = 1
  MaxClient = 2
  MaxAttempts = 1
  MaxRounds = 2
  MaxQueue = 2
  Loss = TRUE
SPECIFICATION Spec
INVARIANT OpenBound
CHECK_DEADLOCK FALSE
