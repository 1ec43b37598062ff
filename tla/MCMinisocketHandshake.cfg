\* Two clients race for one server on port 0, over a lossy network; client
\* ports 1 .. 2, one SYN/SYNACK attempt per loop, two server rounds.
CONSTANTS
  Clients = {c1, c2}
  SrvPort = 0
  MinClient = 1
  MaxClient = 2
  MaxAttempts = 1
  MaxRounds = 2
  MaxQueue = 2
  Loss = TRUE
SPECIFICATION FairSpec
INVARIANT TypeOK
INVARIANT ServerPeerOpen
PROPERTY ClientReturns
CHECK_DEADLOCK FALSE
