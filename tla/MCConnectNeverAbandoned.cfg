\* try_connect fails at once and arms no reconnect timer.
CONSTANTS
  Eph = Eph
  None = None
  Nodes = {"n1", "n2"}
  Commands <- MCCommands
  MaxEntries = 3
  MaxConns = 3
  MaxLinkFailures = 1
SPECIFICATION Spec
CHECK_DEADLOCK FALSE
INVARIANT NeverAbandoned
