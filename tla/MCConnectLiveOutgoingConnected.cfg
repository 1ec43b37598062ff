\* The defunct-connection branch of hello_received leaves a connecting entry.
CONSTANTS
  Eph = Eph
  None = None
  Nodes = {"n1", "n2"}
  Commands <- MCCommands
  MaxEntries = 3
  MaxConns = 3
  MaxLinkFailures = 1
SPECIFICATION Spec
CHECK_DEADLOCK FALSE
INVARIANT LiveOutgoingConnected
