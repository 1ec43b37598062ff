\* Each node drops the duplicate connection the other one kept (get_id).
CONSTANTS
  Eph = Eph
  None = None
  Nodes = {"n1", "n2"}
  Commands <- MCCommands
  MaxEntries = 3
  MaxConns = 3
  MaxLinkFailures = 1
SPECIFICATION Spec
CHECK_DEADLOCK FALSE
INVARIANT DupAgree
