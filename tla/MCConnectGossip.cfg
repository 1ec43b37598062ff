\* Two nodes connect to each other; every gossip either sends is checked.
CONSTANTS
  Eph = Eph
  None = None
  Nodes = {"n1", "n2"}
  Commands <- MCCommands
  MaxEntries = 3
  MaxConns = 3
  MaxLinkFailures = 1
SPECIFICATION Spec
CHECK_DEADLOCK FALSE
INVARIANT GossipListsListeners
