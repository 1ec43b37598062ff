\* One receiver on a ready port and one sender, with the bound port space
\* small enough that the free-map scan is used.
CONSTANTS
  Receivers = {r1}
  Senders = {s1}
  Nodes = {n1, n2}
  Nil = Nil
  MaxArrivals = 4
  MaxPorts = 3
  CreateFirst = TRUE
SPECIFICATION Spec
CHECK_DEADLOCK FALSE
INVARIANT TypeOK
INVARIANT DequeueInOrder
INVARIANT NoAssertFail
INVARIANT PortsUnique
