\* Bound ports created and destroyed until the free-map scan is used.
CONSTANTS
  Receivers = {r1}
  Senders = {s1}
  Nodes = {n1, n2}
  Nil = Nil
  MaxArrivals = 4
  MaxPorts = 3
  CreateFirst = FALSE
SPECIFICATION Spec
CHECK_DEADLOCK FALSE
INVARIANT PortsConserved
