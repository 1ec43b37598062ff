\* The port is created while datagrams arrive and a receiver looks it up.
CONSTANTS
  Receivers = {r1}
  Senders = {s1}
  Nodes = {n1, n2}
  Nil = Nil
  MaxArrivals = 4
  MaxPorts = 3
  CreateFirst = TRUE
SPECIFICATION Spec
CHECK_DEADLOCK FALSE
INVARIANT NoUninitAccess
