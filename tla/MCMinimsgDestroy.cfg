\* The receiver destroys the ready unbound port while datagrams arrive.
CONSTANTS
  Receivers = {r1}
  Senders = {s1}
  Nodes = {n1, n2}
  Nil = Nil
  MaxArrivals = 2
  MaxPorts = 3
  CreateFirst = FALSE
SPECIFICATION Spec
CHECK_DEADLOCK FALSE
INVARIANT NoNullItem
