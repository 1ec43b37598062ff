\* One receiver and one sender on a port created while datagrams arrive;
\* every thread weakly fair, the network not.
CONSTANTS
  Receivers = {r1}
  Senders = {s1}
  Nodes = {n1, n2}
  Nil = Nil
  MaxArrivals = 3
  MaxPorts = 2
  CreateFirst = TRUE
SPECIFICATION FairSpec
CHECK_DEADLOCK FALSE
PROPERTY DatagramReceived
