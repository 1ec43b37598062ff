\* Two receivers on the same port: their unmasked dequeues interleave.
CONSTANTS
  Receivers = {r1, r2}
  Senders = {s1}
  Nodes = {n1, n2}
  Nil = Nil
  MaxArrivals = 4
  MaxPorts = 3
  CreateFirst = FALSE
SPECIFICATION Spec
CHECK_DEADLOCK FALSE
INVARIANT DequeueOnce
