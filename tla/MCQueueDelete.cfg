\* queue_delete of a node behind the front, as deregister_alarm may do.
CONSTANTS
  Nodes = {n1, n2, n3}
  Nil = Nil
  Items = {a, b}
  Prios = {0, 1}
  DeleteAnywhere = TRUE
SPECIFICATION Spec
PROPERTY QueueRefinement
