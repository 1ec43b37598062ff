\* The list operations as the alarm queue uses them: delete at the front.
CONSTANTS
  Nodes = {n1, n2, n3}
  Nil = Nil
  Items = {a, b}
  Prios = {0, 1}
  DeleteAnywhere = FALSE
SPECIFICATION Spec
INVARIANT TypeOK
INVARIANT WellFormed
PROPERTY QueueRefinement
