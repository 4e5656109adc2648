SPECIFICATION TasksSpec
CONSTANTS
  Clients = {c1, c2, c3}
  Questions = {q1, q2}
  TaskIds <- MCTaskIds
  Queries = {m1}
  MaxUpstreamQueries = 2
  None = None
SYMMETRY ClientSymmetry
INVARIANTS
  TasksInv
PROPERTIES
  ServiceSpec
