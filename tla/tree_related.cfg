SPECIFICATION Spec
CONSTANTS
  NULL = NULL
  Node = Node
  Root = {r1, r2}
  Obj = {o1, o2, o3}
  Related = TRUE
SYMMETRY Interchangeable
INVARIANTS
  SourceExists
