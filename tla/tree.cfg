SPECIFICATION FairSpec
CONSTANTS
  NULL = NULL
  Node = Node
  Root = {r1, r2}
  Obj = {o1, o2, o3, o4, o5}
  Related = FALSE
INVARIANTS
  TypeOK
  Rooted
  SourceExists
  MemoryLasts
PROPERTIES
  LowerSpec
  DeepCopy
  CallsShrink
  CallsReturn
