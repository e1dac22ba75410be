SPECIFICATION FairSpec
CONSTANTS
  NULL = NULL
  Foo = Foo
  Bar = Bar
  x = x
  Class = {Foo, Bar}
  Ext = {x}
  ClassOf <- MCClassOf
  TypeId <- MCDistinct
  Checked = TRUE
  Slot = {v1, v2, v3}
  Obj = {o1, o2, o3}
  Content = {k1, k2}
  SelfAssign = FALSE
  MaxThrows = 0
INVARIANTS
  TypeOK
  OwnedIsLive
  DisjointClaims
  NoLeak
  CopySource
  LivingCount
  TypedAccess
  IsExact
PROPERTIES
  BoxSpec
  OpsReturn
