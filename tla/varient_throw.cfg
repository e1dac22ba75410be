SPECIFICATION Spec
CONSTANTS
  NULL = NULL
  Foo = Foo
  Bar = Bar
  x = x
  Class = {Foo, Bar}
  Ext = {x}
  ClassOf <- MCClassOf
  TypeId <- MCCollide
  Checked = TRUE
  Slot = {v1, v2, v3}
  Obj = {o1, o2, o3}
  Content = {k1, k2}
  SelfAssign = TRUE
  MaxThrows = 1
SYMMETRY Interchangeable
INVARIANTS
  OwnedIsLive
  NoLeak
  LivingCount
  ConstSafe
