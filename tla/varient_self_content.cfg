SPECIFICATION Spec
CONSTANTS
  NULL = NULL
  Foo = Foo
  Bar = Bar
  x = x
  Class = {Foo, Bar}
  Ext = {x}
  ClassOf <- MCClassOf
  TypeId <- MCDistinct
  Checked = TRUE
  Slot = {v1, v2}
  Obj = {o1, o2}
  Content = {k1, k2}
  SelfAssign = TRUE
  MaxThrows = 0
SYMMETRY Interchangeable
INVARIANTS
  CopySource
