SPECIFICATION Spec
CONSTANTS
  lib = lib
  u = u
  w = w
  Unit = {lib, u, w}
  Library = {lib}
  Machine <- Machines
  Options <- MCOptions
  Line <- Lines
  MaxLine = 3
SYMMETRY Interchangeable
INVARIANTS
  TypeOK
  OneVarient
  Linked
  Graded
CHECK_DEADLOCK FALSE
