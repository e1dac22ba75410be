SPECIFICATION Spec
CONSTANTS
  Type <- MCTypes
  IntType <- Int2
  SizeType <- Size3
  MaxLine = 2
INVARIANTS
  TypeOK
  Agree
  IndexInBounds
  Report
CHECK_DEADLOCK FALSE
