SPECIFICATION Spec
CONSTANTS
  Bit <- Bits
  FullValue <- Given
  Atom <- Atoms3
  Mask <- Masks
  Enumerator <- Enumerators
  Flag = {f1, f2}
INVARIANTS
  TypeOK
  AlwaysWhole
  SetAnswers
  ComplementFits
PROPERTIES
  SetSpec
