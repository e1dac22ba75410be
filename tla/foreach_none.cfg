\* A call without arguments
CONSTANTS
  Blank = Blank
  Calls <- MCNone
SPECIFICATION Spec
INVARIANT EachOnce
CHECK_DEADLOCK FALSE
