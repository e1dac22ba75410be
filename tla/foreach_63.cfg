\* A call with 63 arguments
CONSTANTS
  Blank = Blank
  Calls <- MCSixtyThree
SPECIFICATION Spec
INVARIANT Counted
CHECK_DEADLOCK FALSE
