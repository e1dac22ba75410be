\* Calls within the tables and beyond them, parameters that are several, texts with commas
CONSTANTS
  Blank = Blank
  Calls <- MCCalls
SPECIFICATION Spec
INVARIANTS TypeOK EachOnce Accepted Counted
CHECK_DEADLOCK FALSE
