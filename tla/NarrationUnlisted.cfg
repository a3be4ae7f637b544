SPECIFICATION Spec
CONSTANTS
  r1 = r1
  r2 = r2
  Runs = {r1}
  NumItems = 3
  MaxFaults = 2
INVARIANTS
  DoneDidSomething
CHECK_DEADLOCK FALSE
