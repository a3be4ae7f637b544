SPECIFICATION Spec
CONSTANTS
  p1 = p1
  p2 = p2
  p3 = p3
  Procs <- MCProcs
  MaxItems = 2
  Free = Free
INVARIANTS
  CrashLeavesVault
CHECK_DEADLOCK FALSE
