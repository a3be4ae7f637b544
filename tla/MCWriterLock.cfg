SPECIFICATION LockFairSpec
CONSTANTS
  a1 = a1
  a2 = a2
  b = b
  c = c
  Procs = {a1, a2, b}
  Family <- MCFamily
  RECLAIM_RETRY = 2
  NoFile = NoFile
INVARIANTS
  HolderIsReal
  SettledHolderKeeps
PROPERTIES
  DeadHolderReclaimed
CHECK_DEADLOCK FALSE
