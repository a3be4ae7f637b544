SPECIFICATION LockSpec
CONSTANTS
  a1 = a1
  a2 = a2
  b = b
  c = c
  Procs = {a1, b}
  Family <- MCFamily
  RECLAIM_RETRY = 2
  NoFile = NoFile
INVARIANTS
  OneHolder
CHECK_DEADLOCK FALSE
