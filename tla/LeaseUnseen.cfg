SPECIFICATION Spec
CONSTANTS
  f1 = f1
  f2 = f2
  g1 = g1
  fc = fc
  tool = tool
  other = other
  Procs = {f1, tool}
  Kind <- MCKind
  Family <- MCFamily
  Files = {n1, n2}
  CLAIM_RETRIES = 1
  MaxCrashes = 0
  NoProc = NoProc
  NoName = NoName
INVARIANTS
  UsersAreSeen
