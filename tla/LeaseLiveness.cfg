SPECIFICATION FairSpec
CONSTANTS
  f1 = f1
  f2 = f2
  g1 = g1
  fc = fc
  tool = tool
  other = other
  Procs = {f1, f2, fc, other}
  Kind <- MCKind
  Family <- MCFamily
  Files = {}
  CLAIM_RETRIES = 1
  MaxCrashes = 1
  NoProc = NoProc
  NoName = NoName
PROPERTIES
  OwnerlessHeals
INVARIANTS
  ChildNeverOwns
  OwnerNotMisnamed
