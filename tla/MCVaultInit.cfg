SPECIFICATION FairSpec
CONSTANTS
  p1 = p1
  p2 = p2
  p3 = p3
  Procs <- MCProcs
  MaxItems = 2
  Free = Free
INVARIANTS
  VaultInv
  OneInitialiser
  NoPlaintextBeside
CONSTRAINT UpToMistake
PROPERTIES
  DeadHolderReplaced
CHECK_DEADLOCK FALSE
