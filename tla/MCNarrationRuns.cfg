SPECIFICATION Spec
CONSTANTS
  r1 = r1
  r2 = r2
  Runs = {r1, r2}
  NumItems = 2
  MaxFaults = 1
INVARIANTS
  NarrationInv
  BadgesAreTrue
  NothingRedone
SYMMETRY MCSymmetry
CONSTRAINT FewListed
CHECK_DEADLOCK FALSE
