SPECIFICATION FairSpec
CONSTANTS
  i1 = i1
  N = 3
  Mixes <- MCTriples
  Imports = {i1}
  BATCH = 2
  EMBED_MAX_ATTEMPTS = 2
  LABEL_MAX_ATTEMPTS = 2
  MAX_JUDGED_PER_PASS = 2
  MAX_PASSES = 3
  STALL_BACKOFF_AFTER = 2
  STALL_BACKOFF_MAX_CYCLES = 1
  MaxText = 1
  MaxEvents = 1
INVARIANTS
  OutageCostsOneRow
PROPERTIES
  HeadsDoNotWedge
