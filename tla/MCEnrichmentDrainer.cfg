SPECIFICATION Spec
CONSTANTS
  i1 = i1
  N = 2
  Mixes <- MCPairs
  Imports = {i1}
  BATCH = 2
  EMBED_MAX_ATTEMPTS = 2
  LABEL_MAX_ATTEMPTS = 2
  MAX_JUDGED_PER_PASS = 2
  MAX_PASSES = 2
  STALL_BACKOFF_AFTER = 2
  STALL_BACKOFF_MAX_CYCLES = 1
  MaxText = 1
  MaxEvents = 3
INVARIANTS
  DrainerInv
PROPERTIES
  AttemptsAreKept
