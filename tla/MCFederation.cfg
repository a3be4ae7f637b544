SPECIFICATION Spec
CONSTANTS
  m1 = m1
  Dms = {m1}
  From <- MCOne
  PULL_WINDOW = 2
  OUTBOX_MAX_ATTEMPTS = 1
  MaxMail = 2
  MaxRows = 1
  MaxFaults = 1
  MaxBreaks = 1
INVARIANTS
  FederationInv
PROPERTIES
  MailIsKept
  BlockSticks
CHECK_DEADLOCK FALSE
