SPECIFICATION FairSpec
CONSTANTS
  m1 = m1
  Dms = {m1}
  From <- MCOne
  PULL_WINDOW = 1
  OUTBOX_MAX_ATTEMPTS = 1
  MaxMail = 2
  MaxRows = 1
  MaxFaults = 1
  MaxBreaks = 0
PROPERTIES
  MailIsKept
  RetriesEnd
CHECK_DEADLOCK FALSE
