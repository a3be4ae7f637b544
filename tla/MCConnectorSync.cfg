SPECIFICATION FairSpec
CONSTANTS
  MaxAccounts = 1
  MaxGrants = 2
  NumItems = 2
  PAGE_SIZE = 1
  MAX_ITEMS_PER_SYNC = 2
  MAX_BACKOFF_SHIFT = 1
  DailyLimit = 1
  MaxFaults = 1
INVARIANTS
  ConnectorInv
  DisconnectSticks
PROPERTIES
  ItemsArrive
CHECK_DEADLOCK FALSE
