SPECIFICATION FairSpec
CONSTANTS
  t1 = t1
  t2 = t2
  w1 = w1
  Lanes <- MCLanes
  Klass <- MCKlass
  EstimateGb <- MCEstimateGb
  Leased <- MCLeased
  Spawning <- MCSpawning
  LateKeys <- MCLateKeys
  KillTimed <- MCKillTimed
  Waiters <- MCWaiters
  QueueLane = "clustering"
  BULK_MAX = 2
  AGING_THRESHOLD = 1
  RESIDENT_QUEUE_MAX = 4
  Budgets = {4}
  COLD_BUDGET_GB = 3
  Pressures = {"ok", "warn", "critical"}
  Tickets = {t1, t2}
  StackDepth = 2
  NoLane = NoLane
  NoWaiter = NoWaiter
INVARIANTS
  SlotBound
  RunningChildKeepsTicket
  DoubleUseOnlyAfterReclaim
  NoLostWakeup
PROPERTIES
  GrantsFitMemory
  TicketsReturn
  QueuedWaiterRuns
