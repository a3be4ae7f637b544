SPECIFICATION Spec
CONSTANTS
  t1 = t1
  t2 = t2
  w1 = w1
  Lanes <- SmallLanes
  Klass <- MCKlass
  EstimateGb <- MCEstimateGb
  Leased <- SmallLeased
  Spawning <- MCSpawning
  LateKeys <- MCLateKeys
  KillTimed <- MCKillTimed
  Waiters <- MCWaiters
  QueueLane = "clustering"
  BULK_MAX = 2
  AGING_THRESHOLD = 2
  RESIDENT_QUEUE_MAX = 4
  Budgets = {2, 4}
  COLD_BUDGET_GB = 3
  Pressures = {"ok", "warn", "critical"}
  Tickets = {t1, t2}
  StackDepth = 3
  NoLane = NoLane
  NoWaiter = NoWaiter
INVARIANTS
  OneWakePerTurn
