SPECIFICATION JobsSpec
CONSTANTS
  t1 = t1
  t2 = t2
  j1 = j1
  j2 = j2
  d1 = d1
  Lanes <- MCLanes
  Klass <- MCKlass
  EstimateGb <- MCEstimateGb
  Leased <- MCLanes
  Spawning <- MCLanes
  LateKeys <- MCLateKeys
  KillTimed <- MCKillTimed
  Waiters = {j1, j2}
  QueueLane = "clustering"
  BULK_MAX = 2
  AGING_THRESHOLD = 1
  RESIDENT_QUEUE_MAX = 4
  Budgets = {8}
  COLD_BUDGET_GB = 8
  Pressures = {"ok", "critical"}
  Tickets = {t1, t2}
  StackDepth = 2
  NoLane = NoLane
  NoWaiter = NoWaiter
  MeasureLane = "measure"
  DescribeLane = "describe-chronicles"
  JOBS_HIGH = 0
  JOBS_LOW = 0
  Deletes = {d1}
  NoTicket = NoTicket
  NoDelete = NoDelete
INVARIANTS
  DeleteExcludesPipeline
