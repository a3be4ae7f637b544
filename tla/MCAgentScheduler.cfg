SPECIFICATION FairSpec
CONSTANTS
  reminder = reminder
  cycle = cycle
  Tasks <- MCTasks
  Once <- MCOnce
  ToPerson <- MCTasks
  Essential <- MCEssential
  MAX_RETRIES = 1
  MaxAsks = 2
  MaxFaults = 1
INVARIANTS
  AgentInv
  NeverTalksOver
PROPERTIES
  TasksConclude
  OneTurnPerFire
