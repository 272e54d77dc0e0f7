SPECIFICATION Spec

CONSTANTS
  NR_TASKS = 4
  INITIAL_QUANTUM = 2
  NR_IORBS = 2
  INT_MAX = 2
  MaxPID = 4
  TOTAL_PAGES = 9
  NUM_PAG_KERNEL = 1
  NUM_PAG_CODE = 1
  NUM_PAG_DATA = 1
  ReadTicks <- MCReadTicks
  Policies <- MCPolicies
  Values = {0}

INVARIANTS
  TypeOK
  QueueIntegrity
  ReadersMatchPending
  Resumable
  ContextMatches
  LookupFindsLive
  DeadTasksHaveNoPID
  FramesSuffice
  QuantumBounded
