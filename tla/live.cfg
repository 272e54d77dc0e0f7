SPECIFICATION FairSpec

CONSTANTS
  NR_TASKS = 4
  INITIAL_QUANTUM = 2
  NR_IORBS = 2
  INT_MAX = 2
  MaxPID = 3
  TOTAL_PAGES = 9
  NUM_PAG_KERNEL = 1
  NUM_PAG_CODE = 1
  NUM_PAG_DATA = 1
  ReadTicks = {0, 2}
  Policies = {0}
  Values = {0}

PROPERTIES
  RoundRobinServesAll
  ReadersWakeUp
