SPECIFICATION Spec

CONSTANTS
  NR_TASKS = 4
  INITIAL_QUANTUM = 1
  NR_IORBS = 2
  INT_MAX = 1
  MaxPID = 4
  TOTAL_PAGES = 15
  NUM_PAG_KERNEL = 1
  NUM_PAG_CODE = 1
  NUM_PAG_DATA = 2
  ReadTicks = {}
  Policies = {0}
  Values = {0, 1}

PROPERTIES
  Isolation
