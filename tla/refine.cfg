SPECIFICATION Spec

CONSTANTS
  NR_TASKS = 4
  INITIAL_QUANTUM = 1
  NR_IORBS = 1
  INT_MAX = 1
  MaxPID = 3
  TOTAL_PAGES = 9
  NUM_PAG_KERNEL = 1
  NUM_PAG_CODE = 1
  NUM_PAG_DATA = 1
  ReadTicks = {1}
  Policies = {0}
  Values = {0, 1}

PROPERTIES
  ImplementsProcess
