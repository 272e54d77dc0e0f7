SPECIFICATION Spec

CONSTANTS
  NR_TASKS = 4
  INITIAL_QUANTUM = 1
  NR_IORBS = 1
  INT_MAX = 1
  MaxPID = 4
  TOTAL_PAGES = 13
  NUM_PAG_KERNEL = 1
  NUM_PAG_CODE = 1
  NUM_PAG_DATA = 2
  ReadTicks = {1}
  Policies = {0}
  Values = {0}

INVARIANTS
  FrameOwnership

PROPERTIES
  FailedCallsUndone
