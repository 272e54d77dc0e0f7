SPECIFICATION Spec

CONSTANTS
  Procs = {p1, p2}
  InitTask = p1
  Idle = idle
  MaxTime = 1
  ULONG_MAX = 2

INVARIANTS
  TypeOK
  AccountedOnce
  UserTimeIsOwnTime
  DispatchesCounted

PROPERTIES
  CountersOnlyGrow
