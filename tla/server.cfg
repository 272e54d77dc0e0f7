SPECIFICATION FairSpec

CONSTANTS
  Clients = {c1, c2, c3}
  Schemes <- AllSchemes
  MAX_CLIENTS = 1
  c1 = c1
  NUM_IT <- Rounds
  HOLA = 2
  CARACOLA = 1
  SIZE_BUFF = 3
  LINE = 2
  BACKLOG = 2
  MaxFD = 3
  MaxWorkers = 2

INVARIANTS
  TypeOK
  CountNeverLow
  SchemeBound
  OverrunNeedsSplit

PROPERTIES
  AllServed

CHECK_DEADLOCK FALSE
