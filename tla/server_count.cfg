SPECIFICATION Spec

CONSTANTS
  Clients = {c1, c2, c3}
  Schemes <- OnlyBounded
  MAX_CLIENTS = 3
  c1 = c1
  NUM_IT <- OneRound
  HOLA = 1
  CARACOLA = 1
  SIZE_BUFF = 2
  LINE = 1
  BACKLOG = 2
  MaxFD = 4
  MaxWorkers = 4

INVARIANTS
  CountExact

CHECK_DEADLOCK FALSE
