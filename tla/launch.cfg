SPECIFICATION FairSpec

CONSTANTS
  nclients = 5

INVARIANTS
  TypeOK
  CountNeverLow

PROPERTIES
  Ends

CHECK_DEADLOCK FALSE
