SPECIFICATION FairSpec

CONSTANTS
  SECTOR = 4
  PARAGRAPH = 2
  SEGMENT = 4
  SEC_PISTA = 3
  TRACKS = 3
  BUF = 6
  MAIN = 4
  INITSEG = 3
  SYSSIZE = 23
  SysSizes <- MCSysSizes
  UsrSizes <- MCUsrSizes

INVARIANTS
  TypeOK
  LoadedInOrder
  ReadsFit
  BootsectKept
  ProgramsInPlace

PROPERTIES
  Boots

CHECK_DEADLOCK FALSE
