SPECIFICATION FairSpec

CONSTANTS
  NUM_COLUMNS = 4
  NUM_ROWS = 2
  FIRST_ROW = 1
  MAX_WRITE = 2
  Chars = {"C", "a"}
  NL = "nl"
  ClockCells <- MCClockCells
  Numbers <- MCNumbers
  MaxBuffer = 5
  MaxText = 5

INVARIANTS
  TypeOK
  WriteAllOrNothing
  LineShowsText

PROPERTIES
  CallsReturn
