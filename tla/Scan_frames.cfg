CONSTANTS
  COLUMN_COUNT = 2
  ROW_COUNT = 2
  CHAR_HEIGHT = 2
  HSBP_CHARS = 1
  HSFP_CHARS = 1
  VERTICAL_BACK_PORCH = 1
  VERTICAL_FRONT_PORCH = 1
  CNT_MAX = 18
  Cells <- MCCells
  Contents <- Distinct
  New = n
  MaxChanges = 2
  a = a
  b = b
  c = c
  d = d
SPECIFICATION FairSpec
INVARIANT TypeOK
INVARIANT ShowsScreen
INVARIANT SettledCursor
PROPERTY CursorBlinks
