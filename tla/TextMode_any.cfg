CONSTANTS
  COLUMN_COUNT = 2
  ROW_COUNT = 3
  Free = TRUE
  Colors = {3}
  Configs <- AnyScroll
  CLEAR_END = 3
  BUTTON_ROW = 4
  BUTTON_LINES = 2
SPECIFICATION Spec
INVARIANT TypeOK
INVARIANT ShowsTerminal
