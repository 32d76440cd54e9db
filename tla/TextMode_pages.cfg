CONSTANTS
  COLUMN_COUNT = 4
  ROW_COUNT = 7
  Free = FALSE
  Colors = {3}
  Configs <- Main
  CLEAR_END = 3
  BUTTON_ROW = 4
  BUTTON_LINES = 2
SPECIFICATION FairSpec
INVARIANT PageComplete
PROPERTY CallsReturn
