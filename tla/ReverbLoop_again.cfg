CONSTANTS
  FIR_SIZE <- MCFirSize
  HEADER_BLOCK_SIZE <- MCHeaderBlockSize
  HEADER_BLOCK_NUM <- MCHeaderBlockNum
  BODY_BLOCK_SIZE <- MCBodyBlockSize
  BODY_BLOCK_NUM <- MCBodyBlockNum
  FileSizes <- MCLongFile
  MaxRuns = 2
SPECIFICATION FairSpec
PROPERTY SecondTestReturns
CHECK_DEADLOCK FALSE
