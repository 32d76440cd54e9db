CONSTANTS
  FIR_SIZE <- MCFirSize
  HEADER_BLOCK_SIZE <- MCHeaderBlockSize
  HEADER_BLOCK_NUM <- MCHeaderBlockNum
  BODY_BLOCK_SIZE <- MCBodyBlockSize
  BODY_BLOCK_NUM <- MCBodyBlockNum
  FileSizes <- MCLongFile
  MaxRuns = 1
SPECIFICATION Spec
INVARIANT BodyReachesOutput
CHECK_DEADLOCK FALSE
