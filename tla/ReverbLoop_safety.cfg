CONSTANTS
  FIR_SIZE <- MCFirSize
  HEADER_BLOCK_SIZE <- MCHeaderBlockSize
  HEADER_BLOCK_NUM <- MCHeaderBlockNum
  BODY_BLOCK_SIZE <- MCBodyBlockSize
  BODY_BLOCK_NUM <- MCBodyBlockNum
  FileSizes <- MCLongFile
  MaxRuns = 2
SPECIFICATION FairSpec
INVARIANT TypeOK
INVARIANT NewestBlock
INVARIANT CommandsAccepted
INVARIANT BodyOperands
PROPERTY HeaderConvolution
PROPERTY HeaderMacCommands
PROPERTY BodyMacCommands
PROPERTY TestReturns
CHECK_DEADLOCK FALSE
