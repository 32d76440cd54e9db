CONSTANTS
  N = 4
  FIFO_DEPTH = 3
  Spare = 1
  Lead = 2
SPECIFICATION FairSpec
INVARIANT TypeOK
INVARIANT ReadsFrame
INVARIANT DirectionHolds
PROPERTY FramesReturn
