CONSTANTS
  BLOCK_SIZE <- MCBlockSize
  BLOCK_NUM <- MCBlockNum
  MaxLatency <- MCMaxLatency
SPECIFICATION FairSpec
INVARIANT TypeOK
INVARIANT BusOwner
INVARIANT ReadsSums
PROPERTY ImplementsCommands
PROPERTY PollEnds
