CONSTANTS
  BLOCK_SIZE <- MCBlockSize
  CHUNK_SIZE <- MCChunkSize
  BLOCK_NUM <- MCBlockNum
  Areas <- MCOneArea
  Restarts <- MCEarly
SPECIFICATION FairSpec
INVARIANT TypeOK
INVARIANT OneAccess
INVARIANT CopiesSums
PROPERTY ImplementsBodyCommands
PROPERTY PollEnds
