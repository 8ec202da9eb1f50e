SPECIFICATION FairSpec
CONSTANTS
  ChunkSize = 3
  BufSize = 2
  BodySize = 7
  MaxPolls = 2
  MaxCalls = 2
  ResetDropsData = TRUE
INVARIANT TypeOK
INVARIANT NeverBlocks
INVARIANT NoGarbage
INVARIANT ReadsWhatArrived
PROPERTY ReadReturns
