SPECIFICATION Spec
CONSTANTS
  ChunkSize = 3
  BufSize = 2
  BodySize = 5
  MaxPolls = 2
  MaxCalls = 2
  ResetDropsData = FALSE
INVARIANT ReadsItAll
