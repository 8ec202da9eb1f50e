CONSTANTS
  T1 = T1
  T2 = T2
  Empty = ""
  NoRequest = NoRequest
  Threads <- MCThreads
  Params <- MCParams
  Types <- MCTypes
  Paths <- MCPaths
  Requests <- MCRequests
  MaxRoutes = 1
SPECIFICATION Spec
INVARIANT QueryByKey
