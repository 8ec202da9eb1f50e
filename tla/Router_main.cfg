CONSTANTS
  T1 = T1
  T2 = T2
  Empty = ""
  NoRequest = NoRequest
  Threads <- MCThreads
  Params <- MCParams
  Types <- MCTypes
  Paths <- MCPaths
  Requests <- MCRequests
  MaxRoutes = 2
SPECIFICATION Spec
SYMMETRY Symmetry
INVARIANTS
  TypeOK
  ParametersRight
  QueryInventsNothing
PROPERTY TableSpec
