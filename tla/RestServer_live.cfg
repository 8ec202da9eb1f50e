SPECIFICATION FairSpec
CONSTANTS
  Conns = {c1, c2}
  c1 = c1
  c2 = c2
  NoConn = NoConn
  IdMod = 8
  MaxStarts = 2
  MaxFailures = 0
  CloseWakesAccept = TRUE
  RebindWhileBound = TRUE
  ThreadsMayFail = FALSE
  OwnerCare = "threads"
INVARIANT DestroySafe
PROPERTY ServiceSpec
PROPERTY StopReturns
PROPERTY ClosedAfterHandler
