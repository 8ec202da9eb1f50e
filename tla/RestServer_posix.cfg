SPECIFICATION FairSpec
CONSTANTS
  Conns = {c1}
  c1 = c1
  NoConn = NoConn
  IdMod = 8
  MaxStarts = 1
  MaxFailures = 0
  CloseWakesAccept = FALSE
  RebindWhileBound = FALSE
  ThreadsMayFail = FALSE
  OwnerCare = "threads"
PROPERTY StopReturns
CHECK_DEADLOCK FALSE
