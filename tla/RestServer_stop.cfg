SPECIFICATION Spec
CONSTANTS
  Conns = {c1, c2}
  c1 = c1
  c2 = c2
  NoConn = NoConn
  IdMod = 8
  MaxStarts = 1
  MaxFailures = 0
  CloseWakesAccept = TRUE
  RebindWhileBound = FALSE
  ThreadsMayFail = FALSE
  OwnerCare = "threads"
INVARIANT StopIsGraceful
