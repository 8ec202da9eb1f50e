SPECIFICATION Spec
CONSTANTS
  Conns = {c1, c2}
  c1 = c1
  c2 = c2
  NoConn = NoConn
  IdMod = 3
  MaxStarts = 2
  MaxFailures = 2
  CloseWakesAccept = TRUE
  RebindWhileBound = TRUE
  ThreadsMayFail = TRUE
  OwnerCare = "none"
SYMMETRY Symmetry
INVARIANT TypeOK
INVARIANT RegistrySound
INVARIANT LiveRegistered
INVARIANT UnboundOnlyByRestart
INVARIANT NullOnlyInStop
