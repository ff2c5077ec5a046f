CONSTANTS
  Servers = {"cloud", "edge1", "edge2", "edge3", "edge4"}
  Cloud = "cloud"
  Holders = {"cloud", "edge2", "edge3", "edge4"}
  BadMpd = {"edge2"}
  EmptyMpd = {"edge4"}
  InitMpd = {"edge3"}
  NumSegments = 4
  Parts = 2
  TxUnits = 2
  BufferCap = 2
  MaxRedirects = 2
  MaxConns = 4
  EarlyRedirect = TRUE
  Lossless = FALSE
  Faulty = TRUE
  MayStop = TRUE
  Layered = FALSE
SPECIFICATION Spec
INVARIANTS TypeOK ReceivedIsRequested PlaybackInOrder NoDownloadMeanwhile OneRequestAtATime
CHECK_DEADLOCK FALSE
