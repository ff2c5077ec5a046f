CONSTANTS
  Servers = {"cloud", "edge1", "edge2"}
  Cloud = "cloud"
  Holders = {"cloud", "edge1", "edge2"}
  BadMpd = {}
  EmptyMpd = {}
  InitMpd = {}
  NumSegments = 3
  Parts = 2
  TxUnits = 2
  BufferCap = 2
  MaxRedirects = 2
  MaxConns = 3
  EarlyRedirect = FALSE
  Lossless = TRUE
  Faulty = FALSE
  MayStop = FALSE
  Layered = FALSE
SPECIFICATION FairSpec
INVARIANT KeptAliveToHost
PROPERTIES AllPlayed RedirectFollowed
CHECK_DEADLOCK FALSE
