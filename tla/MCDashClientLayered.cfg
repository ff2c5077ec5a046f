CONSTANTS
  Servers = {"cloud", "edge1"}
  Cloud = "cloud"
  Holders = {"cloud", "edge1"}
  BadMpd = {}
  EmptyMpd = {}
  InitMpd = {}
  NumSegments = 2
  Parts = 2
  TxUnits = 2
  BufferCap = 1
  MaxRedirects = 1
  MaxConns = 2
  EarlyRedirect = FALSE
  Lossless = FALSE
  Faulty = FALSE
  MayStop = TRUE
  Layered = TRUE
SPECIFICATION Spec
INVARIANT TimersNeedPlayer
CHECK_DEADLOCK FALSE
