CONSTANTS
  Servers = {"cloud", "edge1"}
  Cloud = "cloud"
  Holders = {"cloud", "edge1"}
  BadMpd = {}
  EmptyMpd = {}
  InitMpd = {}
  NumSegments = 3
  Parts = 2
  TxUnits = 2
  BufferCap = 2
  MaxRedirects = 0
  MaxConns = 3
  EarlyRedirect = FALSE
  Lossless = FALSE
  Faulty = TRUE
  MayStop = FALSE
  Layered = FALSE
SPECIFICATION Spec
INVARIANTS BrokenIsRetried
CHECK_DEADLOCK FALSE
