CONSTANTS
  Servers = {"cloud", "edge1"}
  Cloud = "cloud"
  Holders = {"cloud", "edge1"}
  BadMpd = {}
  EmptyMpd = {}
  InitMpd = {}
  NumSegments = 2
  Parts = 2
  TxUnits = 2
  BufferCap = 1
  MaxRedirects = 0
  MaxConns = 2
  EarlyRedirect = FALSE
  Lossless = TRUE
  Faulty = FALSE
  MayStop = FALSE
  Layered = TRUE
SPECIFICATION Spec
INVARIANTS NeverNullBuffer
CHECK_DEADLOCK FALSE
