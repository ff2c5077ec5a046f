CONSTANTS
  Servers = {"cloud", "edge1"}
  Cloud = "cloud"
  Holders = {"cloud", "edge1"}
  BadMpd = {}
  EmptyMpd = {}
  InitMpd = {}
  NumSegments = 3
  Parts = 2
  TxUnits = 2
  BufferCap = 2
  MaxRedirects = 1
  MaxConns = 3
  EarlyRedirect = FALSE
  Lossless = FALSE
  Faulty = FALSE
  MayStop = FALSE
  Layered = FALSE
SPECIFICATION FairSpec
PROPERTIES AllPlayed
CHECK_DEADLOCK FALSE
