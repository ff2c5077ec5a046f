SPECIFICATION FairSpec
CONSTANTS
  Sockets = {s1, s2}
  MaxVideos = 2
  MaxBytes = 2
INVARIANTS TypeOK OpenKeepsObject DataCallbacksAlive FinishOnlyClosed BytesReportedOnce
PROPERTIES CountedIsReported ClosedIsFinished
CHECK_DEADLOCK FALSE
