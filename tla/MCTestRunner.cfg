CONSTANTS
  w1 = w1  w2 = w2  w3 = w3
  NumJobs = 3
  Examples = {2}
  Skipped = {3}
  Workers = {w1, w2, w3}
  MayFailLaunch = TRUE
SPECIFICATION FairSpec
INVARIANTS TypeOK SuccessMeansPassed JobAtOnePlace  BreaksLast
PROPERTIES RunnerEnds ImplementsTestReport
CHECK_DEADLOCK FALSE
