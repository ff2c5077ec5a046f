SPECIFICATION Spec
CONSTANTS
  Sockets = {s1}
  MaxVideos = 0
  MaxBytes = 0
INVARIANT NoDanglingCall
CHECK_DEADLOCK FALSE
