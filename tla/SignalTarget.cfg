SPECIFICATION Spec
CONSTANTS
  PROCESS_MAX = 2
  Threads = {t1, t2}
  Spaces = {1, 2}
  PROCESS_FDS_MAX = 2
  MaxPrograms = 2
  MaxSends = 1
  SIGKILL = 9
  SIGTERM = 15
  Whats = {"ignore"}
  None = None
INVARIANT SignalsReachTarget
CHECK_DEADLOCK FALSE
