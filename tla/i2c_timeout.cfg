SPECIFICATION Spec
CONSTANTS
  NoThread = NoThread
  Threads = {t1, t2}
  Dirs = {"read", "write"}
  Faults = FALSE
  Timeouts = TRUE
  LateClock = FALSE
INVARIANT TimeoutIsReported
