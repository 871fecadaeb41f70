SPECIFICATION Spec
CONSTANTS
  NoThread = NoThread
  Threads = {t1}
  Dirs = {"write"}
  Faults = TRUE
  Timeouts = TRUE
  LateClock = FALSE
INVARIANT LocksAreServed
