SPECIFICATION FairSpec
CONSTANTS
  NoThread = NoThread
  Threads = {t1, t2}
  Dirs = {"read", "write"}
  Faults = TRUE
  Timeouts = TRUE
  LateClock = FALSE
INVARIANTS
  TypeOK
  OneCallPerDirection
  ReadLockIsServed
PROPERTY CallsReturn
