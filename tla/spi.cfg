SPECIFICATION FairSpec
CONSTANTS
  NoThread = NoThread
  Threads = {t1, t2}
  Lengths = {1, 2}
  Timeouts = {0, 2}
  TimeMod = 8
  Late = 1
  EmptyPackets = FALSE
  SubmitFaults = FALSE
INVARIANTS
  TypeOK
  LockIsServed
  ReaderIsJoined
PROPERTIES
  SuccessMeansDone
  CallsReturn
