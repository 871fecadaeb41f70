SPECIFICATION Spec
CONSTANTS
  NoThread = NoThread
  Threads = {t1}
  Lengths = {1}
  Timeouts = {2}
  TimeMod = 8
  Late = 1
  EmptyPackets = FALSE
  SubmitFaults = FALSE
INVARIANTS
  PollsWithinTimeout
  FullReadSucceeds
