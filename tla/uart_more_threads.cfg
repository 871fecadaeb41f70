SPECIFICATION Spec
CONSTANTS
  d1 = d1
  d2 = d2
  r1 = r1
  r2 = r2
  NoByte = NoByte
  Byte <- MCByte
  Zero = NoByte
  EpSize = 3
  Pages = 1
  Devices = {d1}
  Readers = {r1, r2}
  Scb <- OneBlock
  Reads <- BothRead
  Lengths = {1}
  Timeouts = {1}
  TimeMod = 4
  Late = 0
  MaxSent = 6
  SubmitFaults = FALSE
INVARIANTS
  QueueNeverFull
