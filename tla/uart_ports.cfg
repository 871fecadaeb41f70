SPECIFICATION Spec
CONSTANTS
  d1 = d1
  d2 = d2
  r1 = r1
  r2 = r2
  NoByte = NoByte
  Byte <- MCByte
  Zero = NoByte
  EpSize = 3
  Pages = 2
  Devices = {d1, d2}
  Readers = {r1, r2}
  Scb <- OwnBlock
  Reads <- Crossing
  Lengths = {1, 2}
  Timeouts = {1}
  TimeMod = 4
  Late = 0
  MaxSent = 3
  SubmitFaults = FALSE
INVARIANTS
  EachByteOnce
  OwnBytesInOrder
