SPECIFICATION Spec
CONSTANTS
  d1 = d1
  d2 = d2
  r1 = r1
  r2 = r2
  NoByte = NoByte
  Byte <- MCByte
  Zero = NoByte
  EpSize = 2
  Pages = 2
  Devices = {d1}
  Readers = {r1, r2}
  Scb <- OneBlock
  Reads <- BothRead
  Lengths = {1, 3}
  Timeouts = {1}
  TimeMod = 3
  Late = 1
  MaxSent = 2
  SubmitFaults = TRUE
INVARIANTS
  TypeOK
  QueueFits
  SuccessMeansFull
SYMMETRY ReaderSymmetry
