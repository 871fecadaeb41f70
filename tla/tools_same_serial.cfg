SPECIFICATION ToolSpec
CONSTANTS
  c1 = c1
  c2 = c2
  s1 = s1
  s2 = s2
  None = None
  Controllers = {c1}
  Chips = {s1, s2}
  Others = {}
  Serial <- NoSerial
  Wants <- Nothing
  OneThread = TRUE
  MaxChanges = 0
  Main = c1
  Commands <- Get
  NoNumber = NoNumber
  Garbage <- SomeGarbage
  Inspected = 2
  Width = 4
INVARIANT SuccessReachesChip
