SPECIFICATION ToolSpec
CONSTANTS
  c1 = c1
  c2 = c2
  s1 = s1
  s2 = s2
  None = None
  Controllers = {c1, c2}
  Chips = {s1, s2}
  Others = {}
  Serial <- OwnSerial
  Wants <- OwnDevice
  OneThread = FALSE
  MaxChanges = 2
  Main = c1
  Commands <- AnyCommand
  NoNumber = NoNumber
  Garbage <- SomeGarbage
  Inspected = 2
  Width = 4
INVARIANTS
  ToolTypeOK
  UsesOpenHandle
  NoHandleLost
  DrivesSelected
  SuccessReachesChip
