SPECIFICATION Spec
CONSTANTS
  c1 = c1
  c2 = c2
  s1 = s1
  s2 = s2
  None = None
  Controllers = {c1}
  Chips = {s1, s2}
  Others = {}
  Serial <- OwnSerial
  Wants <- JustOne
  OneThread = TRUE
  MaxChanges = 2
INVARIANTS
  AlwaysDrivesSelected
  OpenMeansPresent
