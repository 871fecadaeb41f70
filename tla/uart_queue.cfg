SPECIFICATION Spec
CONSTANTS
  Byte = {0, 1}
  Zero = 0
  EpSize = 3
  Pages = 2
  MaxFill = 5
  MaxTake = 6
INVARIANTS
  TypeOK
  PositionsAgree
PROPERTY FifoSpec
