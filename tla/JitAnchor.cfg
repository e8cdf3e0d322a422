SPECIFICATION Spec
CONSTANTS
  RegBits = 8
  ImmBits = 6
  WordBytes = 2
  L1Words = 2
  L2Words = 4
  L3Words = 8
  ConditionOffset = 2
  ConditionBits = 2
  HalfBits = 3
  AddBits = 2
  MaxLits = 1
  MaxRcpRegs = 1
  Families <- AnchorFamilies
  Seeds = {37, 101}
  Stale = 6
INVARIANT ReorderIsSafe
CHECK_DEADLOCK FALSE
