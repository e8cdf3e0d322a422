SPECIFICATION CodeGenSpec
CONSTANTS
  RegBits = 8
  ImmBits = 6
  WordBytes = 2
  L1Words = 2
  L2Words = 4
  L3Words = 8
  ConditionOffset = 2
  ConditionBits = 2
  HalfBits = 3
  AddBits = 2
  MaxLits = 1
  MaxRcpRegs = 1
  Families <- MCFamilies
  Seeds = {37, 101}
  Stale = 6
  Machines <- MCMachines
  Divisors = {3, 5}
  MemoryBlocks = {8, 12, 20}
  Passes = 3
  WordRange = 64
  ProgramLists <- MCProgramLists
  ItemCount = 4
  Ranges <- MCRanges
INVARIANTS JitMatchesInterpreter BranchLoopsAtMostTwice  SuperscalarJitMatches OperandsReady ReferenceWindow DatasetItemsAgree
CHECK_DEADLOCK FALSE
