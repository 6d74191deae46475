SPECIFICATION Spec
CONSTANTS
  ByteBits = 1
  StackSize = 6
  MaxFrames = 2
  MaxBlocks = 1
  MaxBrTableSize = 3
  PageSize = 8
  PageLimit = 3
  GasModulus = 64
  OpGas = 1
  PageGas = 4
  Modules <- MCModules
  Budgets <- MCBudgets
  ArgValues = {0, 1, 2, 3, 5, 8, 13, 15}
  HostResults = {0}
  HostCosts = {}
  HostWrites <- MCHostWrites
  FloatBits = {0}
  MaxInvokes = 1
  MaxNesting = 2
INVARIANTS MemoryPaid LoadReadsStore
PROPERTIES MemoryWithinLimits
CHECK_DEADLOCK FALSE
