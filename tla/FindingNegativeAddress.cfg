SPECIFICATION Spec
CONSTANTS
  ByteBits = 1
  StackSize = 10
  MaxFrames = 4
  MaxBlocks = 3
  MaxBrTableSize = 3
  PageSize = 8
  PageLimit = 3
  GasModulus = 64
  OpGas = 0
  PageGas = 0
  Modules <- NegativeAddress
  Budgets <- MCBudgets
  ArgValues = {0}
  HostResults = {0}
  HostCosts = {}
  HostWrites = {}
  FloatBits = {0}
  MaxInvokes = 1
  MaxNesting = 2
INVARIANTS NoRuntimePanic
CHECK_DEADLOCK FALSE
