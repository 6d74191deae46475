SPECIFICATION FairSpec
CONSTANTS
  ByteBits = 1
  StackSize = 8
  MaxFrames = 4
  MaxBlocks = 3
  MaxBrTableSize = 3
  PageSize = 8
  PageLimit = 2
  GasModulus = 32
  OpGas = 1
  PageGas = 2
  Modules <- MCModules
  Budgets <- MCBudgets
  ArgValues = {0, 1}
  HostResults = {1}
  HostCosts = {2}
  HostWrites = {}
  FloatBits = {}
  MaxInvokes = 3
  MaxNesting = 4
INVARIANTS GasBounded
PROPERTIES BoundedExecution ImplementsControl
CHECK_DEADLOCK FALSE
