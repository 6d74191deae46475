SPECIFICATION Spec
CONSTANTS
  ByteBits = 1
  StackSize = 8
  MaxFrames = 1
  MaxBlocks = 3
  MaxBrTableSize = 3
  PageSize = 8
  PageLimit = 3
  GasModulus = 64
  OpGas = 1
  PageGas = 0
  Modules <- MCModules
  Budgets <- MCBudgets
  ArgValues = {0, 1}
  HostResults = {}
  HostCosts = {}
  HostWrites = {}
  FloatBits = {}
  MaxInvokes = 2
  MaxNesting = 2
INVARIANTS BlocksMirrorNesting NoControlError QuiescentClean
PROPERTIES UnwindsToResult ImplementsControl
CHECK_DEADLOCK FALSE
