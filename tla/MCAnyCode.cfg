SPECIFICATION Spec
CONSTANTS
  ByteBits = 1
  StackSize = 3
  MaxFrames = 3
  MaxBlocks = 2
  MaxBrTableSize = 2
  PageSize = 8
  PageLimit = 3
  GasModulus = 16
  OpGas = 1
  PageGas = 1
  Modules <- MCModules
  Budgets <- MCBudgets
  ArgValues = {0, 1}
  HostResults = {1}
  HostCosts = {}
  HostWrites = {}
  FloatBits = {0, 7}
  MaxInvokes = 2
  MaxNesting = 2
INVARIANTS TypeOK WithinCapacity ControlStackSafe InstructionsInBody
PROPERTIES I32Extended
CHECK_DEADLOCK FALSE
