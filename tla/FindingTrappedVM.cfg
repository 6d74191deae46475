SPECIFICATION Spec
CONSTANTS
  ByteBits = 1
  StackSize = 10
  MaxFrames = 4
  MaxBlocks = 3
  MaxBrTableSize = 3
  PageSize = 8
  PageLimit = 3
  GasModulus = 64
  OpGas = 0
  PageGas = 0
  Modules <- TrapThenInvoke
  Budgets <- MCBudgets
  ArgValues = {0}
  HostResults = {0}
  HostCosts = {}
  HostWrites = {}
  FloatBits = {0}
  MaxInvokes = 2
  MaxNesting = 2
INVARIANTS OwnFramesOnly
CHECK_DEADLOCK FALSE
