SPECIFICATION Spec
CONSTANTS
  ByteBits = 1
  StackSize = 10
  MaxFrames = 5
  MaxBlocks = 5
  MaxBrTableSize = 3
  PageSize = 8
  PageLimit = 3
  GasModulus = 64
  OpGas = 1
  PageGas = 0
  Modules <- MCModules
  Budgets <- MCBudgets
  ArgValues = {0, 1, 2, 3}
  HostResults = {0, 7}
  HostCosts = {1}
  HostWrites = {}
  FloatBits = {}
  MaxInvokes = 2
  MaxNesting = 2
INVARIANTS QuiescentClean LocalsKept
PROPERTIES FunctionsCompute CallerStackKept IndirectCallTyped ImplementsControl
CHECK_DEADLOCK FALSE
