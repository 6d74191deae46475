SPECIFICATION LoaderSpec
CONSTANTS
  GroupBits = 7
  RegisterBits = 16
  UintBits = 8
  Inputs <- OverlappingInputs
INVARIANTS TableIsSegmentsInOrder
