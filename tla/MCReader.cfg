SPECIFICATION LoaderSpec
CONSTANTS
  GroupBits = 7
  RegisterBits = 16
  UintBits = 8
  Inputs <- MCInputs
INVARIANTS LoaderTypeOK ReadsWhatWasWritten MemoryIsSegmentsInOrder
PROPERTIES Decides CursorForward
