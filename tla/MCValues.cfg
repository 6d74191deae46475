SPECIFICATION MCSpec
CONSTANTS
  GroupBits = 2
  RegisterBits = 7
  Requests <- MCRequests
  IntBits = 5
  LongBits = 10
  SingleBits = 3
  DoubleBits = 7
  FractionBits = 1
  Magnitudes <- MCMagnitudes
INVARIANTS TruncationExact InvertsEncoding AdvanceBounded
PROPERTIES ImplementsCall
CHECK_DEADLOCK FALSE
