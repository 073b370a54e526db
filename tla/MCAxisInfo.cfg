SPECIFICATION Spec
CONSTANTS
  Extent = 4
  MaxDivisor = 128
  ElemBytes = 2
  Starts = {0}
  Literals = {1, 4, 6}
  Params <- MCParams
  Terms <- MCTerms
  Pointer <- MCPointer
  LoopOps = {"addi", "muli", "divsi", "addptr"}
  Excluded = {"negative dividends", "varying others", "lost groups"}
  ValueBound = 100
  OpBound = 3
  TripBound = 2
CHECK_DEADLOCK FALSE
INVARIANT ContiguityHolds
INVARIANT AccessesAligned
INVARIANT MasksUniform
