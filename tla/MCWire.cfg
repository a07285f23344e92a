CONSTANTS
  Base = 8
  IdLen = 2
  LenLen = 2
  MaxData = 1
  NonceLen = 2
  ReadBuf = 10
  Plains <- MCPlains
  MaxRecords = 2
SPECIFICATION Spec
INVARIANTS InOrder Lossless NeverParks BufferBounded
CHECK_DEADLOCK FALSE
