SPECIFICATION VecSpec
CONSTANTS
  MIN_BLOCK_SIZE = 4
  MAX_BLOCK_SIZE = 16
  MIN_BLOCK_ALIGN = 4
  USIZE_MAX = 127
  Pow2 <- Powers
  BLOCKS_INLINE_CAP = 2
  DROP_INLINE_CAP = 1
  Requests <- NeighbourRequests
  InitialSizes = {4}
  StaleUse = FALSE
  SystemFails = TRUE
  MaxBlocks = 3
  MaxLive = 3
  MaxCheckpoints = 0
  MaxBytes = 8
  MaxReserved = 40
  ElemSize = 2
  ElemAlign = 2
  FIRST_CAP = 2
  Counts = {0, 3, 63, 127}
  Bases = {8}
  OverflowChecks = TRUE
INVARIANTS VecTypeOK CapacityIsBacked BufferAtCursor 
PROPERTIES MovesOnlyWhenFull
