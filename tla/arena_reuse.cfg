SPECIFICATION Spec
CONSTANTS
  MIN_BLOCK_SIZE = 4
  MAX_BLOCK_SIZE = 16
  MIN_BLOCK_ALIGN = 4
  USIZE_MAX = 127
  Pow2 <- Powers
  BLOCKS_INLINE_CAP = 2
  DROP_INLINE_CAP = 1
  Requests <- ReuseRequests
  InitialSizes = {4, 5}
  StaleUse = FALSE
  SystemFails = FALSE
  MaxBlocks = 4
  MaxLive = 2
  MaxCheckpoints = 2
  MaxBytes = 90
  MaxReserved = 40
PROPERTIES OpensOnlyWhenNeeded
