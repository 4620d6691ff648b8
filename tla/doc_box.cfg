SPECIFICATION BoxSpec
CONSTANTS
  MIN_BLOCK_SIZE = 4
  MAX_BLOCK_SIZE = 16
  MIN_BLOCK_ALIGN = 4
  USIZE_MAX = 127
  Pow2 <- Powers
  BLOCKS_INLINE_CAP = 2
  DROP_INLINE_CAP = 1
  Requests <- BoxRequests
  InitialSizes = {4}
  StaleUse = FALSE
  SystemFails = FALSE
  MaxBlocks = 3
  MaxLive = 3
  MaxCheckpoints = 0
  MaxBytes = 12
  MaxReserved = 40
PROPERTY MovedIsNotDropped
