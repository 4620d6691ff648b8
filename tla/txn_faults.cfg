SPECIFICATION TxnSpec
CONSTANTS
  MIN_BLOCK_SIZE = 4
  MAX_BLOCK_SIZE = 16
  MIN_BLOCK_ALIGN = 4
  USIZE_MAX = 127
  Pow2 <- Powers
  BLOCKS_INLINE_CAP = 2
  DROP_INLINE_CAP = 1
  Requests <- ValueRequests
  InitialSizes = {4}
  StaleUse = TRUE
  SystemFails = TRUE
  MaxBlocks = 2
  MaxLive = 2
  MaxCheckpoints = 0
  MaxBytes = 7
  MaxReserved = 40
  Holders = {"caller"}
  Limits = {4}
  Forgets = TRUE
  MaxTransactions = 2
INVARIANTS TxnTypeOK NestingDepth CursorCoherent WellPlaced NoOverlap
