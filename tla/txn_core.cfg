SPECIFICATION TxnSpec
CONSTANTS
  MIN_BLOCK_SIZE = 4
  MAX_BLOCK_SIZE = 16
  MIN_BLOCK_ALIGN = 4
  USIZE_MAX = 127
  Pow2 <- Powers
  BLOCKS_INLINE_CAP = 2
  DROP_INLINE_CAP = 1
  Requests <- TxnRequests
  InitialSizes = {4}
  StaleUse = FALSE
  SystemFails = FALSE
  MaxBlocks = 2
  MaxLive = 2
  MaxCheckpoints = 1
  MaxBytes = 8
  MaxReserved = 40
  Holders = {"caller", "closure", "infallible"}
  Limits = {4}
  Forgets = FALSE
  MaxTransactions = 2
INVARIANTS TxnTypeOK NestingDepth DropsOnLiveMemory
PROPERTIES ImplementsTransactions WithinBudget
