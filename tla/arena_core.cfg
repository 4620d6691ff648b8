SPECIFICATION Spec
CONSTANTS
  MIN_BLOCK_SIZE = 4
  MAX_BLOCK_SIZE = 16
  MIN_BLOCK_ALIGN = 4
  USIZE_MAX = 127
  Pow2 <- Powers
  BLOCKS_INLINE_CAP = 2
  DROP_INLINE_CAP = 1
  Requests <- MixedRequests
  InitialSizes = {4}
  StaleUse = FALSE
  SystemFails = TRUE
  MaxBlocks = 3
  MaxLive = 2
  MaxCheckpoints = 2
  MaxBytes = 9
  MaxReserved = 28
INVARIANTS TypeOK CursorCoherent CheckpointsRestorable WellPlaced NoOverlap DropsOnLiveMemory StatsCoverLive
PROPERTIES ImplementsAbstract ReclaimedAreDropped
