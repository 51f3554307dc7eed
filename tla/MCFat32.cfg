SPECIFICATION Spec
CONSTANTS
  Names = {"a", "b", "c", "d"}
  Handles = {1}
  Bufs <- MCBufs
  Lens = {2}
  Offsets = {1}
  BLOCK_SIZE = 2
  FAT_ENTRY_PER_BLK = 6
  FatBlks = 5
  ClusterBegin = 7
  MAX_ENTRY = 3
  MAX_FILE_BLK = 2
  Cards <- MCCards
  MaxCuts = 1
  MaxCalls = 5
INVARIANTS CachesTrue NoCrossLink
PROPERTIES SyncEnds Durable
CHECK_DEADLOCK FALSE
