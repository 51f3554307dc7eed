SPECIFICATION Spec
CONSTANTS
  Names = {"a", "b", "c"}
  Handles = {1}
  Bufs <- MCBufs
  Lens = {2}
  Offsets = {1}
  BLOCK_SIZE = 2
  FAT_ENTRY_PER_BLK = 6
  FatBlks = 5
  ClusterBegin = 7
  MAX_ENTRY = 3
  MAX_FILE_BLK = 2
  Cards <- FullCard
  MaxCuts = 0
  MaxCalls = 3
PROPERTY ClusterUnused
CHECK_DEADLOCK FALSE
