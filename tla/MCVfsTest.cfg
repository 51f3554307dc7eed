SPECIFICATION TestSpec
CONSTANTS
  Procs = {p1}
  Prog = p1
  NFds = 8
  MaxEntry = 16
  Archive <- MCArchive
  Paths = {}
  Bufs = {}
  Lens = {1}
  Offsets = {0}
  LongNames = {"initramfs"}
  FbSize = 1
  MaxNodes = 13
  MaxObjs = 3
  MaxPos = 64
  MaxCalls = 100
INVARIANTS NoCheckFails
CHECK_DEADLOCK FALSE
