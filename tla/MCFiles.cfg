SPECIFICATION Spec
CONSTANTS
  Procs = {p1, p2}
  NFds = 4
  MaxEntry = 3
  Archive <- MCArchive
  Paths <- MCPaths
  Bufs <- MCBufs
  Lens = {2}
  Offsets = {0, 1}
  LongNames = {"initramfs", "framebuffer"}
  FbSize = 2
  MaxNodes = 10
  MaxObjs = 4
  MaxPos = 3
  MaxCalls = 4
INVARIANTS TypeOK Tree Exclusive LostOnlyIf
PROPERTIES PathsStay ArchiveUnpacked Implements
SYMMETRY ProcSymmetry
CHECK_DEADLOCK FALSE
