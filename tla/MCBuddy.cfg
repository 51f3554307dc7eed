\* 8 frames, orders 0..3, one frame reserved, user pages of up to 2 owners.
SPECIFICATION Spec
CONSTANTS
  MaxOrder = 3
  Size <- PowersOfTwo
  Reserved <- Reserved2
  InitRefs <- Zeroed
  MaxRefs = 2
INVARIANTS TypeOK BlocksApart ListsExact NoFrameLost AllocComplete RefsExact DoubleFreeCaught
PROPERTIES Implements HeldStable CallsReturn
