\* 2 frames of 4 units, pools of objects of 1 and 2 units, up to 2 pages each.
SPECIFICATION Spec
CONSTANTS
  Classes = {0, 1}
  ObjSize <- TwoSizes
  MaxDynPages = 2
  PageSize = 4
  MaxOrder = 1
  Size <- PowersOfTwo
  Sizes = {1, 2, 3, 7}
INVARIANTS TypeOK PoolsExact PagesKept
PROPERTIES Implements
