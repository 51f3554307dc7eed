\* Pages of 2 units; text of 1 or 2 pages, the stack in page 7, and requests,
\* aligned or not, that hit text, stack, each other and the space above.  Six
\* nodes hold four areas of one process, or three of a parent and its child.
SPECIFICATION ListSpec
CONSTANTS
  p1 = p1
  p2 = p2
  Procs <- MCProcs
  Nodes = 6
  Page = 2
  TextSizes = {2, 4}
  Stack = 14
  StackSize = 2
  Addrs = {5, 12, 18}
  Lens = {0, 1, 4}
  Prots = {3}
  MaxAreas = 4
  Wrap = 64
SYMMETRY MCSymmetry
INVARIANTS SortedDisjoint FaultFindsArea ListsAreAreas
