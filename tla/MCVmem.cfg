\* Two processes, a page of text and one of data, on either kind of machine.
SPECIFICATION Spec
CONSTANTS
  p = p
  q = q
  Procs = {p, q}
  First = p
  Text = {0}
  Data = {1}
  ReadOnly = {}
  Frames = {0, 1, 2, 3}
  Values = {"zero", "one"}
  Zero = "zero"
  TlbCaches = {TRUE, FALSE}
INVARIANTS TypeOK CountsCover WritesStayHome
PROPERTIES AccessEnds Implements
