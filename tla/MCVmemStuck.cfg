\* Two processes with a TLB that may keep an entry.
SPECIFICATION Spec
CONSTANTS
  p = p
  q = q
  Procs = {p, q}
  First = p
  Text = {0}
  Data = {1}
  ReadOnly = {}
  Frames = {0, 1, 2, 3}
  Values = {"zero", "one"}
  Zero = "zero"
  TlbCaches = {TRUE}
INVARIANTS NeverStuck
