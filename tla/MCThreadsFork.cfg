\* Three threads, the first and the second forked with the same id; a signal, and forks in its handler.
SPECIFICATION Spec
CONSTANTS
  init = init
  t1 = t1
  t2 = t2
  Threads <- Three
  InitThread <- init
  InitId = 2
  Sigs = {9}
  SIGKILL = 9
  SigPages = {1}
  MaxCalls = 1
  MaxStack = 2
INVARIANTS OneHome DerailsOnlyIf
