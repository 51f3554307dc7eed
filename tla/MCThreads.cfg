\* A thread and its forked child, two signals.
SPECIFICATION Spec
CONSTANTS
  init = init
  t1 = t1
  t2 = t2
  Threads <- Two
  InitThread <- init
  InitId = 1
  Sigs = {1, 9}
  SIGKILL = 9
  SigPages = {1, 2}
  MaxCalls = 2
  MaxStack = 2
INVARIANTS TypeOK MaskedFrame StackPages
PROPERTIES Delivery RoundRobin
