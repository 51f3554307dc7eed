\* The shell's "kill [pid]" on a forked child.
SPECIFICATION Spec
CONSTANTS
  init = init
  t1 = t1
  t2 = t2
  Threads <- Two
  InitThread <- init
  InitId = 1
  Sigs = {9}
  SIGKILL = 9
  SigPages = {1}
  MaxCalls = 1
  MaxStack = 2
PROPERTIES LibKillKills
