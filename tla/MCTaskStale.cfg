CONSTANTS
  Thread = {t1, t2}
  Task = {k1, k2}
  ByName = {}
  Unique = {k1, k2}
  Lib = {l1}
  LibOf <- MCLibOf
  Addr = {a1}
  NoAddr = NoAddr
  NoTask = NoTask
  NoThread = NoThread
  Faults = {}
  TASK = TASK
  Cb = {}
  Scenario <- MCHooks
SPECIFICATION FairSpec
PROPERTIES OthersUntouched
CHECK_DEADLOCK FALSE
