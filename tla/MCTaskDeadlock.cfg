CONSTANTS
  Thread = {t1, t2}
  Task = {k1, k2}
  ByName = {k1}
  Unique = {}
  Lib = {l1}
  LibOf <- MCLibOf
  Addr = {a1}
  NoAddr = NoAddr
  NoTask = NoTask
  NoThread = NoThread
  Faults = {}
  TASK = TASK
  Cb = {}
  Scenario <- MCRecorded
SPECIFICATION Spec
INVARIANTS NoWaitCycle
CHECK_DEADLOCK FALSE
