CONSTANTS
  Thread = {t1, t2}
  Task = {k1, k2, k3}
  ByName = {k1, k2}
  Unique = {}
  Lib = {l1}
  LibOf <- MCLibOf
  Addr = {a1}
  NoAddr = NoAddr
  NoTask = NoTask
  NoThread = NoThread
  Faults = {"symbol", "hook", "unhook"}
  TASK = TASK
  Cb = {u1}
  Scenario <- MCAll
SPECIFICATION FairSpec
INVARIANTS CountExact CollectedNotFreed LoadedInForce NoHookAfterUndo CallbacksTell NoCallAfterUnregister
CHECK_DEADLOCK FALSE
PROPERTIES DlopenReturns InitEndsOrWaits
