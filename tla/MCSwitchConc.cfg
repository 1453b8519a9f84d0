CONSTANTS
  Thread = {t1, t2}
  Obj = {o1, o2}
  Key = {k1}
  Lib <- MCLib
  NoObj = NoObj
  NoThread = NoThread
  Delay = 0
  MaxTime = 1
  Proxy = {p1, p2}
  Icept = {i1}
  Modes = {"multi", "shared"}
  Faults = {"hook", "oom"}
  NULL = NULL
  RESUME = RESUME
  GLUE = GLUE
  HUB = HUB
SYMMETRY InterchangeableConc
SPECIFICATION Spec
INVARIANTS NoDanglingJump PatchedIsFindable
PROPERTIES UnhookFinds
CHECK_DEADLOCK FALSE
