CONSTANTS
  Thread = {t1, t2}
  Obj = {o1, o2}
  Key = {k1}
  Lib <- MCLib
  NoObj = NoObj
  NoThread = NoThread
  Delay = 0
  MaxTime = 0
  Proxy = {p1, p2}
  Icept = {}
  Modes = {"unique", "multi"}
  Faults = {}
  NULL = NULL
  RESUME = RESUME
  GLUE = GLUE
  HUB = HUB
SYMMETRY InterchangeableConc
SPECIFICATION Spec
INVARIANTS UniqueAlone
CHECK_DEADLOCK FALSE
