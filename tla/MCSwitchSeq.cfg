CONSTANTS
  Thread = {t1}
  Obj = {o1, o2}
  Key = {k1}
  Lib <- MCLib
  NoObj = NoObj
  NoThread = NoThread
  Delay = 0
  MaxTime = 0
  Proxy = {p1, p2, p3}
  Icept = {i1}
  Modes = {"unique", "multi", "shared"}
  Faults = {"hook", "rehook", "unhook"}
  NULL = NULL
  RESUME = RESUME
  GLUE = GLUE
  HUB = HUB
SYMMETRY Interchangeable
SPECIFICATION Spec
INVARIANTS GrantedRuns ChainEnds OnlyGrantedRuns UniqueAlone
CHECK_DEADLOCK FALSE
