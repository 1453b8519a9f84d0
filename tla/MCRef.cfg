CONSTANTS
  Thread = {t1, t2}
  Obj = {o1, o2}
  Key = {k1, k2}
  Lib <- MCLib
  NoObj = NoObj
  NoThread = NoThread
  Delay = 1
  MaxTime = 2
SPECIFICATION FairRefSpec
INVARIANTS NoUseAfterFree BodyOnRegistered DestroyedOnce RefInv
PROPERTIES GraceElapsed CallsReturn
