CONSTANTS
  h1 = h1
  h2 = h2
  p1 = p1
  p2 = p2
  q1 = q1
  Thread = {t1}
  Hub = {h1, h2}
  Proxy = {p1, p2, q1}
  HubOf <- MCHubOf
  Behind <- MCBehind
  m = m
  Inner <- MCInner
  Jumps <- MCJumps
  APP = APP
  PREV = PREV
  ORIG = ORIG
  FrameMax = 3
  DepthMax = 4
SYMMETRY MCProxies
SPECIFICATION Spec
INVARIANTS HubTypeOK FramesMatch EachOnce NoReentryUnlessRelinked
PROPERTIES AllRun
CHECK_DEADLOCK FALSE
