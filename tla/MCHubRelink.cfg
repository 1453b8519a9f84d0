CONSTANTS
  h1 = h1
  h2 = h2
  p1 = p1
  p2 = p2
  q1 = q1
  m = m
  Thread = {t1}
  Hub = {h1, h2}
  Proxy = {p1, p2, q1}
  HubOf <- MCHubOf
  Behind <- MCBehind
  Inner <- MCInner
  Jumps <- MCNone
  APP = APP
  PREV = PREV
  ORIG = ORIG
  FrameMax = 3
  DepthMax = 4
SPECIFICATION Spec
INVARIANTS NoReentry
CHECK_DEADLOCK FALSE
