CONSTANTS
  Case <- MCCase
  Enter = {2000, 2400}
  EnterSize = 64
  Reach = 128
  PageSize = 64
  Proxy <- MCProxy
  Launcher = 3300
  Glue = 3400
  Context = 3500
  MaxLost = 1
  Apart = 32
  MaxResting = 2
  Regs <- MCRegs
SPECIFICATION RunSpec
INVARIANTS NothingLeaks PatchSound ResumeRight InterceptorSees EnterFits
CHECK_DEADLOCK FALSE
