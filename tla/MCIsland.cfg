CONSTANTS
  Thread = {h1, h2, cl}
  Closer = cl
  Base = {8}
  Size = 4
  Slots = 2
  Ranges <- MCRange
  Delay = 1
  MaxTime = 4
  Target <- MCTarget
  Lib = {1, 2}
  Bias <- MCBias
  Segments <- MCSegments
  ByKernel = {2}
  Symbols <- MCSymbols
  Page = 8
  Unit = 2
  MinAlloc = 4
  Obj = {101, 102, 103, 104}
SYMMETRY MCThreads
SPECIFICATION IslandSpec
INVARIANTS OneOwner NoAbort IslandsApart NothingLost GapsHarmless
PROPERTIES GraceBeforeReuse GapGrace KeepsPool
CHECK_DEADLOCK FALSE
