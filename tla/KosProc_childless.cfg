\* wait() without children sleeps
SPECIFICATION Spec
CONSTANTS
  p1 = p1
  p2 = p2
  p3 = p3
  PCBs <- ThreePCBs
  InitProc = init
  NULL = NULL
  NChunks = 2
  MaxPid = 4
INVARIANT NoChildlessWait
