SPECIFICATION MemSpec
CONSTANTS
  p1 = p1
  p2 = p2
  p3 = p3
  PCBs <- ThreePCBs
  InitProc = init
  NULL = NULL
  NChunks = 2
  MaxPid = 4
  Limit = 2
  Values = {0, 1}
  Programs <- OneProgram
  MaxInt = 3
  Increments <- SomeIncrements
SYMMETRY PCBSymmetry
CONSTRAINT Growing
INVARIANTS
  MemTypeOK
  MapInv
  
  BreakInv
 
