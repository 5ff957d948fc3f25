\* three PCBs, a chunk for each: grandparent, parent and child
SPECIFICATION Spec
CONSTANTS
  p1 = p1
  p2 = p2
  p3 = p3
  PCBs <- ThreePCBs
  InitProc = init
  NULL = NULL
  NChunks = 3
  MaxPid = 4
INVARIANTS
  TypeOK
  OnePlace
  FamilyInv
  SemInv
  ChunkInv
  PidInv
  HaltSafe
  
PROPERTY ImplementsProcLife
