SPECIFICATION FairSpec
CONSTANTS
  p1 = p1
  p2 = p2
  p3 = p3
  Procs = {p1, p2, p3}
  Creator = p1
  NoThread = NoThread
  Size = 2
  FFs = {4}
  MaxIO = 2
  MaxWrites = 2
  Garbage <- ZeroGarbage
INVARIANTS
  TypeOK
  EndInv
  SlotInv
  NoStandstill
  WritersLeave
  FirstLapInv
PROPERTY WriterReleased
CHECK_DEADLOCK FALSE
