SPECIFICATION FairSpec
CONSTANTS
  p1 = p1
  p2 = p2
  Procs = {p1, p2}
  Creator = p1
  NoThread = NoThread
  Size = 2
  FFs = {}
  MaxIO = 2
  MaxWrites = 2
  Garbage <- ZeroGarbage
PROPERTY ReaderReleased
CHECK_DEADLOCK FALSE
