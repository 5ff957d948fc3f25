SPECIFICATION Spec
CONSTANTS
  p1 = p1
  p2 = p2
  Procs = {p1, p2}
  Creator = p1
  NoThread = NoThread
  Size = 2
  FFs = {}
  MaxIO = 2
  MaxWrites = 3
  Garbage <- AnyGarbage
INVARIANT ReadsInOrder
CHECK_DEADLOCK FALSE
