SPECIFICATION Spec
CONSTANTS
  p1 = p1
  p2 = p2
  a1 = a1
  a2 = a2
  Procs = {p1, p2}
  Creator = p1
  NULL = NULL
  NFds = 6
  Pipes = {a1, a2}
  MaxDups = 1
PROPERTY CloseClosesOne
CHECK_DEADLOCK FALSE
