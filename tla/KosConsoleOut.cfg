SPECIFICATION FairSpec
CONSTANTS
  w1 = w1
  w2 = w2
  w3 = w3
  Writers = {w1, w2, w3}
  NoThread = NoThread
  MaxWrite = 2
  MaxCalls = 4
INVARIANTS
  TypeOK
  DeviceInv
  CountInv
  WholeWrites
  NoStandstill
CHECK_DEADLOCK FALSE
 
