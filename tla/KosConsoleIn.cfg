SPECIFICATION FairSpec
CONSTANTS
  r1 = r1
  r2 = r2
  Readers = {r1, r2}
  ConsToBuff = ConsToBuff
  NoThread = NoThread
  Size = 2
  Text <- TypedText
  MaxRead = 2
INVARIANTS
  TypeOK
  RingInv
  HandshakeInv
  NoStandstill
PROPERTY ImplementsByteStream
 
