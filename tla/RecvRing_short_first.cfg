SPECIFICATION FairSpec
CONSTANTS
  RingSize = 20
  RecvSize = 4
  Lengths <- TwoLengths
  FirstBytes = 1
  MaxPackets = 7
CHECK_DEADLOCK FALSE
INVARIANT
  Framed
