SPECIFICATION Spec
CONSTANTS
  h1 = h1
  h2 = h2
  w1 = w1
  w2 = w2
  Handlers <- OneHandler
  Workers <- TwoWorkers
  RingSize = 10
  SendSize = 4
  MaxPacket = 3
CHECK_DEADLOCK FALSE
INVARIANT
  NothingUnsent
