SPECIFICATION Spec
CONSTANTS
  h1 = h1
  h2 = h2
  w1 = w1
  w2 = w2
  Handlers <- TwoHandlers
  Workers <- TwoWorkers
  RingSize = 5
  SendSize = 2
  MaxPacket = 2
SYMMETRY Alike
CHECK_DEADLOCK FALSE
INVARIANTS
  TypeOK
  NoOverwrite
  InOrder
  OneSender
  UsedExact
