SPECIFICATION EndlessSpec
CONSTANTS
  c1 = c1
  w1 = w1
  w2 = w2
  w3 = w3
  l1 = l1
  l2 = l2
  Conns <- OneConn
  Workers <- ThreeWorkers
  Logics <- OneLogic
  Handles = 2
  MsgCount = 9
  SendSlots = 1
  MaxPackets = 2
  Backlog = 2
  MaxSends = 0
  RefModulus = 4
  CallsFail = FALSE
  Budget = 0
INVARIANTS
  AppAgrees
PROPERTIES
  Rearmed
  Forgotten
