SPECIFICATION BudgetSpec
CONSTANTS
  c1 = c1
  w1 = w1
  w2 = w2
  w3 = w3
  l1 = l1
  l2 = l2
  Conns <- OneConn
  Workers <- TwoWorkers
  Logics <- OneLogic
  Handles = 2
  MsgCount = 8
  SendSlots = 2
  MaxPackets = 1
  Backlog = 9
  MaxSends = 1
  RefModulus = 4
  CallsFail = FALSE
  Budget = 3
CHECK_DEADLOCK FALSE
INVARIANT
  NoDeadSlot
