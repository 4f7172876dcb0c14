SPECIFICATION Spec
CONSTANTS
  c1 = c1
  s1 = s1
  s2 = s2
  anna = anna
  bob = bob
  empty = empty
  Clients <- OneClient
  Slots <- OneSlot
  Elsewhere <- OneElsewhere
  IDs <- Anna
  IDsTyped <- Bob
  RoomNumbersTyped <- Room0
  EmptyID = empty
  MaxRoomCount = 1
  MaxUnread = 1
  MaxLost = 2
  MaxConnects = 3
  MaxClicks = 4
  MaxRecv = 1
  MaxDisconnects = 1
VIEW AllButOut
CHECK_DEADLOCK FALSE
INVARIANTS
  Agreed
  NotifiedInRoom
  Unblocked
