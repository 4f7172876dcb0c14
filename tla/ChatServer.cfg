SPECIFICATION Spec
CONSTANTS
  u1 = u1
  u2 = u2
  u3 = u3
  anna = anna
  bob = bob
  empty = empty
  Conns <- ThreeUsers
  IDs <- ThreeIDs
  EmptyID = empty
  MaxRoomCount = 2
INVARIANTS
  TypeOK
  RoomsAgree
  UsersAgree
  IDsAgree
  UniqueIDs
PROPERTY
  Implements
