SPECIFICATION FramingSpec
CONSTANTS
  RingSize = 20
  RecvSize = 4
  Lengths <- TwoLengths
  FirstBytes = 2
  MaxPackets = 5
  BufferSize = 10
  HeaderSize = 2
  MaxPacketSize = 3
  ReadSize = 4
  PacketSizes <- TwoSizes
  MaxPosted = 5
CHECK_DEADLOCK FALSE
INVARIANTS
  TypeOK
  Intact
  Framed
  DroppedIsLong
PROPERTIES
  Implements
  HandedOver
  ClientImplements
  ClientReads
