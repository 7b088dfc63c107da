CONSTANTS
  NumPackets = 4
  PacketSizes = {2, 3, 5, 6}
  BufSize = 6
SPECIFICATION Spec
INVARIANTS
  TypeOK
  ReceiveHasRoom
PROPERTY
  ImplementsPacketStream
CHECK_DEADLOCK FALSE
