CONSTANTS
  NumPackets = 4
  PacketSizes = {2, 3, 5, 6}
  BufSize = 6
SPECIFICATION ClientSpec
PROPERTY
  ClientImplementsPacketStream
CHECK_DEADLOCK FALSE
