SPECIFICATION Spec
CONSTANTS
  a = a
  b = b
  Packet <- MCPacket
  Length <- MCLength
  HeaderSize = 2
  Capacity = 8
  SizeMax = 63
  MaxPushed = 4
INVARIANT DeliversAcceptedPackets
CHECK_DEADLOCK FALSE
