SPECIFICATION Spec
CONSTANTS
  a = a
  b = b
  c = c
  large = large
  untyped = untyped
  NoPacket = NoPacket
  Packet <- MCPacket
  Length <- MCLength
  Type <- MCType
  Alias <- MCAlias
  HeaderSize = 2
  MaxFrame = 4
  DefaultCapacity = 9
  FallbackCapacity = 7
  SizeMax = 63
  Requests <- MCRequests
  Rooms <- MCRooms
  MaxPushed = 5
  MaxDropped = 1
INVARIANTS
  RecordsIntact
  RecordsChained
  RingConsistent
  NeverCorrupt
PROPERTIES
  EmptyTakesHalf
  QueueSpec
