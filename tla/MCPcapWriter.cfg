SPECIFICATION Spec
CONSTANTS
  a = a
  b = b
  none = none
  Packet <- MCPacket
  Size <- MCSize
  GlobalHeader = 2
  RecordHeader = 1
  Snaplens = {0, 3}
  Thresholds = {0, 3, 6}
  MaxSplit = 2
  MaxTail = 2
  MaxWrites = 5
INVARIANTS
  SplitBound
  CountersMatchFile
  TotalsMatchFiles
PROPERTIES
  ClosedFilesFrozen
  LogSpec
