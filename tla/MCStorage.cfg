SPECIFICATION FairSpec
CONSTANTS
  f1 = f1
  f2 = f2
  f3 = f3
  f4 = f4
  Capture <- MCCapture
  Mtime <- MCMtime
  Bytes <- MCBytes
  CardBytes = 8
  MinFree = 5
  Slots = 3
  MaxDelete = 2
  Handle = {1, 2}
INVARIANTS
  TypeOK
  HealthTrue
  BusOwnership
  OldestScannedFirst
  NvsReady
PROPERTIES
  RemovesOnlyWhenShort
  BootTerminates
  BootAdvances
