SPECIFICATION Spec
CONSTANTS
  none = none
  Report <- MCReport
  NoRssi = none
  Time = {1, 2, 4, 6, 7, 12}
  Second = 3
  Types = 2
  Subtypes = 2
  RssiMin <- MCRssiMin
  RssiMax = 0
  BinDbm = 2
  MaxSeen = 4
INVARIANTS
  CountsAsLabelled
  WindowIsASecond
  WindowHoldsLatest
