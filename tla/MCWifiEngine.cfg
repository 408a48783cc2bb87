SPECIFICATION Spec
CONSTANTS
  InReach = 3
  MaxResults = {0, 2}
  DefaultResults = 4
  MaxNetifs = 8
INVARIANTS
  HandlesLive
  FlagsMatchDriver
  NoStrayNetif
  ScanMemoryBalanced
