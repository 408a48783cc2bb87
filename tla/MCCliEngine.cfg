SPECIFICATION FairSpec
CONSTANTS
  calls = calls
  notes = notes
  loops = loops
  last = last
  k = k
  Script <- MCScript
  Pieces <- MCPieces
  Entered <- MCEntered
  Key <- MCKey
  MaxScriptDepth = 4
  MaxFiles = 8
  HistoryDepth = 2
  MaxValueLen = 3
  MaxEntered = 4
INVARIANTS
  DepthCountsScripts
  HistoryHoldsLast
PROPERTIES
  FailureStopsScripts
  PromptReturns
