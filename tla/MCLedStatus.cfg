SPECIFICATION FairSpec
CONSTANTS
  p1 = p1
  Pin = {p1}
  NC = NC
  QueueLength = 3
  MaxTimers = 3
INVARIANTS
  LedAllOrNothing
  NoUseAfterDelete
  OneBlinker
PROPERTIES
  AttackShown
