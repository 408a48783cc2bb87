SPECIFICATION FairSpec
CONSTANTS
  c1 = c1
  Client = {c1}
  Capacity = 1
  StopPolls = 4
  LoopTicks = 4
  PollTicks = 2
  MaxTasks = 2
  MaxQueues = 2
  MaxSent = 2
INVARIANTS
  InitAllOrNothing
  OneGuiTask
  RunningMatchesTask
  StopIsGraceful
  NoDanglingQueue
PROPERTIES
  EventsConsumed
