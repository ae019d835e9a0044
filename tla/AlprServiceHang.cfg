SPECIFICATION FairSpec
CONSTANTS
  MaxStarts = 1
  MaxSignals = 0
  MaxCommands = 0
  Backlog = 2
PROPERTIES
  LoopEndsProcess
CHECK_DEADLOCK FALSE
