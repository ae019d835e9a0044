SPECIFICATION FairSpec
CONSTANTS
  MaxStarts = 2
  MaxSignals = 1
  MaxCommands = 3
  Backlog = 2
INVARIANTS
  TypeOK
  PidFileMatches
  StopClean
PROPERTIES
  CommandsAnswered
  StopEnds
CHECK_DEADLOCK FALSE
