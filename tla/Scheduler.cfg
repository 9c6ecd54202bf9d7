SPECIFICATION FairSpec
CONSTANTS
  Workers = 2
  Window = 1
  MaxFirings = 3
  MaxHour = 2
  MaxFaults = 1
INVARIANT OneInWindow
PROPERTY EveryFiringEnds
CHECK_DEADLOCK FALSE
