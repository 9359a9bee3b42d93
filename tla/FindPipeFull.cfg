SPECIFICATION FairSpec
CONSTANTS
  MaxStages = 2
  MaxBytes = 3
  PipeSize = 2
  FdMax = 5
PROPERTIES
  CommandEnds
CHECK_DEADLOCK FALSE
