SPECIFICATION FairSpec
CONSTANTS
  MaxStages = 4
  MaxBytes = 3
  PipeSize = 3
  FdMax = 5
INVARIANTS
  StdioRestored
  Delivered
PROPERTY CommandEnds
