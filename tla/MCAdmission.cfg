SPECIFICATION FairSpec
CONSTANTS
  Workers = {w1, w2}
  Capacity = 3
  Policies = {"block", "dt", "dh", "random"}
  Requests <- OneProgram
  ClientFaults = {"stall"}
  Spurious = FALSE
  OpenMax = 9
  MaxConns = 4
PROPERTIES
  ImplementsAdmission
  EveryConnectionEnds
