SPECIFICATION Spec
CONSTANTS
  Workers = {w1, w2}
  Capacity = 2
  Policies = {"block", "dt", "dh", "random"}
  Requests <- MCRequests
  ClientFaults = {"stall", "hangup", "reset"}
  Spurious = TRUE
  OpenMax = 9
  MaxConns = 4
SYMMETRY Symmetry
INVARIANTS
  RingConsistent
  NoLostWakeup
  DescriptorsOwned
  FirstComeFirstServed
  NoFailedClose
  EnoughDescriptors
  AnswersCounted
