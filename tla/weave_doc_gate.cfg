SPECIFICATION FairSpec
CONSTANTS
  numProcs = 2
  PhaseBound = 3
CHECK_DEADLOCK FALSE
PROPERTIES GateOpens
