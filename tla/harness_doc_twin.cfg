SPECIFICATION Spec
CONSTANTS
  numProcs = 2
  Slots = 2
  Mortal = {}
CHECK_DEADLOCK FALSE
INVARIANT OneSimPerCore
