SPECIFICATION FairSpec
CONSTANTS
  numProcs = 2
  Slots = 3
  Mortal = {1, 2, 3, 4}
CHECK_DEADLOCK FALSE
INVARIANTS TypeOK UsesInitialised EraseFindsChild NoOrphans
PROPERTIES HarnessEnds
