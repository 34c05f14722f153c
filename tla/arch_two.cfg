\* Two processes with one line in every cache, which share the NVC and the DRAM;
\* address 1 is heap, 2 is stack.
CONSTANTS
  numProcs = 2
  Addrs = {1, 2}
  StackBase = 2
  TxBound = 0
  PB_SIZE = 1
  L1Sets = 1
  L1Ways = 1
  L2Sets = 1
  L2Ways = 1
  NvcSets = 1
  NvcWays = 1
  DramSets = 1
  DramWays = 1
SPECIFICATION ArchSpec
INVARIANTS
  LinesTagged
  ModifiedWasStored
