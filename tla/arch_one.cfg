\* One process: an L1 of one line over an L2 of two, one-line NVC and DRAM, a
\* persist buffer of two lines; address 3 is on the stack.
CONSTANTS
  numProcs = 1
  Addrs = {1, 2, 3}
  StackBase = 3
  TxBound = 1
  PB_SIZE = 2
  L1Sets = 1
  L1Ways = 1
  L2Sets = 1
  L2Ways = 2
  NvcSets = 1
  NvcWays = 1
  DramSets = 1
  DramWays = 1
SPECIFICATION ArchSpec
INVARIANTS
  ArchTypeOK
  LinesUnique
  EntriesDistinct
  VictimArrives
