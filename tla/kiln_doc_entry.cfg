\* One transaction that stores to three lines, a buffer of two entries.
CONSTANTS
  Procs = {p1}
  Addrs = {1, 2, 3}
  StackBase = 9
  TxBound = 1
  PB_SIZE = 2
  L1Sets = 1
  L1Ways = 1
  L2Sets = 1
  L2Ways = 1
  NvcSets = 1
  NvcWays = 2
  DramSets = 1
  DramWays = 1
  NoProc = NoProc
SPECIFICATION Spec
PROPERTY NewEntryMovesOn
