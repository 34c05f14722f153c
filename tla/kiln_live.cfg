\* Two processes that contend for nvc_lock, one line in every cache; nothing is
\* persistent, which adds steps but no waiting.
CONSTANTS
  Procs = {p1, p2}
  Addrs = {1, 2}
  StackBase = 1
  TxBound = 0
  PB_SIZE = 1
  L1Sets = 1
  L1Ways = 1
  L2Sets = 1
  L2Ways = 1
  NvcSets = 1
  NvcWays = 1
  DramSets = 1
  DramWays = 1
  NoProc = NoProc
SPECIFICATION FairSpec
PROPERTY
  AccessReturns
