\* Two interchangeable processes that share a two-way NVC; address 1 is heap, 2
\* is stack, and either process may be inside its first transaction or not in
\* one yet.
CONSTANTS
  Procs = {p1, p2}
  Addrs = {1, 2}
  StackBase = 2
  TxBound = 0
  PB_SIZE = 1
  L1Sets = 1
  L1Ways = 1
  L2Sets = 1
  L2Ways = 1
  NvcSets = 1
  NvcWays = 2
  DramSets = 1
  DramWays = 1
  NoProc = NoProc
SPECIFICATION Spec
SYMMETRY Symmetry
INVARIANTS
  CachesUnique
  NvcCritical
  NvcTagOfOwner
