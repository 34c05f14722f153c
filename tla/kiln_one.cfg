\* One process, private evictions at both levels, transactions 0..3: with
\* three, a persist buffer can hold records of two transactions.
CONSTANTS
  Procs = {p1}
  Addrs = {1, 2, 3}
  StackBase = 3
  TxBound = 3
  PB_SIZE = 2
  L1Sets = 1
  L1Ways = 1
  L2Sets = 1
  L2Ways = 2
  NvcSets = 1
  NvcWays = 1
  DramSets = 1
  DramWays = 1
  NoProc = NoProc
SPECIFICATION Spec
INVARIANTS
  TypeOK
  PBWindow
  PBDistinct
  CachesUnique
  WritebackLands
  StackVolatile
  TagsAgree
PROPERTY
  ImplementsLedger
