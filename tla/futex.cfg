SPECIFICATION FairSpec
CONSTANTS
  Threads = {t1, t2, t3}
  NoThread = NoThread
  SPINS = 2
INVARIANTS TypeOK MutualExclusion NoLostWakeup
PROPERTIES SleeperOnlyOvertaken ImplementsMutex
