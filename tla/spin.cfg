SPECIFICATION FairSpec
CONSTANTS
  Threads = {t1, t2, t3}
  NoThread = NoThread
  TicketMod = 3
INVARIANTS TypeOK
PROPERTIES ImplementsMutex TicketOrder TicketServed SomebodyEnters
