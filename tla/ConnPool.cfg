CONSTANTS
  Threads = {t1, t2, t3}
  Conns = {c1, c2}
  NULL = NULL
  MaxEintr = 1
SPECIFICATION FairSpec
INVARIANTS
  TypeOK
  TicketsMatchList
  FrontNeverEmptyUnlessInterrupted
  ExclusiveUse
  NoConnectionLost
PROPERTIES
  ImplementsResourcePool
  WaiterServed
CHECK_DEADLOCK FALSE
