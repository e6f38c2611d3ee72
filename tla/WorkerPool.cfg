CONSTANTS
  Workers = {w1, w2}
  Requests = {r1, r2, r3}
  Conns = {c1}
  NULL = NULL
  MaxRequests = 1
  Failing = {r1}
  Watched = {r1}
  MaxEintr = 0
  MaxInterrupted = 1
  MaxEvents = 3
SPECIFICATION FairSpec
INVARIANTS
  TypeOK
  OneWorkerPerRequest
  EveryRequestInOnePlace
  NoLostWakeup
  PoolTicketsMatch
PROPERTIES
  QueuedRequestProcessed
CHECK_DEADLOCK FALSE
