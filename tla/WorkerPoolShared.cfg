CONSTANTS
  Workers = {w1, w2}
  Requests = {r1, r2}
  Conns = {c1}
  NULL = NULL
  MaxRequests = 1
  Failing = {}
  Watched = {}
  MaxEintr = 0
  MaxInterrupted = 0
  MaxEvents = 4
SPECIFICATION Spec
INVARIANTS
  ConnectionNotShared
CHECK_DEADLOCK FALSE
