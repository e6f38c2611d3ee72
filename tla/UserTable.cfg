CONSTANTS
  Workers = {w1, w2}
  Names = {n, k}
  Passwords = {p, q}
  NULL = NULL
  MaxRequests = 3
SPECIFICATION FairSpec
INVARIANTS
  TypeOK
  MapFollowsTable
  RegisteredIsStored
PROPERTIES
  Answered
CHECK_DEADLOCK FALSE
