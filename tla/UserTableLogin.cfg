CONSTANTS
  Workers = {w1}
  Names = {n, k}
  Passwords = {p, q}
  NULL = NULL
  MaxRequests = 3
SPECIFICATION Spec
INVARIANTS
  LoginIsInTable
CHECK_DEADLOCK FALSE
