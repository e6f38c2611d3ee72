CONSTANTS
  Requests <- AllRequests
  READ_BUFFER_SIZE = 14
  IntMax = 60
  ContentLengths = {3}
  HeaderLength = 2
  FileSize = 5
  SendBuffer = 3
  MaxSends = 3
SPECIFICATION Spec
INVARIANTS
  CompleteRequestNotAwaited
CHECK_DEADLOCK FALSE
