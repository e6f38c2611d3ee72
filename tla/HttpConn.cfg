CONSTANTS
  Requests <- AllRequests
  READ_BUFFER_SIZE = 14
  IntMax = 60
  ContentLengths <- AllLengths
  HeaderLength = 2
  FileSize = 5
  SendBuffer = 3
  MaxSends = 3
SPECIFICATION FairSpec
INVARIANTS
  TypeOK
  BodyTerminatorInBuffer
  LinesNeverStall
  StreamIsPrefixUnlessResent
  MappedWhileSending
PROPERTIES
  ResponseCompleted
CHECK_DEADLOCK FALSE
