CONSTANTS
  Writers = {w1, w2}
  NULL = NULL
  QueueSize = 1
  SplitLines = 2
  MaxLines = 4
  MaxDay = 1
SPECIFICATION FairSpec
INVARIANTS
  EveryLineOnce
  NoWriteToClosedFile
  FileMatchesCount
PROPERTIES
  QueuedLineWritten
CHECK_DEADLOCK FALSE
