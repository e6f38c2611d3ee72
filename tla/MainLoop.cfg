CONSTANTS
  Timers = {a, b, c}
  NULL = NULL
  NewTimeouts = {1, 2}
  AdjustTimeouts = {2}
  MaxTime = 3
  TIMESLOT = 1
  PipeCapacity = 2
  BatchSize = 2
  MaxKills = 2
SPECIFICATION FairLoopSpec
INVARIANTS
  LoopTypeOK
  WellFormed
  KeepsTicking
PROPERTIES
  TickFiresExactlyDue
  TermStops
  DueTimersFire
CHECK_DEADLOCK FALSE
