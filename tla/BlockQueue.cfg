CONSTANTS
  Producers = {p1, p2}
  Consumers = {c1, c2}
  Items = {x, y}
  NULL = NULL
  MaxSize = 2
  MaxPushes = 3
SPECIFICATION FairSpec
INVARIANTS
  TypeOK
  NoSleeperWithItems
PROPERTIES
  ImplementsBoundedFifo
  Drained
