CONSTANTS
  Bytes = {0, 1}
  Zero = 0
  InitSize = 2
  StackSize = 2
  MaxData = 4
SPECIFICATION Spec
INVARIANTS
  TypeOK
  SizeBounded
PROPERTIES
  ImplementsByteFifo
