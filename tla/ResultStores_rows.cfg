SPECIFICATION Spec
CONSTANTS
  None = None
  Record <- Records
  Batches <- SmallBatches
  MaxCalls = 3
  MaxOpens = 2
INVARIANTS
  TypeOK
  ReadersFind
PROPERTIES
  TwiceOnlyAfterStop
CHECK_DEADLOCK FALSE
