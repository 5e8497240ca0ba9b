CONSTANTS
  W = 2
  Requests = 2
  CAPACITY = 2
  RECORD = 3
  RESULT = 1
SPECIFICATION RunSpec
INVARIANTS
  RestoredIsStored
  FailsOnlyOnFault
PROPERTIES RunEnds
CHECK_DEADLOCK FALSE
