CONSTANTS
  None = None
  Proc = {p1, p2}
  Inum = {1, 2, 3}
  ROOTINO = 1
  Name = {a}
  MaxPath = 1
  MaxCalls = 3
SPECIFICATION StraySpec
INVARIANTS
  RefsExact
  CacheIsWrittenThrough
  InodesAllocated
  NoLockCycle
  
SYMMETRY Symmetry
CHECK_DEADLOCK FALSE
