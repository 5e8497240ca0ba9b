CONSTANTS
  None = None
  Proc = {p1, p2, p3}
  Byte = {0, 1}
  PIPESIZE = 2
  UintSpan = 4
  MaxCount = 2
SPECIFICATION Spec
INVARIANTS
  FreedByTheLast
  SleepersMustWait
PROPERTIES
  ImplementsFifo
SYMMETRY Symmetry
CHECK_DEADLOCK FALSE
