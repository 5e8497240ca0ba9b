CONSTANTS
  None = None
  Proc = {p1, p2, p3}
  Block = {b1, b2}
  Value = {v1, v2}
  MAXOPBLOCKS = 2
  LOGSIZE = 4
  nlog = 3
SPECIFICATION Spec
INVARIANTS
  PinnedUntilInstalled
  Reserved
  SleepersMustWait
PROPERTIES
  ImplementsAtomicDisk
SYMMETRY Symmetry
