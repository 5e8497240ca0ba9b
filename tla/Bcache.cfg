CONSTANTS
  NoProc = NoProc
  Proc = {p1, p2, p3}
  NBUF = 2
  NBUCKET = 2
  Block = {1, 2, 3}
  Value = {0, 1}
SPECIFICATION ScanSpec
INVARIANTS
  OneBufferPerBlock
  RefcntExact
  HolderSeesLatest
PROPERTY PanicMeansNothingStayedIdle
SYMMETRY ProcSymmetry
CHECK_DEADLOCK FALSE
