CONSTANTS
  NCPU = 3
  Batch = 2
  FirstPage = 4
  PhysTop = 9
SPECIFICATION ScanSpec
INVARIANTS
  OnePlace
  NoLeak
PROPERTIES
  NullMeansNothingStayed
  ImplementsAllocator
