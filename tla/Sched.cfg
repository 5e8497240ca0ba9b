CONSTANTS
  CPU = {c1, c2}
  NPROC = 3
  None = None
SPECIFICATION FairSpec
INVARIANTS
  OneCpuPerProcess
  SwtchWithOneLock
PROPERTIES
  ImplementsMonitor
  RunnableRuns
