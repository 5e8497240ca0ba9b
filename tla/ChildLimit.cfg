CONSTANTS
  NPROC = 3
  MaxLimit = 1
  MinCount = 1
SPECIFICATION LimitFairSpec
INVARIANTS
  ParentIsAlive
  ChildCountExact
PROPERTIES
  ReapedOffItsStack
  WaitFailsRightly
  WaitReturns
CHECK_DEADLOCK FALSE
