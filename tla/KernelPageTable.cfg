CONSTANTS
  Slot = {1, 2}
  NCPU = 2
  NPAGE = 40
  PGSIZE = 2
  PTES = 3
  PLIC = 6
  UART0 = 7
  KERNBASE = 18
  TRAMPOLINE = 26
  Size = {3, 7}
  MaxLeft = 14
  MaxCalls = 4
SPECIFICATION TablesSpec
INVARIANTS
  PagesExact
  CopyinReadsUserMemory
  NoStaleTable
