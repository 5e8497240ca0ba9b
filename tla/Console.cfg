CONSTANTS
  Nothing = Nothing
  Irq = Irq
  User = {p1, p2}
  Written = {y, z}
  INPUT_BUF = 2
  UART_TX_BUF_SIZE = 3
  UintSpan = 4
SPECIFICATION ConsoleSpec
INVARIANTS
  SleepersMustWait
  OutputGoesOn
PROPERTIES
  ImplementsTerminal
SYMMETRY Symmetry
VIEW View
CHECK_DEADLOCK FALSE
