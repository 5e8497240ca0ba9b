CONSTANTS
  None = None
  Proc = {p1, p2, p3}
  NUM = 7
  IdxSpan = 7
SPECIFICATION Spec
PROPERTIES
  RequestReturns
  ImplementsBlockDevice
