SPECIFICATION Spec
CONSTANTS
  Clients = {a, b}
  MaxSignals = 1
INVARIANTS
  CloseIsLast
