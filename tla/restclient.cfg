SPECIFICATION Spec
CONSTANTS
  Callers = {c1, c2}
  Types = {SPOT, SWAP}
  Prices = {9995, 10040, 12345}
  MaxCalls = 3
  MaxVersion = 1
  MaxSessions = 2
SYMMETRY Symmetry
INVARIANTS OrderIsTakenOnce ReloadIsFresh PricesKeepOrder
CHECK_DEADLOCK FALSE
