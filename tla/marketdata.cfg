SPECIFICATION Spec
CONSTANTS
  Lines <- SomeLines
  MaxLines = 4
  MaxFiles = 2
INVARIANTS EveryTimeOnce ResultIsWhole
PROPERTY HandlesAreReleased
CHECK_DEADLOCK FALSE
