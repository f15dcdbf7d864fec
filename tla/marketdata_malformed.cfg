SPECIFICATION Spec
CONSTANTS
  Lines <- SomeLines
  MaxLines = 4
  MaxFiles = 2
PROPERTY MalformedIsReported
CHECK_DEADLOCK FALSE
