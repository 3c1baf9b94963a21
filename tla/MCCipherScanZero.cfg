SPECIFICATION Spec
CONSTANTS
  N = 2
  Concurrency = 0
CHECK_DEADLOCK FALSE
PROPERTIES
  Termination
