SPECIFICATION Spec
CONSTANTS
  TimeSize = 4
  TimeBackSize = 1
  NodeSize = 2
  SerialSize = 4
  node = 1
  Clock <- Readings
  MaxCalls = 8
INVARIANTS Unique
CHECK_DEADLOCK FALSE
