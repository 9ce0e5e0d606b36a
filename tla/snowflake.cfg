SPECIFICATION Spec
CONSTANTS
  TimeSize = 4
  TimeBackSize = 4
  NodeSize = 2
  SerialSize = 2
  node = 1
  Clock <- Readings
  MaxCalls = 8
INVARIANTS TypeOK UniqueWithinCapacity
CHECK_DEADLOCK FALSE
