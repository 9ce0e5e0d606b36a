SPECIFICATION Spec
CONSTANTS
  Senders = {s1}
  Receivers = {r1, r2}
  Capacity = 7
  Sizes = {1, 2, 3}
  Buffers = {1, 3}
  MaxMsgs = 5
  MaxLate = 0

INVARIANT ReceiverSurvives
CHECK_DEADLOCK FALSE
