SPECIFICATION Spec
CONSTANTS
  Callers = {c1, c2}
  max_count_ = 2
  MaxThreads = 3
INVARIANTS TypeOK FrameOutlivesUse HandlerPublished LimitKept
PROPERTIES RunReturns
CHECK_DEADLOCK FALSE
