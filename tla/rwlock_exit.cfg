SPECIFICATION ExitSpec
CONSTANTS
  Proc = {p1, p2, p3}
  MaxFail = 0
  MaxUndo = 3
INVARIANT CtrlMutex
CHECK_DEADLOCK FALSE
