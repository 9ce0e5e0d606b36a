SPECIFICATION Spec
CONSTANTS
  Pid = {1, 2, 3}
  Root = 1
  MaxRuns = 3
PROPERTIES DeadChildNotified
CHECK_DEADLOCK FALSE
