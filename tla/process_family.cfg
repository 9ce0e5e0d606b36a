SPECIFICATION Spec
CONSTANTS
  Pid = {1, 2, 3}
  Root = 1
  MaxRuns = 3
INVARIANTS TypeOK CalledOnceWhenDead EndsOwned ParentKnown
PROPERTIES LiveChildKept LoneDeathNotified
CHECK_DEADLOCK FALSE
