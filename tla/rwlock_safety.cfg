SPECIFICATION Spec
CONSTANTS
  Proc = {p1, p2, p3}
  MaxFail = 2
  Watched = {p1, p2, p3}
SYMMETRY ProcSymmetry
INVARIANTS
  TypeOK
  MutualExclusion
  GrantAccounting
  NoLostWakeup
  NoOrphanSleeper
PROPERTIES
  WritersFirst
  ReadersFirst
  ImplementsRWLock
CHECK_DEADLOCK FALSE
