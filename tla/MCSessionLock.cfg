CONSTANTS
  l1 = l1
  l2 = l2
  m1 = m1
  m2 = m2
  None = None
  Locks <- TwoLocks
  Monitors <- Both
  AllowRestore = TRUE
  Rivals = FALSE
  KeepsSurfaces = TRUE
SPECIFICATION FairSpec
INVARIANTS NothingStray TimerArmed Hidden
PROPERTIES Answered StaysHidden
