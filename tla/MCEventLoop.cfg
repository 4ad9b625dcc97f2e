CONSTANTS
  t1 = t1
  t2 = t2
  Timers = {t1, t2}
  Timeouts <- MCTimeouts
  IdleCap = 2
  MaxFns = 1
  Unset = Unset
SPECIFICATION FairSpec
INVARIANTS TypeOK Covered
PROPERTIES ServiceSpec ServiceAnswers LostIsForgotten LaterRuns
