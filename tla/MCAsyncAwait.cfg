CONSTANTS
  r1 = r1
  r2 = r2
  r3 = r3
  Resources <- One
  Awaited <- One
SPECIFICATION FairSpec
PROPERTIES AwaitAnswered
CHECK_DEADLOCK FALSE
