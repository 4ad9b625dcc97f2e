CONSTANTS
  r1 = r1
  r2 = r2
  r3 = r3
  Resources <- Three
  Awaited <- Two
SPECIFICATION FairSpec
INVARIANTS FlagNotLost AwaitSound
PROPERTIES QueueSpec Served Joins
CHECK_DEADLOCK FALSE
