CONSTANTS
  s1 = s1
  Sessions <- MCSessions
  MAX_RETRIES = 2
  MaxTimers = 3
SPECIFICATION Spec
INVARIANTS TypeOK NeverStalls
