CONSTANTS
  s1 = s1
  Sessions <- MCSessions
  MAX_RETRIES = 0
  MaxTimers = 1
SPECIFICATION Spec
PROPERTIES Served Ends
