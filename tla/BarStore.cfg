SPECIFICATION FairStoreSpec
CONSTANTS
  MAX_BARS = 2
  WANTED = 3
  CHUNK = 2
  LAST_PERIOD = 4
  MAX_CRASHES = 1
  MAX_CALLS = 1
  None = None
  Torn = Torn
INVARIANTS TypeOK NewestKept
CHECK_DEADLOCK FALSE
PROPERTIES SealedReachesDisk
