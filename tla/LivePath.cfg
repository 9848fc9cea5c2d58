SPECIFICATION FairSpec
CONSTANTS
  Trades = {t1, t2}
  Fetches = {f1}
  NoCommand = none
  MAX_ATTEMPTS = 2
  QUEUE_MAX = 2
INVARIANTS Conserved AcceptedInOrder
PROPERTIES AcceptedIsHandled
CHECK_DEADLOCK FALSE
