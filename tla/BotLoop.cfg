SPECIFICATION FairSpec
CONSTANTS
  Equities = {80, 100}
  HALT_DD = 20
  DAILY_LIMIT = 2
  LOSSES = 2
  COOLING = 2
  Volume = 1
  Orders = 2
INVARIANTS TargetTakenOnce TakenIsProtected TargetsManaged
PROPERTIES PauseHonoured PauseEnds
