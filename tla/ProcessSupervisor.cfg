SPECIFICATION FairSupervisorSpec
CONSTANTS
  MAX_RESTARTS = 4
  MULT = 2
  CAP = 6
INVARIANTS SupervisorTypeOK ChildIsOwned
PROPERTIES StopEnds ComesBack
CHECK_DEADLOCK FALSE
