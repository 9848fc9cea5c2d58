SPECIFICATION FairSpec
CONSTANTS
  EMA <- MCEma
  MR <- MCMr
  LO = 1
  HI = 2
  START = 1
  Sharpes = {10, 20}
  TARGET = 15
  WinRates = {40, 60}
  MIN_WR = 50
  CONVERGE = 2
  MAX_ITER = 3
INVARIANTS AcceptedIsLoaded BaselineIsTheirs
PROPERTIES NothingTriedTwice SearchIsReloaded
