SPECIFICATION Spec
CONSTANTS
  Keys = {k1, k2}
  Causes = {c1}
  MAX_CONCURRENT = 1
  MAX_PER_DAY = 1
  COOLDOWN = 2
  DAY = 2
  RETRIES = 2
  LAST_TIME = 2
  MAX_CRASHES = 1
SYMMETRY KeySymmetry
INVARIANTS OneOpenEvent WithinBudget WithinSlots AlertsSpaced
PROPERTIES OwnKept
CHECK_DEADLOCK FALSE
