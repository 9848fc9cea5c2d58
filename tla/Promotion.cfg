SPECIFICATION Spec
CONSTANTS
  N = 3
  MAX_ITERATIONS = 2
  MAX_CRASHES = 2
INVARIANTS OneRunPerCombo
PROPERTIES FirstPromotionEarned
CHECK_DEADLOCK FALSE
