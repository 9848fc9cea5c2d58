CONSTANTS
  LENGTHS = {2, 11}
  BARS = 11
  SPLITS = 2
  EMBARGO = 1
  TRAIN = 50
  MIN_CACHE = 4
  MIN_FOLD = 5
  MIN_TRADES = 2
  WARMUP = 1
  START = 20
  SPREAD = 2
  SLIPPAGE = 1
  PRICES = {2, 4, 6}
  DISTANCES = {2}
  SIZES = {1, 2}
  WARN = 20
  REDUCE = 40
  HALT = 60
  LOSSES = 2
  DAILY = 40
SPECIFICATION Spec
INVARIANT FoldsPurged
PROPERTY HaltIsFinal
PROPERTY DailyLossStops
CHECK_DEADLOCK FALSE
