CONSTANTS
  BOOKS = 2
  CHUNKS <- MCChunks
  PARAMETERS <- MCParameters
  SLOTS = 2
  MAX_RUNS = 2
  MAX_CRASHES = 1
SPECIFICATION FairSpec
INVARIANT SpecIdsUnique
INVARIANT AnswersKept
INVARIANT AdrOfOwnStrategy
PROPERTY RunEnds
CHECK_DEADLOCK FALSE
