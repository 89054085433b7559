SPECIFICATION Spec
CONSTANTS
  NULL = NULL
  INITIAL_SIZE = 8
  MAX_CHAIN_LENGTH = 2
  Name <- MCName
  HashValue <- MCHashValue
  Level <- MCLevel
  MinLevel = 1
  MaxPieces = 3
  MaxOpen = 2
INVARIANT EveryLoggerIsFound
PROPERTY LogsMessagesInOrder
CHECK_DEADLOCK FALSE
