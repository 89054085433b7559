SPECIFICATION Spec
CONSTANTS
  CHORD_ID_BITS = 3
  Addr = {1, 4, 5, 6}
  Self = 4
  IsV6 = FALSE
  V4Mapped = {1, 4, 5, 6}
  Unspecified = Unspecified
  NULL = NULL
  AddrId <- MCAddrId
  WellKnown <- MCWellKnown
  MAX_PASSIVE_FINGERS = 1
  PING_THRESH = 2
  NFINGERS = 3
  NSUCCESSORS = 1
  NPREDECESSORS = 1
  DEF_TTL = 32
  PERIOD_PING_PRED = 1
  CHORD_CLEAN_PERIOD = 2
  MaxStarts = 1
INVARIANTS
  TypeOK
  PassiveFingersCounted
  RangeFollowsPredecessor
  AssertionsHold
  PredecessorOutlivesInsertion
  ActiveFingersWerePinged
  DormantUntilAddressKnown
  ForwardingMakesProgress
PROPERTY ActiveFingersAreKept
CHECK_DEADLOCK FALSE
