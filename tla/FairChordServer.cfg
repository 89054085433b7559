SPECIFICATION FairSpec
CONSTANTS
  CHORD_ID_BITS = 3
  Addr = {1, 4, 6, 7}
  Self = 4
  IsV6 = FALSE
  V4Mapped = {1, 4, 6, 7}
  Unspecified = Unspecified
  NULL = NULL
  AddrId <- MCAddrId
  WellKnown <- MCWellKnown
  MAX_PASSIVE_FINGERS = 2
  PING_THRESH = 2
  NFINGERS = 3
  NSUCCESSORS = 2
  NPREDECESSORS = 1
  DEF_TTL = 32
  PERIOD_PING_PRED = 1
  CHORD_CLEAN_PERIOD = 2
  MaxStarts = 1
PROPERTY SettledFingersKeepAnswering
CHECK_DEADLOCK FALSE
