SPECIFICATION Spec
CONSTANTS
  CHORD_ID_BYTES = 3
  BYTE_BITS = 2
  Addr = {15, 17, 19, 51}
  Self = 15
  Unspecified = Unspecified
  NULL = NULL
  AddrId <- MCAddrId
  WellKnown <- MCWellKnown
  MAX_PASSIVE_FINGERS = 2
  PING_THRESH = 2
  NFINGERS = 3
  NSUCCESSORS = 1
  NPREDECESSORS = 1
  DEF_TTL = 32
  PERIOD_PING_PRED = 1
  CHORD_CLEAN_PERIOD = 2
INVARIANTS
  ListIsLinked
  DrawnIdsLieBetween
PROPERTY ImplementsTable
