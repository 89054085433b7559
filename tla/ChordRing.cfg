SPECIFICATION FairSpec
CONSTANTS
  CHORD_ID_BITS = 3
  Addr = {1, 4, 6}
  Node = {1, 4}
  Unspecified = Unspecified
  NULL = NULL
  AddrId <- MCAddrId
  Salt <- MCSalt
  WellKnown <- MCWellKnown
  Known <- MCKnown
  MAX_PASSIVE_FINGERS = 2
  PING_THRESH = 1
  NFINGERS = 1
  NSUCCESSORS = 1
  NPREDECESSORS = 1
  DEF_TTL = 3
  PERIOD_PING_PRED = 1
  CHORD_CLEAN_PERIOD = 2
  Capacity = 1
  MaxCrashes = 1
PROPERTY DeadNodesAreForgotten
PROPERTY ServersBehave
INVARIANT PeersShareNoIdentifier
CHECK_DEADLOCK FALSE
