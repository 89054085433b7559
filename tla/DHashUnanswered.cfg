SPECIFICATION FairSpec
CONSTANTS
  CHORD_ID_BITS = 3
  Addr = {1, 4, 6}
  Unspecified = Unspecified
  NULL = NULL
  AddrId <- MCAddrId
  MAX_PASSIVE_FINGERS = 1
  PING_THRESH = 1
  File = {file}
  FileId <- MCFileId
  Starts <- MCSkips
  MaxFaults = 1
  MaxTraffic = 1
  DATA_TTL = 10
  Faults = {"connect"}
PROPERTY EveryRequestAnswered
CHECK_DEADLOCK FALSE
