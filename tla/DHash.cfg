SPECIFICATION FairSpec
CONSTANTS
  CHORD_ID_BITS = 3
  Addr = {1, 4, 6}
  Unspecified = Unspecified
  NULL = NULL
  AddrId <- MCAddrId
  MAX_PASSIVE_FINGERS = 1
  PING_THRESH = 1
  File = {file}
  FileId <- MCFileId
  Starts <- MCStarts
  MaxFaults = 1
  MaxTraffic = 2
  DATA_TTL = 10
  Faults = {"lose", "duplicate", "bind", "connect", "stream", "short"}
INVARIANTS
  TypeOK
  PublishedFilesSurvive
  TransfersFreedOnce
  AnsweredAtMostOnce
  LookupsAreDirect
PROPERTIES
  RequestsAnswered
  DownloadsAreReplicated
CHECK_DEADLOCK FALSE
