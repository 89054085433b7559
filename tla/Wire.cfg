SPECIFICATION Spec
CONSTANTS
  NULL = NULL
  Server = {s1, s2}
  DHash = DHash
  Client = Client
  Ticket <- MCTicket
  Address <- MCAddress
  Port <- MCPort
  Ttl <- MCTtl
  Name <- MCName
INVARIANTS
  HandlersReadWhatWasSent
  HandlersGetTheirArguments
  UnhandledPacketsTravelOn
  
