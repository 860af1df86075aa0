CONSTANTS
  TcpSessions <- MCTcpSessions
  Kept <- MCKept
  Offsets <- MCOffsets
  StreamDepth = 1
  MaxPacket = 3
SPECIFICATION TcpSpec
INVARIANT TcpTypeOK
PROPERTY JustAnswer
