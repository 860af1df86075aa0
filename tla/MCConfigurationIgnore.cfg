CONSTANTS
  Instruments <- MCInstruments
  Prices <- MCPrices
  Packets <- MCPackets
  Messages <- MCMessages
  Conf <- MCConf
  HostPackets <- UpdatesAndOneWord
  MaxPackets = 2
  StreamDepth = 1
  NotifDepth = 1
  InDepth = 1
  MaxAsked <- MCMaxAsked
SPECIFICATION Spec
INVARIANT IgnoresOnlyUnknown
CHECK_DEADLOCK FALSE
