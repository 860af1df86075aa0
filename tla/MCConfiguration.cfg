CONSTANTS
  Instruments <- MCInstruments
  Prices <- MCPrices
  Packets <- MCPackets
  Messages <- MCMessages
  Conf <- MCConf
  HostPackets <- AllPackets
  MaxPackets = 0
  StreamDepth = 1
  NotifDepth = 1
  InDepth = 1
  MaxAsked <- MCMaxAsked
SPECIFICATION FairSpec
INVARIANTS TypeOK WholeConfigurations WholeTriggers AckTellsMemory AnswersInOrder
PROPERTY AnsweredBetweenTriggers
