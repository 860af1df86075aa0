CONSTANTS
  Instruments <- MCInstruments
  Prices <- MCPrices
  Packets <- MCPackets
  Feed <- MCFeed
  ConfOf <- MCConfOf
  BookOf <- MCBookOf
  StreamDepth = 1
  ContextDepth = 2
  NotifDepth = 1
  MaxWords = 4
SPECIFICATION FairSpec
INVARIANTS TypeOK Aligned JustVerdict
PROPERTIES DecidesEveryTrade Drains
CHECK_DEADLOCK FALSE
