CONSTANTS
  Instruments <- MCInstruments
  Prices <- MCPrices
  Packets <- MCPackets
  Feed <- MCFeed
  ConfOf <- MCConfOf
  StreamDepth = 1
  NotifDepth = 1
  MaxWords = 4
SPECIFICATION FairSpec
INVARIANTS TypeOK Lockstep
PROPERTIES DecidesEveryTrade Drains
CHECK_DEADLOCK FALSE
