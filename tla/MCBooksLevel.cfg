CONSTANTS
  Instruments <- MCInstruments
  Prices <- MCPrices
  Packets <- MCPackets
  Feed <- MCFeed
  StreamDepth = 1
  MaxWords = 3
  MaxAsked <- MCMaxAsked
SPECIFICATION Spec
INVARIANT OnlyLevel0
