CONSTANTS
  Instruments <- MCInstruments
  Prices <- MCPrices
  Packets <- MCPackets
  Requests <- MCRequests
  Asks <- MCAsks
  Notifying <- MCNotifying
  TxDepth = 1
  StreamDepth = 1
  NotifDepth = 1
  InDepth = 1
SPECIFICATION Spec
INVARIANT TriggersCollectionAsked
