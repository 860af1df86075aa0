CONSTANTS
  Instruments = {0}
  Prices <- MCPrices
  Packets = {0}
  Loaded <- MCLoaded
  StreamDepth = 1
  ContextDepth = 1
  NotifDepth = 1
  Feeds <- MCFeeds
SPECIFICATION MCSpec
INVARIANTS InStep BookNotOlderThanLag NeverLockedUp
