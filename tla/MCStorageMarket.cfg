SPECIFICATION DealsSpec
CONSTANTS
  MarketParts = {"market", "graphsync", "transfer"}
  d1 = d1
  d2 = d2
  c1 = c1
  c2 = c2
  Deals = {d1, d2}
  Cids = {c1, c2}
  Settings <- MCSettings
  GsPeers = {"p"}
  GsRetries = {1}
  GsChunks = {0, 2}
  GsDialFails = TRUE
  GsMaxRequests = 2
  GsMaxRemote = 2
  GsMaxEvents = 3
  DtPushes = 3
  DtBlocks = 2
  kStreamOpenMax = 2
  DtLoss = TRUE
  DtMaxFaults = 2
INVARIANTS DealsTypeOK  
CHECK_DEADLOCK FALSE
