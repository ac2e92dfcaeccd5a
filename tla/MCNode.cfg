CONSTANTS
  NodeParts = {"sync", "blocksync", "peers", "file", "cache", "mpool", "index", "compact", "json", "rpc"}
  BrTipsets = {1, 2, 3, 4, 5, 6, 7}
  BrHeight <- MCHeight
  BrParent <- MCParent
  BrBranches = {1, 2, 3, 4, 5, 6, 7, 8, 9}
  BrMinLoad = 1
  SyBlocks = {"g", "a", "b", "c", "x", "y"}
  SyBlocksOf <- MCBlocksOf
  SyMiner <- MCMiner
  SyWeight <- MCWeight
  SyPeers = {1}
  SyQueueMax = 2
  SyFetchingMax = 1
  SyGenesis = 1
  SyStarts = {1, 2}
  SyLazyLimit = 1
  SyBadTipsets = {6}
  SyLiars = {}
  SyDepth = 2
  SyCompactAt = 9
  SyMaxEvents = 3
  SyMaxGossip = 1
  BsHeaders = {{}, {"a"}, {"x", "y"}, {"x", "a"}}
  BsBundles = {{}, {"a"}, {"x", "y"}, {"x", "a"}}
  BsServerLacks = {{}, {"a", "y"}}
  BsMaxLength = 2
  PpPeers = {"p", "q"}
  PpSpeakers = {"p", "q"}
  PpHeartbeat = 2
  PpEnough = 1
  PpSameTick = FALSE
  PpMaxNow = 5
  PpMaxHellos = 3
  CfGenesis = 1
  CfHeads = {2, 3, 6, 7}
  CfKeys <- MCKeys
  CfUpdateWhen = 2
  CfRenamesTear = FALSE
  CfMaxMoves = 3
  CfMaxStarts = 3
  TcKeys = {"k1", "k2", "k3", "k4"}
  TcCapacity = 3
  TcLoads = 2
  BlockGas = 7
  MinGas = 1
  MaxBlockMessages = 4
  BlockProbabilities <- MCBlockProbabilities
  MpTipsets = {1, 2, 3, 4}
  MpGenesis = 1
  MpHeight <- MCMpHeight
  MpParent <- MCMpParent
  MpMessagesOf <- MCMpMessagesOf
  MpBlocks <- MCMpBlocks
  MpFee <- MCMpFee
  MpNextFee <- MCMpNextFee
  MpBalance <- MCMpBalance
  MpGossip <- MCMpGossip
  MpKinds <- MCMpKinds
  MpBlsSenders = {1}
  MpWallet = {1}
  MpBlsCache = 1
  MpLocalCache = 1
  MpMinPremium = 2
  MpGasTarget = 2
  MpFeeGrowth <- MCMpFeeGrowth
  MpMaxFee = 17
  MpMinFee = 1
  MpLowerFactor = 2
  MpPathDepth = 3
  MpRepubLimit = 2
  MpMaxPushed = 2
  MpMaxQueue = 1
  MpPremiumBlocks = 1
  CiMaxMemory = 80
  CiRowsCapacity = 2
  CiBuffer = 2
  CiKeys = {1, 2, 3, 4}
  CiCallers = {"c"}
  CiCar <- MCCiCar
  CiFlushOn = 2
  CiCarFlushOn = 2
  CiMaxCalls = 6
  CiMaxStarts = 2
  CoTipsets = {1, 2, 3, 4, 5}
  CoGenesis = 1
  CoParent <- MCCoParent
  CoHeight <- MCCoHeight
  CoStartHead = 3
  CoLinks <- MCCoLinks
  CoKind <- MCCoKind
  CoFull = 1
  CoLookback = 2
  CoMessages = 2
  CoBatch = 2
  CoCarFlushOn = 1
  CoFinishTears = FALSE
  CoEarly = {}
  CoMaxStarts = 1
  CoMaxCrashes = 1
  JsTypes <- MCJsTypes
  RpMethods <- MCRpMethods
  RpTokens <- MCRpTokens
  RpDefault = {"read"}
  RpQuietLoss = TRUE
  RpMaxCalls = 2
  RpMaxValues = 1
SPECIFICATION NodeSpec
INVARIANTS NodeTypeOK  MessagesAreServed 
CHECK_DEADLOCK FALSE
