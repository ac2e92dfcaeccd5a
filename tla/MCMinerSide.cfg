CONSTANTS
  MinerParts = {"stores", "file", "runs", "batch", "pack", "events", "mine", "window"}
  a1 = a1  a2 = a2  a3 = a3
  Nodes = {"miner", "worker"}
  MinerNode = "miner"
  Paths = {"ms", "mt", "ws"}
  NodeOf <- MCNodeOf
  CanSeal = {"ms", "ws"}
  CanStore = {"mt"}
  Weight <- MCWeight
  Capacity <- MCCapacity
  PlainAdapter = {"miner", "worker"}
  Tasks <- MCTasks
  ManagerCalls = {"AddPiece", "PreCommit1", "PreCommit2", "Commit1", "Commit2", "Finalize", "ReadPiece", "Remove", "ReplicaUpdate", "ProveUpdate1", "ProveUpdate2", "FinalizeUpdate", "ReleaseUpgrade", "ReleaseKey"}
  MaxFaults = 1
  MaxCalls = 5
  MaxRestarts = 1
  SfBlocks = 4
  SfPieces = {"p", "q"}
  SfSizes = {1, 4}
  SfMergeGaps = 0
  SfChunk = 1
  SfNull = TRUE
  SfOverlap = FALSE
  SfMaxCalls = 4
  RlPoints = {0, 1, 2, 3, 17, 18, 40, 300}
  BatchSectors = {1, 2}
  MaxDelay = 3
  MaxNow = 5
  MaxAttempts = 2
  Adders = {a1, a2, a3}
  PieceSize <- MCPieceSize
  PackSectorSize = 4
  DealLimit = 2
  MaxWaitDeals = 2
  MaxSealingDeals = 1
  OldSector = 1
  Capability = 4
  NoTipset = NoTipset
  EvTipsets <- MCEvTipsets
  EvHeight <- MCEvHeight
  EvGenesis = 0
  EvParent <- MCEvParent
  EvHandlers = {1, 2}
  EvRequests <- MCEvRequests
  GlobalConfidence = 2
  BkTipsets <- MCBkTipsets
  BkGenesis = 1
  BkParent <- MCBkParent
  BkHeight <- MCBkHeight
  BkWinCounts <- MCBkWinCounts
  BkState <- MCBkState
  BkSelect <- MCBkSelect
  BkWins = {2, 4, 5}
  BkMiners = 2
  BkMinPower = 2
  BkLookback = 2
  BkVersion0 = FALSE
  BkNetwork = 13
  BkSmoke = 2
  BkGasLimit = 6
  BkDelay = 2
  BkDrandPeriod = 2
  BkDrandAhead = 4
  MnPropagation = 1
  MnMaxFaults = 1
  MnMaxNow = 9
  WpDeadlines = 4
  WpWindow = 3
  WpLookback = 1
  kStartConfidence = 1
  WpStart = 3
  WpIgnition = 4
  WpPartitions <- MCPartitions
  WpPartSize = 2
  WpForks = {1, 2}
  WpBad <- MCBad
  WpCanFail = TRUE
  WpMaxReorg = 3
  WpLastEpoch = 5
SPECIFICATION MinerSpec
INVARIANTS MinerTypeOK    
CHECK_DEADLOCK FALSE
