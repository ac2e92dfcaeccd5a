CONSTANTS
  ActorParts = {"vm", "hamt", "amt", "cbor", "multisig", "verified", "market", "reward", "power", "deadline", "miner"}
  VmPrice <- MCVmPrice
  VmVersion = 12
  VmPrograms <- MCVmPrograms
  VmReward = 2
  ItMessages <- MCItMessages
  ItBlocks <- MCItBlocks
  ItGenesis <- MCItGenesis
  ItHyperdrive = TRUE
  ItGasTarget = 20
  ItMinFee = 1
  ItFeeDenom = 2
  ItImplicitGas = 200
  ItMaxTipsets = 3
  ItMaxHeight = 4
  HmKeys = {1, 2, 3, 4, 5, 6}
  HmHash <- MCHmHash
  HmBitWidth = 2
  kDefaultBitWidth = 3
  HmValues = {1}
  HmReaches = {0, 1, 2, 9}
  HmPuts = {1, 9}
  HmMaxCalls = 7
  AmKeys = {0, 1, 2, 5, 17, 40}
  AmValues = {1}
  AmWord = 8
  AmBits = 2
  kDefaultBits = 3
  AmReaches = {0, 1, 2, 9}
  AmPuts = {1, 9}
  AmMaxCalls = 6
  CbVariants = {0, 5}
  CbChunks = {1, 7, 40}
  CbLost = FALSE
  CbRestart = FALSE
  MsAccounts = {"a", "b", "c"}
  MsFounders <- MCMsFounders
  MsVersions = {0, 2, 3}
  MsCalls <- MCMsCalls
  MsSignersMax = 3
  MsWord = 65536
  MsMaxTx = 2
  MsMaxEpoch = 3
  MsMaxBalance = 3
  VrAddresses = {"root", "v", "c", "d"}
  VrRoot = "root"
  VrMinDealSize = 2
  VrSizes = {1, 2, 3}
  VrMaxGranted = 6
  MkVersions = {0, 3}
  MkAccounts = {"c", "d", "n"}
  MkMiners <- MCMkMiners
  MkKnown = {"c", "d", "m"}
  MkDeposits = 5
  MkBatches <- MCMkBatches
  MkInterval = 2
  MkDurations = {2, 4}
  MkSupply = 100
  MkPower <- MCMkPower
  MkLastEpoch = 5
  MkMaxBalance = 9
  RwScale = 8
  RwExponent = 12
  RwBaselineInitial = 2
  RwSimple <- MCRwSimple
  RwSupply <- MCRwSupply
  RwFunds = 6
  RwPenalties = {0, 2}
  RwGas = {0, 1}
  RwPowers = {0, 1, 9}
  RwLastEpoch = 4
  RwMaxPaid = 9
  PwVersions <- MCPwVersions
  PwMinPower = 4
  PwMinMiners = 1
  PwDeltas <- MCPwDeltas
  PwMaxProofs = 1
  PwMaxMiners = 2
  PwMaxPower = 4
  PwMaxPledge = 1
  PwLastEpoch = 1
  PwMaxEvents = 2
  DlSectors = {1, 2, 3}
  SectorPower <- MCSectorPower
  SectorPledge <- MCSectorPledge
  SectorExpiration <- MCSectorExpiration
  DlVersions = {0, 2, 3}
  DlPartitionSize = 2
  DlWindow = 2
  DlPeriod = 4
  DlFaultMaxAge = 4
  DlPeriods = 2
  DlOps = 2
  MiVersions <- MCMiVersions
  MiSectors = {1, 2}
  MiWorkers = {"owner", "w"}
  MiPledges = {0, 1}
  MiAmounts = {1, 2}
  MiPeriod = 4
  MiWindow = 2
  MiMaxSeal = 1
  MiMaxProve = 0
  MiKeyDelay = 1
  MiVest <- MCMiVest
  MiOffsets = {1, 3}
  MiLastEpoch = 3
  MiMaxReceived = 3
SPECIFICATION ActorsSpec
INVARIANTS ActorsTypeOK ExecutionIsSound   
PROPERTIES FailureLeavesNoTrace
CHECK_DEADLOCK FALSE
