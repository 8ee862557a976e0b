SPECIFICATION MCSpec
CONSTANTS
  p1 = p1
  p2 = p2
  c1 = c1
  c2 = c2
  PoolCall = {c1, c2}
  Pool = {p1, p2}
  PoolsOf <- MCPoolsOf
  Since <- MCSince
  MaxHead = 2
  PoolSampling = 50
  PoolSwitching = 50
  FeeCall = {c1}
  Token = {p1, p2, c1}
  ListedDynamic = {p1, c1}
  Checksummed = {c1}
  FeeChain = {"MAINNET", "SEPOLIA"}
  Customization <- MCCustomization
  FeeDraw = {0, 999}
  QuoteCall = {c1}
  QuoteChain = {"MAINNET", "SEPOLIA", "BASE", "UNICHAIN", "ZKSYNC"}
  Draw = {0, 99}
  RouteBatches <- MCRouteBatches
  QuotedBlock = {0, 1, 2}
  BatchChain = {"MAINNET", "SEPOLIA", "ZKSYNC", "BASE", "ARBITRUM_ONE", "OPTIMISM", "CELO", "BLAST", "AVALANCHE", "BNB", "POLYGON", "UNICHAIN"}
  LibraryBatch <- MCLibraryBatch
  LibraryOverride <- MCLibraryOverride
  LibraryRetries = 2
  FileKey <- MCFileKey
  CronRun = {c1, c2}
  Download = {p1, p2}
  Ttl = 1
  MaxFlight = 1
  MaxVersion = 2
  V4Pool <- MCV4Pool
  Group <- MCGroup
  Tvl <- MCTvl
  Hooks <- MCHooks
  Interferes = {"i", "w", "y"}
  Additional = {"w"}
  Dust = {"y"}
  TOP_GROUPED_V4_POOLS = 2
  QuoteRequest <- MCQuoteRequest
  WithoutRpc = {"ZKSYNC"}
  RpcConfig <- MCRpcConfig
  Environment <- MCEnvironment
  Undefined = Undefined
INVARIANTS
  TypesOK
  TableHoldsTruth TargetMatchesTruth AnswersComplete
  NothingForgotten FullExperimentSwitches
  CountedFailuresReal SharesAtTheEdge
  BoundedStaleness OnlyOverlapsGoBack
  OnlyOutranked Safeguard
  CountedAsAnswered ChainsInjected
  RequestsUseTheirGateway GatewaysAsConfigured DeploymentAgrees
PROPERTIES
  FeesImplementSwitch QuoterImplementsSwitch RetriesGetMoreGas FileKept
CHECK_DEADLOCK FALSE
