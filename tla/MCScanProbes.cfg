SPECIFICATION FairSpec
CONSTANTS
  Suites <- MCSuites
  DefaultSuites <- MCDefault
  EcdheSuites <- MCDefault
  AeadSuites <- MCDefault
  Suites13 <- MCSuites13
  Bits <- MCBits
  NameRank <- MCNameRank
  Groups <- MCGroups
  ToolchainGroups <- MCToolchain
  HybridGroups <- MCHybrid
  GroupBits <- MCGroupBits
  Configs <- MCConfigs
  ConnectTimeout = 1
  Servers <- MCServers
  MaxLosses = 1
INVARIANTS
  TypeOK
  ResultIsWhatWasMeasured
  NegotiatedIsMarked
  PreferredIsNegotiated
  UndisturbedScanIsExhaustive
  AbsenceIsExplained
PROPERTIES
  ScanReturns
  ImplementsScanContract
