SPECIFICATION FairSpec
CONSTANTS
  Suites <- MCSuites
  DefaultSuites <- MCDefault
  EcdheSuites <- MCDefault
  AeadSuites <- MCDefault
  Suites13 <- MCSuites13
  Bits <- MCBits
  NameRank <- MCNameRank
  Groups <- MCGroups
  ToolchainGroups <- MCToolchain
  HybridGroups <- MCHybrid
  GroupBits <- MCGroupBits
  Configs <- MCConfigs
  ConnectTimeout = 1
  Servers <- MCLegacy
  MaxLosses = 0
INVARIANTS
  NoTLSMeansNoHandshake
