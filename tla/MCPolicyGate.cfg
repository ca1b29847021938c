SPECIFICATION ReportsSpec
CONSTANTS
  Measurements <- MCMeasurements
  Configs <- MCConfigs
  Policies <- MCPolicies
  Probed <- MCProbed
  MaxClock <- MCMaxClock
INVARIANTS
  GateAgreesWithFindings
  SkippingOpensNoGate
  NoVacuousPass
  StrictImpliesModern
  RejectedChainIsExposed
  BlameIsHonest
  TimelineTellsTheSameStory
  WeakerNeverAdvances
  UnmeasuredNeverLooksMeasured
  SurfacesAgree
