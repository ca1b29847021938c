SPECIFICATION ReportsSpec
CONSTANTS
  Measurements <- MCMeasurements
  Configs <- MCConfigs
  Policies <- MCModern
  Probed <- MCProbed
  MaxClock <- MCMaxClock
INVARIANTS
  CompliantMilestoneMeetsItsRequirements
