SPECIFICATION ReportsSpec
CONSTANTS
  Measurements <- MCMeasurements
  Configs <- MCConfigs
  Policies <- MC2030
  Probed <- MCProbed
  MaxClock <- MCMaxClock
INVARIANTS
  DocumentedChecksSuffice
