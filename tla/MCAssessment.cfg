SPECIFICATION Spec
CONSTANTS
  Measurements <- MCMeasurements
  Configs <- MCConfigs
INVARIANTS
  TypeOK
  SelfDescriptionBuysNothing
  RefusedCertificateIsExposed
  WeakerNeverHelps
  SkippedChecksAreDisclosed
  QuantumSectionsAgree
  FindingsAndAdviceAgree
