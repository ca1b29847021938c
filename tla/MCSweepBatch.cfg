SPECIFICATION FairSpec
CONSTANTS
  N = 3
  Concurrencies <- MCConcurrencies
  Timeouts <- MCTimeouts
INVARIANTS
  TypeOK
  IInv
  DocumentIsFaithful
  SuccessIsEarned
  GateSpeaksOfMeasuredTargets
  SemaphoreRespected
PROPERTIES
  QuietAfterWait
  RunEnds
  EveryTargetIsScanned
  ImplementsContract
