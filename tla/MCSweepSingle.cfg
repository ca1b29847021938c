SPECIFICATION FairSpec
CONSTANTS
  N = 1
  Concurrencies <- MCConcurrencies
  Timeouts <- MCTimeouts
PROPERTIES
  RunEnds
  ImplementsContract
