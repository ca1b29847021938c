SPECIFICATION FairSpec
CONSTANTS
  N = 2
  Concurrencies <- MCConcurrencies
  Timeouts <- MCShortestTimeout
PROPERTIES
  RunEnds
\* The finding itself: with every peer silent and no bound, nothing can move.
CHECK_DEADLOCK FALSE
