SPECIFICATION Spec
CONSTANTS
  Measurements <- MCModern
  Configs <- MCFull
INVARIANTS
  DisablingTLS12CostsNothing
