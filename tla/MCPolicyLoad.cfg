SPECIFICATION LoadSpec
CONSTANTS
  Measurements <- MCMeasurements
  Configs <- MCFull
  Policies <- BuiltIn
  Files <- MCFiles
  Blank = Blank
  Punctuation = Punctuation
  Misspelt = Misspelt
INVARIANTS
  EveryWrittenRuleDecides
  LoadedPolicyCanFail
PROPERTIES
  LoadReturns
