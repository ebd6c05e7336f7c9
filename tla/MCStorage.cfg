SPECIFICATION Spec
CONSTANTS
  Key = {k1, k2}
  Value = {v1, v2}
  NoVal = NoVal
  FilterWrites = FALSE
INVARIANTS
  Inv
  NormalMeansClean
  CommitMeansDurable
  ReadYourWrites
PROPERTIES
  AllOrNothing
  ErrorUntilRestart
  KeepsContract
