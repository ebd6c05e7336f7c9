SPECIFICATION Spec
CONSTANTS
  Key = {k1, k2}
  Value = {v1, v2}
  NoVal = NoVal
  FilterWrites = TRUE
INVARIANT
  Inv
PROPERTY
  AllOrNothing
