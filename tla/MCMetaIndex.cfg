SPECIFICATION Spec
CONSTANTS
  Name = {"type", "color"}
  ColorName = {"color"}
  Schema = {"type"}
  Queries <- MCQueries
  Value = {1, 3}
  MaxFile = 2
  MaxItem = 2
INVARIANTS
  Inv
  ItemsAreMatched
  QueryFinds
