SPECIFICATION Spec
CONSTANTS
  Word = {4, 12}
  File = {f}
  Depth = 3
  Hash <- MCHash
  MaxClass = 3
  MaxChange = 2
  ParentsFirst = TRUE
  Deep = TRUE
INVARIANT
  ChildrenFollow
