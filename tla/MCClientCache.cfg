SPECIFICATION Spec
CONSTANTS
  Library = {red, blue}
  None = None
  Before = 1
  MaxFile = 2
SYMMETRY Symmetry
CONSTRAINT StillClaimed
INVARIANTS
  Inv
  CacheFollows
