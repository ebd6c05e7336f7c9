SPECIFICATION Spec
CONSTANTS
  MaxFile = 2
  Word = {1, 2}
  TagWord = {1, 2}
  ClassWord = {}
  KeepTags = FALSE
  Repeats = FALSE
  Crashes = FALSE
INVARIANT
  TagTwoWay
