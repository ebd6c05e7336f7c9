SPECIFICATION Spec
CONSTANTS
  MaxFile = 2
  Word = {1, 2, 3}
  TagWord = {1, 2, 3}
  ClassWord = {}
  KeepTags = TRUE
  Repeats = FALSE
  Crashes = FALSE
INVARIANTS
  TagTwoWay
  AllTagsAreServed
  KeywordsFind
