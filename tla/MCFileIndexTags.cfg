SPECIFICATION Spec
CONSTANTS
  MaxFile = 2
  Word = {1, 2}
  TagWord = {1, 2}
  ClassWord = {2}
  KeepTags = FALSE
  Repeats = FALSE
  Crashes = TRUE
INVARIANTS
  Inv
  UntaggedIsExact
  TagsAreFound
  KeywordsFind
  KeywordRowsLeadBack
  MembershipIsTwoWay
  SavedOnReturn
PROPERTY
  IdsAreFresh
