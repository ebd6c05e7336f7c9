SPECIFICATION FairSpec
CONSTANTS
  Type <- MCType
  Item <- MCItem
  Stray = stray
  Served = {tags, query}
  Images = images
  File = {f1, f2}
  MaxRequest = 3
  Overlap = {query}
  OneImport = TRUE
  Strays = TRUE
CONSTRAINT FewTasks
INVARIANTS
  Inv
  QueueIsServed
PROPERTIES
  GetIsAnswered
  AnswersAreNews
  OwnAnswer
  ReadIsShown
CHECK_DEADLOCK FALSE
