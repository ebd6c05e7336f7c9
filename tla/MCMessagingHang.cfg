SPECIFICATION FairSpec
CONSTANTS
  Type <- MCType
  Item <- MCItem
  Stray = stray
  Served = {tags}
  Images = images
  File = {}
  MaxRequest = 2
  Overlap = {tags}
  OneImport = TRUE
  Strays = FALSE
PROPERTY
  EveryGetIsAnswered
CHECK_DEADLOCK FALSE
