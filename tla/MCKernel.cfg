SPECIFICATION Spec
CONSTANTS
  Library = {old, new}
  None = None
  Image = {img0, img1, img2}
  NoImage = NoImage
  MaxFile = 3
  OldLibrary = {old}
  OldImage = img0
INVARIANTS
  Inv
  KeptSomewhere
  ServedWhole
  ColorIsOwn
  CallsReachDefault
