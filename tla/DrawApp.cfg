SPECIFICATION Spec
CONSTANTS
  cat = cat
  dog = dog
  plain = plain
  f1 = f1
  Files <- OneFile
  InitialDisk <- DiagramOnDisk
  Positions <- TwoColumns
  Looks = {plain}
  Pictures = {dog}
  UndoCap = 4
  MaxShapes = 6
  MaxOps = 4
INVARIANTS DrawingsSound CleanMeansSaved
PROPERTIES NothingIsLost
CHECK_DEADLOCK FALSE
