SPECIFICATION Spec
CONSTANTS
  Inks = {white, red}
  White = white
  Bare = bare
  Files = {f1}
  InitialDisk <- NoPaintings
  UndoCap = 2
  MaxWidth = 2
  MaxOps = 4
INVARIANTS HistoryFits CompositeIsCurrent CleanMeansSaved
