SPECIFICATION FairSpec
CONSTANTS
  Sizes <- WindowSizes
  EventBuffers = 2
  MaxResizes = 3
  MaxVsyncs = 1
INVARIANTS HintTypeOK SharedCatchesUp
PROPERTIES ScreenFollows
CHECK_DEADLOCK FALSE
