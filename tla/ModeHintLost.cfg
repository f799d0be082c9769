SPECIFICATION FairSpec
CONSTANTS
  Sizes <- WindowSizes
  EventBuffers = 2
  MaxResizes = 1
  MaxVsyncs = 0
PROPERTIES NoHintIsLost
CHECK_DEADLOCK FALSE
