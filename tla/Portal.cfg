SPECIFICATION FairSpec
CONSTANTS
  MaxRequests = 3
  BufferCount = 1
  MaxParts = 3
  MaxFalls = 1
INVARIANTS
  TypeOK
  BuffersConserved
  BodyIsPrefix
  HandledInOrder
PROPERTIES
  KeepsPromise
  RequestsGetThrough
CHECK_DEADLOCK FALSE
