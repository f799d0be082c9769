SPECIFICATION Spec
CONSTANTS
  q1 = q1
  q2 = q2
  Questions <- TwoQuestions
  Looper = Looper
  NoOne = NoOne
  NotAsked = NotAsked
  NoAnswer = NoAnswer
  Nothing = Nothing
  Lines <- TwoTexts
  PipeRoom = 1
  MaxSessions = 1
  PortRoom = 1
  AsksAfter = {1}
INVARIANTS
  TypeOK
  OwnAnswers
  TextsAgree
PROPERTIES
  KeepsPromise
CHECK_DEADLOCK FALSE
