SPECIFICATION LiveSpec
CONSTANTS
  Callers = {c1, c2, c3}
  NoCaller = NoCaller
  MaxCommands = 3
  MaxPermits = 2
INVARIANTS
  TypeOK
  RunsOnceAsQueued
  AnswerIsMine
  SignalNotLost
  OneInFlight
PROPERTIES
  PageQuietWhileTheirs
  ImplementsRpc
  CallReturns
  ChannelRecovers
CHECK_DEADLOCK FALSE
