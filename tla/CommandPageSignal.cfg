SPECIFICATION Spec
CONSTANTS
  Callers = {c1, c2}
  NoCaller = NoCaller
  MaxCommands = 3
  MaxPermits = 2
INVARIANT SignalMeansCompleted
CHECK_DEADLOCK FALSE
