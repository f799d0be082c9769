SPECIFICATION FairSpec
CONSTANTS
  Teams = {g1, g2}
  NoTeam = NoTeam
  Desktop = Desktop
  PaneCount = 2
  ArenaSize = 2
  MaxCommands = 3
INVARIANTS
  TypeOK
  UsedIsOnScreen
  ArenaDisjoint
PROPERTIES
  TakenOnlyFromTheDead
  IoctlEnds
CHECK_DEADLOCK FALSE
