SPECIFICATION FairSpec
CONSTANTS
  Teams = {g1, g2}
  NoTeam = NoTeam
  Desktop = Desktop
  PaneCount = 2
  ArenaSize = 1
  MaxCommands = 3
PROPERTY CrashedPictureGoes
CHECK_DEADLOCK FALSE
