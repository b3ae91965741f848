CONSTANTS
  LevelCount = 3
  HasMusic = TRUE
SPECIFICATION Spec
INVARIANT MainMenuAlone
PROPERTIES RequestStartsPlay NextLevelMovesOn
CHECK_DEADLOCK FALSE
