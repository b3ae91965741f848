\* Is the shutdown flag set by Quit?
CONSTANTS
  LevelCount = 3
  HasMusic = TRUE
SPECIFICATION Spec
PROPERTIES QuitSetsFlag
