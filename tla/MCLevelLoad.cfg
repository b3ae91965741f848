\* Ten handles: a level, two actors of it or one and a second level.  When they are used
\* up the run stops.
CONSTANTS
  enemy = enemy
  ground = ground
  Name <- MCName
  Object <- MCObject
  Levels <- MCLevels
  MaxEntity = 10
SPECIFICATION Spec
INVARIANTS NoReentry ModelsFresh ModelsComplete CascadeConfined DestroyedOnce
CHECK_DEADLOCK FALSE
