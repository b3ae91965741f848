SPECIFICATION Spec
CONSTANTS
  MaxIds = 3
  VersionMask = 2
  MaxLives = 3
  MaxNamed = 2
INVARIANTS
  LoopIntact
  StaleRefused
PROPERTY
  RefinesEntitySet
\* Every number may have had all its lives.
CHECK_DEADLOCK FALSE
