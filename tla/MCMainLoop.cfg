\* Three messages queue up: one before the close, the close, one after it.
CONSTANTS
  Chatter <- MCChatter
  Capacity = 3
SPECIFICATION MainSpec
INVARIANT NeverDeaf
PROPERTIES CloseEndsProgram
CHECK_DEADLOCK FALSE
