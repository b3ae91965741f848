\* Any create_buffer may fail, and the pools may be in either order.
CONSTANTS
  FrameCount = 2
  Slot = {s1, s2, s3}
  FirstCount = 1
  MaxInstances = 3
  CreateMayFail = TRUE
  NULL = NULL
SPECIFICATION Spec
SYMMETRY Slots
INVARIANTS InFlightIntact HostWritesPrivate SceneSetsRight NothingLeaked
PROPERTIES EndSkipsDeadDevice OrderlyEndFrees KeepsToFrameRing
\* The program ends.
CHECK_DEADLOCK FALSE
