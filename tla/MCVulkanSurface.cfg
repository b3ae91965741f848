SPECIFICATION Spec
CONSTANTS
  VsyncImages = 3
  PlainImages = 2
  Faults = {"submit", "present", "acquire", "swapchain", "framebuffer", "fence", "turn"}
INVARIANTS
  FenceComes
  SemaphoresFree
  DrawsWhatItPresents
  LockFreeBetweenCalls
PROPERTIES
  StartFrameReturns
  RefinesFrameRing
\* A failed call can leave the thread in a wait that never ends.
CHECK_DEADLOCK FALSE
