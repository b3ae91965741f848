SPECIFICATION Spec
CONSTANTS
  Threads = {t1, t2}
  Listeners = {a, b}
  NoThread = NoThread
  Stack = 2
  MaxListeners = 3
  MaxPushes = 2
\* All listeners may be dead.
CHECK_DEADLOCK FALSE
INVARIANT CallbacksUnlocked
PROPERTIES RefinesEventBus LockComesFree
