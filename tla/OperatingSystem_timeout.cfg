\* The signal may come on the very tick of the timeout.
SPECIFICATION Spec
CONSTANTS
  a = a
  b = b
  s1 = s1
  s2 = s2
  mtx = mtx
  Thread <- MCThread
  App = {a, b}
  Parent <- MCParent
  Detached = {s2}
  Mutex = {mtx}
  NCores = 2
  Programs <- TimedWaits
  Durations = {0, 1, 2, 3}
  Timeout = 3
  NoThread = NoThread
INVARIANT TimedOutNotSignalled
CHECK_DEADLOCK FALSE
