\* Four threads on two cores.
SPECIFICATION FairSpec
CONSTANTS
  a = a
  b = b
  s1 = s1
  s2 = s2
  mtx = mtx
  Thread <- MCThread
  App = {a, b}
  Parent <- MCParent
  Detached = {s2}
  Mutex = {mtx}
  NCores = 2
  Programs <- MCPrograms
  Durations = {0, 1, 2}
  Timeout = 3
  NoThread = NoThread
INVARIANTS
  MutualExclusion
  CoresConserved
  OneWaker
  WorkConserving
PROPERTIES
  NoFailure
  Termination
CHECK_DEADLOCK FALSE
