\* Two processes of one thread each, and a stop time.
SPECIFICATION Spec
CONSTANTS
  Proc = {0, 1}
  NThread = 1
  Lookahead = 2
  Latency <- MCLatency
  LinkId <- MCLinkId
  MaxLinkId = 1000
  Multithreaded = FALSE
  StopTimes = {4}
  Terminators = {}
  InitialTime <- MCInitialTime
  MaxDelay = 0
  MaxInitial = 2
  MaxSends = 2
  NoEvents = 20
INVARIANT NoAbort
CHECK_DEADLOCK FALSE
