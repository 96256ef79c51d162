\* Two processes of two threads, with and without a stop time.
SPECIFICATION FairSpec
CONSTANTS
  Proc = {0, 1}
  NThread = 2
  Lookahead = 2
  Latency <- MCLatency
  LinkId <- MCLinkId
  MaxLinkId = 1000
  Multithreaded = TRUE
  StopTimes = {0, 3}
  Terminators = {}
  InitialTime <- MCInitialTime
  MaxDelay = 0
  MaxInitial = 2
  MaxSends = 2
  NoEvents = 20
INVARIANTS
  NoTimeTravel
  SlotRaceFree
  MessagesOfThisEpoch
  NothingLeftBehind
  NoAbort
PROPERTIES
  ImplementsSim
  Termination
CHECK_DEADLOCK FALSE
