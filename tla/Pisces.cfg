\* Single messages and pairs on a torus of eight switches.
SPECIFICATION FairSpec
CONSTANTS
  NDim = 2
  Dims <- MCDims
  Message = {1, 2}
  Jobs <- MCJobs
  Mtu = 2
  InjCredits = 3
  LinkCredits = 7
INVARIANTS
  CreditsConserved
  NoLostWakeup
  ChannelsOrdered
PROPERTIES
  ImplementsFabric
CHECK_DEADLOCK FALSE
