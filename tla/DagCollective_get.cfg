\* Every collective and root on three ranks, eager and RDMA get, and two barriers in a row.
SPECIFICATION Spec
CONSTANTS
  N = 3
  Rank <- MCRank
  Call <- MCCall
  Jobs <- DataAndBarrierJobs
  Outstanding = 1
  EagerCutoff = 2
  UsePut = FALSE
INVARIANTS
  NoProtocolAbort
  DoneMeansAll
  DoneIsFinal
  ResultCorrect
PROPERTIES
  PrecursorsFirst
  Termination
CHECK_DEADLOCK FALSE
