\* Two collectives side by side on two ranks, eager and RDMA put.
SPECIFICATION Spec
CONSTANTS
  N = 2
  Rank <- MCRank
  Call <- MCCall
  Jobs <- PairJobs
  Outstanding = 2
  EagerCutoff = 1
  UsePut = TRUE
INVARIANTS
  ResultCorrect
PROPERTIES
  ImplementsSync
CHECK_DEADLOCK FALSE
