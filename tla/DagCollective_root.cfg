\* A reduction to the last of three ranks.
SPECIFICATION Spec
CONSTANTS
  N = 3
  Rank <- MCRank
  Call <- MCCall
  Jobs <- ReduceJobs
  Outstanding = 1
  EagerCutoff = 3
  UsePut = FALSE
INVARIANTS
  ResultCorrect
CHECK_DEADLOCK FALSE
