\* Jobs of three tasks whose sends and receives pair up, all protocols.
SPECIFICATION FairSpec
CONSTANTS
  a = a
  b = b
  c = c
  t1 = t1
  t2 = t2
  c1 = c1
  Rank = {a, b, c}
  Tag = {t1, t2}
  Comm = {c1}
  AnySource = AnySource
  AnyTag = AnyTag
  ProcNull = ProcNull
  NoRank = NoRank
  Programs <- MatchedPrograms
  MaxVshort = 1
  MaxEager = 2
  HeaderBytes = 1
  SoftwareAck = FALSE
  TestDelay = TRUE
  IprobeDelay = FALSE
INVARIANTS NonOvertaking
PROPERTIES Termination
CHECK_DEADLOCK FALSE
