\* Three messages of one sender, Eager1 among them.
SPECIFICATION Spec
CONSTANTS
  a = a
  b = b
  c = c
  t1 = t1
  t2 = t2
  c1 = c1
  Rank = {a, b}
  Tag = {t1, t2}
  Comm = {c1}
  AnySource = AnySource
  AnyTag = AnyTag
  ProcNull = ProcNull
  NoRank = NoRank
  Programs <- OrderEager1
  MaxVshort = 1
  MaxEager = 2
  HeaderBytes = 1
  SoftwareAck = TRUE
  TestDelay = TRUE
  IprobeDelay = FALSE
INVARIANTS NonOvertakingAll
CHECK_DEADLOCK FALSE
